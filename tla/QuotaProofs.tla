----------------------------- MODULE QuotaProofs -----------------------------
(***************************************************************************)
(* What an organization may store and use.                                 *)
(*                                                                         *)
(* ObjectStorage, for any finite set of objects and of grants and any      *)
(* number of cleaners, keys, sizes, retries and quota: the objects and     *)
(* the reserved grants stay within the quota, no object loses its          *)
(* contents to a cleanup, and every blob of the provider is an object's,   *)
(* an upload's, a grant's or one that the cleanup queue will delete.       *)
(*                                                                         *)
(* UsageLedger, for any finite set of calls and any users and limits: the  *)
(* writes and the bytes that reservations admit stay within the plan's     *)
(* allowances, and a user is counted as active exactly while something of  *)
(* theirs is reserved or recorded.                                         *)
(*                                                                         *)
(* UsageReporting, for any period, leases, delays and number of failures:  *)
(* the provider is never told more than was used, by any number of         *)
(* reporters, and with one reporter a finalized period was reported to     *)
(* the unit.  A report is known by its dimension, total, hour and          *)
(* quantity, which claiming and sending it leave alone, so what is         *)
(* reported is a sum over what the outbox knows reports by.                *)
(*                                                                         *)
(* All count with sums over finite sets.  The fold behind a sum is a       *)
(* recursive function; that it exists, and that it does not depend on the  *)
(* order in which elements are chosen, is shown first, by least            *)
(* counterexamples, natural numbers being well founded.                    *)
(***************************************************************************)
EXTENDS ObjectStorage, UsageLedger, UsageReporting, FiniteSetTheorems, WellFoundedInduction, TLAPS

SumOver(f, S) == FoldFunctionOnSet(+, 0, f, S)

-----------------------------------------------------------------------------
(* The recursive function of the fold.                                       *)

LEMMA LeastNat ==
  ASSUME NEW T, T \subseteq Nat, T # {}
  PROVE  \E x \in T : \A y \in T : x <= y
<1>1. PICK x \in T : \A y \in T : ~ (<<y, x>> \in OpToRel(<, Nat))
  BY NatLessThanWellFounded, WFMin
<1>2. \A y \in T : ~ (y < x)
  BY <1>1 DEF OpToRel
<1> QED BY <1>2

First(s) == CHOOSE x \in s : TRUE

\* g adds f over the subsets in P.
Adds(f, P, g) == g = [s \in P |-> IF s = {} THEN 0 ELSE f[First(s)] + g[s \ {First(s)}]]

Upto(S, n) == {s \in SUBSET S : Cardinality(s) <= n}

\* Taking an element away makes a finite set smaller.
LEMMA FirstOf ==
  ASSUME NEW s, IsFiniteSet(s), s # {}
  PROVE  /\ First(s) \in s /\ IsFiniteSet(s \ {First(s)})
         /\ Cardinality(s) \in Nat /\ Cardinality(s) > 0
         /\ Cardinality(s \ {First(s)}) = Cardinality(s) - 1
<1>1. First(s) \in s BY DEF First
<1> QED BY <1>1, FS_RemoveElement, FS_EmptySet, FS_CardinalityType

\* On the subsets of at most n elements the recursive function exists.
LEMMA AddsUpto ==
  ASSUME NEW f, NEW S, IsFiniteSet(S), NEW n \in Nat
  PROVE  \E g : Adds(f, Upto(S, n), g)
<1> DEFINE T == {m \in Nat : ~ \E g : Adds(f, Upto(S, m), g)}
<1> SUFFICES ASSUME T # {} PROVE FALSE OBVIOUS
<1>1. PICK m \in T : \A y \in T : m <= y BY LeastNat
<1>f. \A s \in SUBSET S : IsFiniteSet(s) /\ Cardinality(s) \in Nat
  BY FS_Subset, FS_CardinalityType
<1>2. CASE m = 0
  <2>1. \A s \in Upto(S, 0) : s = {} BY <1>f, FS_EmptySet DEF Upto
  <2> DEFINE g == [s \in Upto(S, 0) |-> 0]
  <2>2. g = [s \in Upto(S, 0) |-> IF s = {} THEN 0 ELSE f[First(s)] + g[s \ {First(s)}]]
    BY <2>1
  <2>3. Adds(f, Upto(S, 0), g) BY <2>2 DEF Adds
  <2> HIDE DEF g
  <2> QED BY <2>3, <1>2
<1>3. CASE m # 0
  <2>1. m - 1 \in Nat /\ m - 1 \notin T BY <1>1, <1>3
  <2>2. PICK g : Adds(f, Upto(S, m - 1), g) BY <2>1
  <2> DEFINE h == [s \in Upto(S, m) |-> IF s = {} THEN 0 ELSE f[First(s)] + g[s \ {First(s)}]]
  <2>3. \A t \in Upto(S, m - 1) : t \in Upto(S, m)
    BY <1>f DEF Upto
  <2>4. ASSUME NEW t \in Upto(S, m - 1) PROVE h[t] = g[t]
    <3>1. g[t] = IF t = {} THEN 0 ELSE f[First(t)] + g[t \ {First(t)}] BY <2>2 DEF Adds
    <3> QED BY <2>3, <3>1
  <2>5. ASSUME NEW s \in Upto(S, m), s # {} PROVE s \ {First(s)} \in Upto(S, m - 1)
    <3>1. s \in SUBSET S /\ IsFiniteSet(s) /\ Cardinality(s) <= m BY <1>f DEF Upto
    <3>2. Cardinality(s) \in Nat /\ Cardinality(s \ {First(s)}) = Cardinality(s) - 1 BY <2>5, <3>1, FirstOf
    <3>3. Cardinality(s \ {First(s)}) <= m - 1 BY <1>1, <3>1, <3>2
    <3>4. s \ {First(s)} \in SUBSET S BY <3>1
    <3> QED BY <3>3, <3>4 DEF Upto
  <2> HIDE DEF h
  <2>6. \A s \in Upto(S, m) : s # {} => h[s \ {First(s)}] = g[s \ {First(s)}] BY <2>4, <2>5
  <2>7. h = [s \in Upto(S, m) |-> IF s = {} THEN 0 ELSE f[First(s)] + h[s \ {First(s)}]]
    BY <2>6 DEF h
  <2> QED BY <2>7 DEF Adds
<1> QED BY <1>2, <1>3

\* So it exists on all subsets,
LEMMA AddsExists ==
  ASSUME NEW f, NEW S, IsFiniteSet(S)
  PROVE  \E g : Adds(f, SUBSET S, g)
<1>1. Cardinality(S) \in Nat BY FS_CardinalityType
<1>2. Upto(S, Cardinality(S)) = SUBSET S BY FS_Subset DEF Upto
<1>3. \E g : Adds(f, Upto(S, Cardinality(S)), g) BY <1>1, AddsUpto
<1> QED BY <1>2, <1>3

\* and the sum is its value at the whole set.
LEMMA SumAdds ==
  ASSUME NEW f, NEW S, IsFiniteSet(S)
  PROVE  \E g : Adds(f, SUBSET S, g) /\ SumOver(f, S) = g[S]
<1>1. \E g : SumOver(f, S) = g[S] /\ ((\E h : Adds(f, SUBSET S, h)) => Adds(f, SUBSET S, g))
  BY DEF SumOver, FoldFunctionOnSet, MapThenFoldSet, Adds, First
<1> QED BY <1>1, AddsExists

LEMMA AddsEmpty ==
  ASSUME NEW f, NEW S, NEW g, Adds(f, SUBSET S, g)
  PROVE  g[{}] = 0
<1>1. {} \in SUBSET S OBVIOUS
<1> QED BY <1>1 DEF Adds

LEMMA AddsStep ==
  ASSUME NEW f, NEW S, NEW g, Adds(f, SUBSET S, g), NEW s \in SUBSET S
  PROVE  /\ s = {} => g[s] = 0
         /\ s # {} => g[s] = f[First(s)] + g[s \ {First(s)}]
BY DEF Adds

\* Two such functions agree on a set where what they add agrees.
LEMMA AddsSame ==
  ASSUME NEW S, IsFiniteSet(S), NEW R, NEW f, NEW h, NEW g, NEW k,
         Adds(f, SUBSET S, g), Adds(h, SUBSET R, k),
         NEW u, u \subseteq S, u \subseteq R, \A x \in u : f[x] = h[x]
  PROVE  g[u] = k[u]
<1> DEFINE T == {n \in Nat : \E s \in SUBSET u : g[s] # k[s] /\ Cardinality(s) = n}
<1> SUFFICES ASSUME g[u] # k[u] PROVE FALSE OBVIOUS
<1>f. \A s \in SUBSET u : IsFiniteSet(s) /\ Cardinality(s) \in Nat
  BY FS_Subset, FS_CardinalityType
<1>1. T # {} /\ T \subseteq Nat BY <1>f
<1>2. PICK m \in T : \A y \in T : m <= y BY <1>1, LeastNat
<1>3. PICK s \in SUBSET u : g[s] # k[s] /\ Cardinality(s) = m BY <1>2
<1>4. s \in SUBSET S /\ s \in SUBSET R OBVIOUS
<1>5. s # {} BY <1>3, <1>4, AddsStep
<1>6. First(s) \in s /\ Cardinality(s \ {First(s)}) = m - 1
  <2>1. IsFiniteSet(s) BY <1>f
  <2> QED BY <2>1, <1>3, <1>5, FirstOf
<1>7. g[s] = f[First(s)] + g[s \ {First(s)}]
  <2>1. Adds(f, SUBSET S, g) /\ s \in SUBSET S /\ s # {} BY <1>4, <1>5
  <2> QED BY ONLY <2>1, AddsStep
<1>8. k[s] = h[First(s)] + k[s \ {First(s)}]
  <2>1. Adds(h, SUBSET R, k) /\ s \in SUBSET R /\ s # {} BY <1>4, <1>5
  <2> QED BY ONLY <2>1, AddsStep
<1>9. g[s \ {First(s)}] # k[s \ {First(s)}] BY <1>3, <1>6, <1>7, <1>8
<1>10. s \ {First(s)} \in SUBSET u /\ Cardinality(s \ {First(s)}) \in Nat BY <1>f
<1>11. m - 1 \in T BY <1>6, <1>9, <1>10
<1> QED BY <1>2, <1>11

\* On a subset the function of the whole set gives the subset's sum.
LEMMA AddsOn ==
  ASSUME NEW S, IsFiniteSet(S), NEW R, R \subseteq S, NEW f, NEW g, NEW k,
         Adds(f, SUBSET S, g), Adds(f, SUBSET R, k)
  PROVE  g[R] = k[R]
<1>1. \A x \in R : f[x] = f[x] OBVIOUS
<1> QED BY <1>1, AddsSame

\* Numbers add up to a number.
LEMMA AddsNat ==
  ASSUME NEW S, IsFiniteSet(S), NEW f, NEW g, Adds(f, SUBSET S, g),
         \A x \in S : f[x] \in Nat, NEW u \in SUBSET S
  PROVE  g[u] \in Nat
<1> DEFINE T == {n \in Nat : \E s \in SUBSET S : g[s] \notin Nat /\ Cardinality(s) = n}
<1> SUFFICES ASSUME g[u] \notin Nat PROVE FALSE OBVIOUS
<1>f. \A s \in SUBSET S : IsFiniteSet(s) /\ Cardinality(s) \in Nat
  BY FS_Subset, FS_CardinalityType
<1>1. T # {} /\ T \subseteq Nat BY <1>f
<1>2. PICK m \in T : \A y \in T : m <= y BY <1>1, LeastNat
<1>3. PICK s \in SUBSET S : g[s] \notin Nat /\ Cardinality(s) = m BY <1>2
<1>4. s # {}
  <2>1. g[{}] = 0 BY AddsEmpty
  <2>2. g[{}] \in Nat BY <2>1
  <2> QED BY <1>3, <2>2
<1>5. First(s) \in s /\ Cardinality(s \ {First(s)}) = m - 1 BY <1>f, <1>3, <1>4, FirstOf
<1>6. g[s] = f[First(s)] + g[s \ {First(s)}] BY <1>4, AddsStep
<1>7. f[First(s)] \in Nat BY <1>5
<1>8. g[s \ {First(s)}] \notin Nat BY <1>3, <1>6, <1>7
<1>9. s \ {First(s)} \in SUBSET S /\ Cardinality(s \ {First(s)}) \in Nat BY <1>f
<1>10. m - 1 \in T BY <1>5, <1>8, <1>9
<1> QED BY <1>2, <1>10

\* The order in which elements are taken does not matter.
LEMMA AddsAny ==
  ASSUME NEW S, IsFiniteSet(S), NEW f, NEW g, Adds(f, SUBSET S, g),
         \A x \in S : f[x] \in Nat, NEW u \in SUBSET S, NEW a \in u
  PROVE  g[u] = f[a] + g[u \ {a}]
<1> DEFINE T == {n \in Nat : \E s \in SUBSET S : (\E x \in s : g[s] # f[x] + g[s \ {x}]) /\ Cardinality(s) = n}
<1> SUFFICES ASSUME g[u] # f[a] + g[u \ {a}] PROVE FALSE OBVIOUS
<1>f. \A s \in SUBSET S : IsFiniteSet(s) /\ Cardinality(s) \in Nat
  BY FS_Subset, FS_CardinalityType
<1>1. T # {} /\ T \subseteq Nat BY <1>f
<1>2. PICK m \in T : \A y \in T : m <= y BY <1>1, LeastNat
<1>3. PICK s \in SUBSET S : (\E x \in s : g[s] # f[x] + g[s \ {x}]) /\ Cardinality(s) = m BY <1>2
<1>4. PICK x \in s : g[s] # f[x] + g[s \ {x}] BY <1>3
<1>5. PICK c : c = First(s) OBVIOUS
<1>6. c \in s /\ g[s] = f[c] + g[s \ {c}] 
  <2>1. s # {} /\ IsFiniteSet(s) BY <1>f
  <2>2. First(s) \in s BY <2>1, FirstOf
  <2>3. g[s] = f[First(s)] + g[s \ {First(s)}] BY <2>1, AddsStep
  <2> QED BY <1>5, <2>2, <2>3
<1>7. x # c BY <1>4, <1>6
<1>8. /\ s \ {c} \in SUBSET S /\ Cardinality(s \ {c}) = m - 1
      /\ s \ {x} \in SUBSET S /\ Cardinality(s \ {x}) = m - 1
      /\ m - 1 \in Nat
  <2>1. IsFiniteSet(s) /\ Cardinality(s) = m BY <1>3, <1>f
  <2>2. Cardinality(s \ {c}) = m - 1 BY <2>1, <1>6, FS_RemoveElement
  <2>3. Cardinality(s \ {x}) = m - 1 BY <2>1, <1>4, FS_RemoveElement
  <2>4. s \ {c} \in SUBSET S /\ s \ {x} \in SUBSET S OBVIOUS
  <2>5. Cardinality(s \ {c}) \in Nat BY <2>4, <1>f
  <2> QED BY <2>2, <2>3, <2>4, <2>5
<1>9. m - 1 \notin T BY <1>2, <1>8
<1>10. g[s \ {c}] = f[x] + g[(s \ {c}) \ {x}] BY <1>8, <1>9, <1>4, <1>7
<1>11. g[s \ {x}] = f[c] + g[(s \ {x}) \ {c}] BY <1>8, <1>9, <1>6, <1>7
<1>12. (s \ {c}) \ {x} = (s \ {x}) \ {c} OBVIOUS
<1>13. (s \ {x}) \ {c} \in SUBSET S OBVIOUS
<1>14. f[x] \in Nat /\ f[c] \in Nat /\ g[(s \ {x}) \ {c}] \in Nat
  <2>1. g[(s \ {x}) \ {c}] \in Nat BY <1>13, AddsNat
  <2> QED BY <1>6, <2>1
<1>15. PICK p, q, w : p = f[x] /\ q = f[c] /\ w = g[(s \ {x}) \ {c}] OBVIOUS
<1>16. p \in Nat /\ q \in Nat /\ w \in Nat BY <1>14, <1>15
<1>17. g[s \ {c}] = p + w /\ g[s \ {x}] = q + w BY <1>10, <1>11, <1>12, <1>15
<1>18. g[s] = q + (p + w) BY <1>6, <1>15, <1>17
<1>19. q + (p + w) = p + (q + w) BY <1>16
<1>20. g[s] = f[x] + g[s \ {x}] BY <1>15, <1>17, <1>18, <1>19
<1> QED BY <1>4, <1>20

-----------------------------------------------------------------------------
(* What is used of sums.                                                     *)

LEMMA SumEmpty ==
  ASSUME NEW f
  PROVE  SumOver(f, {}) = 0
<1>1. PICK g : Adds(f, SUBSET {}, g) /\ SumOver(f, {}) = g[{}] BY SumAdds, FS_EmptySet
<1> QED BY <1>1, AddsEmpty

\* Sums: of numbers,
LEMMA SumNat ==
  ASSUME NEW S, IsFiniteSet(S), NEW f, \A x \in S : f[x] \in Nat
  PROVE  SumOver(f, S) \in Nat
<1>1. PICK g : Adds(f, SUBSET S, g) /\ SumOver(f, S) = g[S] BY SumAdds
<1>2. g[S] \in Nat BY <1>1, AddsNat
<1> QED BY <1>1, <1>2

\* of equal numbers,
LEMMA SumSame ==
  ASSUME NEW S, IsFiniteSet(S), NEW f, NEW h, \A x \in S : f[x] = h[x]
  PROVE  SumOver(f, S) = SumOver(h, S)
<1>1. PICK g : Adds(f, SUBSET S, g) /\ SumOver(f, S) = g[S] BY SumAdds
<1>2. PICK k : Adds(h, SUBSET S, k) /\ SumOver(h, S) = k[S] BY SumAdds
<1>3. g[S] = k[S] BY <1>1, <1>2, AddsSame
<1> QED BY <1>1, <1>2, <1>3

\* without an element,
LEMMA SumTake ==
  ASSUME NEW S, IsFiniteSet(S), NEW f, \A x \in S : f[x] \in Nat, NEW a \in S
  PROVE  /\ SumOver(f, S) = f[a] + SumOver(f, S \ {a})
         /\ SumOver(f, S) \in Nat /\ SumOver(f, S \ {a}) \in Nat
<1>1. PICK g : Adds(f, SUBSET S, g) /\ SumOver(f, S) = g[S] BY SumAdds
<1>2. PICK R : R = S \ {a} OBVIOUS
<1>3. IsFiniteSet(R) /\ R \subseteq S BY <1>2, FS_RemoveElement
<1>4. PICK k : Adds(f, SUBSET R, k) /\ SumOver(f, R) = k[R] BY <1>3, SumAdds
<1>5. g[S] = f[a] + g[R] BY <1>1, <1>2, AddsAny
<1>6. g[R] = k[R] BY <1>1, <1>3, <1>4, AddsOn
<1>7. SumOver(f, S) \in Nat BY SumNat
<1>8. SumOver(f, R) \in Nat BY <1>3, SumNat
<1> QED BY <1>1, <1>2, <1>4, <1>5, <1>6, <1>7, <1>8

\* One element of the sum changes.
LEMMA SumChange ==
  ASSUME NEW S, IsFiniteSet(S), NEW f, NEW h, \A x \in S : f[x] \in Nat /\ h[x] \in Nat,
         NEW a \in S, \A x \in S \ {a} : h[x] = f[x]
  PROVE  SumOver(h, S) + f[a] = SumOver(f, S) + h[a]
<1>1. IsFiniteSet(S \ {a}) BY FS_RemoveElement
<1>2. PICK w : w = SumOver(f, S \ {a}) OBVIOUS
<1>3. SumOver(h, S \ {a}) = w BY <1>1, <1>2, SumSame
<1>4. SumOver(f, S) = f[a] + w /\ w \in Nat BY <1>2, SumTake
<1>5. SumOver(h, S) = h[a] + w
  <2>1. \A x \in S : h[x] \in Nat OBVIOUS
  <2>2. SumOver(h, S) = h[a] + SumOver(h, S \ {a}) BY <2>1, SumTake
  <2> QED BY <1>3, <2>2
<1>6. f[a] \in Nat /\ h[a] \in Nat OBVIOUS
<1> QED BY <1>4, <1>5, <1>6

\* with one more,
LEMMA SumPut ==
  ASSUME NEW S, IsFiniteSet(S), NEW f, \A x \in S : f[x] \in Nat, NEW a, f[a] \in Nat, a \notin S
  PROVE  IsFiniteSet(S \cup {a}) /\ SumOver(f, S \cup {a}) = f[a] + SumOver(f, S)
<1>1. IsFiniteSet(S \cup {a}) BY FS_AddElement
<1>2. (S \cup {a}) \ {a} = S OBVIOUS
<1>3. \A x \in S \cup {a} : f[x] \in Nat OBVIOUS
<1>4. SumOver(f, S \cup {a}) = f[a] + SumOver(f, (S \cup {a}) \ {a}) BY <1>1, <1>3, SumTake
<1> QED BY <1>1, <1>2, <1>4

\* over a part,
LEMMA SumPart ==
  ASSUME NEW S, IsFiniteSet(S), NEW f, \A x \in S : f[x] \in Nat, NEW R \in SUBSET S
  PROVE  SumOver(f, R) <= SumOver(f, S)
<1> DEFINE T == {n \in Nat : \E s \in SUBSET S : R \subseteq s /\ SumOver(f, s) < SumOver(f, R) /\ Cardinality(s) = n}
<1>f. \A s \in SUBSET S : IsFiniteSet(s) /\ Cardinality(s) \in Nat BY FS_Subset, FS_CardinalityType
<1>n. \A s \in SUBSET S : SumOver(f, s) \in Nat
  <2> SUFFICES ASSUME NEW s \in SUBSET S PROVE SumOver(f, s) \in Nat OBVIOUS
  <2> QED BY <1>f, SumNat
<1> SUFFICES ASSUME ~ (SumOver(f, R) <= SumOver(f, S)) PROVE FALSE OBVIOUS
<1>0. SumOver(f, S) < SumOver(f, R)
  <2>1. SumOver(f, S) \in Nat /\ SumOver(f, R) \in Nat BY <1>n
  <2> QED BY <2>1
<1>1. T # {} /\ T \subseteq Nat BY <1>0, <1>f
<1>2. PICK m \in T : \A y \in T : m <= y BY <1>1, LeastNat
<1>3. PICK s \in SUBSET S : R \subseteq s /\ SumOver(f, s) < SumOver(f, R) /\ Cardinality(s) = m BY <1>2
<1>4. s # R
  <2>1. SumOver(f, s) \in Nat BY <1>n
  <2> QED BY <1>3, <2>1
<1>5. PICK a \in s : a \notin R BY <1>3, <1>4
<1>6. SumOver(f, s) = f[a] + SumOver(f, s \ {a})
  <2>1. IsFiniteSet(s) /\ \A x \in s : f[x] \in Nat BY <1>f
  <2> QED BY <2>1, <1>5, SumTake
<1>7. s \ {a} \in SUBSET S /\ R \subseteq s \ {a} BY <1>3, <1>5
<1>8. SumOver(f, s \ {a}) < SumOver(f, R)
  <2>1. SumOver(f, s \ {a}) \in Nat /\ SumOver(f, R) \in Nat /\ f[a] \in Nat BY <1>7, <1>n
  <2> QED BY <2>1, <1>3, <1>6
<1>9. Cardinality(s \ {a}) = m - 1
  <2>1. IsFiniteSet(s) BY <1>f
  <2> QED BY <2>1, <1>3, <1>5, FS_RemoveElement
<1>10. Cardinality(s \ {a}) \in Nat BY <1>7, <1>f
<1>11. m - 1 \in T BY <1>7, <1>8, <1>9, <1>10
<1> QED BY <1>2, <1>11
\* of nothing.
LEMMA SumZero ==
  ASSUME NEW S, IsFiniteSet(S), NEW f, \A x \in S : f[x] = 0
  PROVE  SumOver(f, S) = 0
<1> DEFINE T == {n \in Nat : \E s \in SUBSET S : SumOver(f, s) # 0 /\ Cardinality(s) = n}
<1>1. \A s \in SUBSET S : IsFiniteSet(s) /\ Cardinality(s) \in Nat /\ \A x \in s : f[x] \in Nat
  BY FS_Subset, FS_CardinalityType
<1> SUFFICES ASSUME SumOver(f, S) # 0 PROVE FALSE OBVIOUS
<1>2. T # {} /\ T \subseteq Nat BY <1>1
<1>3. PICK n \in T : \A m \in T : n <= m BY <1>2, LeastNat
<1>4. PICK s \in SUBSET S : SumOver(f, s) # 0 /\ Cardinality(s) = n BY <1>3
<1>5. s # {} BY <1>4, SumEmpty
<1>6. PICK a : a \in s BY <1>5
<1>7. SumOver(f, s) = f[a] + SumOver(f, s \ {a}) /\ SumOver(f, s \ {a}) \in Nat BY <1>1, <1>6, SumTake
<1>8. SumOver(f, s \ {a}) # 0 BY <1>4, <1>6, <1>7
<1>9. Cardinality(s \ {a}) = n - 1 /\ n \in Nat BY <1>1, <1>4, <1>6, FS_RemoveElement
<1>10. Cardinality(s \ {a}) \in Nat /\ s \ {a} \in SUBSET S BY <1>1
<1>11. n - 1 \in T BY <1>8, <1>9, <1>10
<1> QED BY <1>3, <1>9, <1>11

LEMMA PairCardinality ==
  ASSUME NEW a, NEW b, a # b
  PROVE  IsFiniteSet({a, b}) /\ Cardinality({a, b}) = 2
<1>1. IsFiniteSet({a}) /\ Cardinality({a}) = 1 BY FS_Singleton
<1>2. IsFiniteSet({a} \cup {b}) /\ Cardinality({a} \cup {b}) = 2 BY <1>1, FS_AddElement
<1> QED BY <1>2

-----------------------------------------------------------------------------
ItemRow ==
  [from : Nonces \cup {NoBlob}, kind : {"blob", "multipart"}, blob : Blobs, tries : 0..MaxTries, leased : {0, 1}]

GrantRow ==
  [op : {"none", "upload", "create", "part", "complete", "abort", "delete"}, key : Objects \cup {NoBlob},
   blob : Blobs \cup {NoBlob}, old : Blobs \cup {NoBlob}, size : Sizes \cup {0}, bytes : Nat, used : Nat,
   step : {"none", "authorized", "held", "refused", "granted", "verified", "committed", "released"}, over : {0, 1}]

CleanerRow == [todo : SUBSET ItemRow, done : SUBSET ItemRow, failed : SUBSET ItemRow]

Early == {"none", "authorized", "held"}

\* What a grant does with the contents of b.
Starts(g, b) == g.op \in {"upload", "create"} /\ g.blob = b
Writes(g, b) == g.op \in {"upload", "complete"} /\ g.blob = b

Committed(gs, rs, b) == \E n \in rs : Writes(gs[n], b)
Sized(gs, b, z) == (b = NoBlob /\ z = 0) \/ \E n \in Nonces : Starts(gs[n], b) /\ gs[n].size = z

\* The upload of b was created, with its key, its size and what it replaces.
Created(gs, rs, key, b, old, size) ==
  \E n \in rs : gs[n].op = "create" /\ gs[n].blob = b /\ gs[n].key = key /\ gs[n].old = old /\ gs[n].size = size

GrantFits(gs, rs, g) ==
  /\ g # NoGrant => g.op # "none" /\ g.step # "none" /\ g.key \in Objects /\ g.blob \in Blobs
  /\ g.op \in {"upload", "complete"} => \E z \in Nat : Sized(gs, g.old, z) /\ g.bytes = Beyond(g.size, z)
  /\ g.op \in {"part", "complete", "abort"} => Created(gs, rs, g.key, g.blob, g.old, g.size)
  /\ g.op = "delete" => Committed(gs, rs, g.blob) /\ g.old = g.blob

\* A provider key is started by one grant, and once its contents are committed
\* that grant has its receipt.
StartedOnce(gs, rs) ==
  /\ \A n, m \in Nonces : \A b \in Blobs : Starts(gs[n], b) /\ Starts(gs[m], b) => n = m
  /\ \A n \in Nonces : \A b \in Blobs : Starts(gs[n], b) /\ Committed(gs, rs, b) => n \in rs

GrantsFit ==
  /\ grants \in [Nonces -> GrantRow]
  /\ \A n \in Nonces : GrantFits(grants, receipts, grants[n])
  /\ StartedOnce(grants, receipts)

ReservedFit ==
  /\ reserved \cap receipts = {}
  /\ \A n \in reserved \cup receipts : grants[n].step \notin Early

\* The object's contents were started for it.
Owned(gs, b, k) == \E n \in Nonces : Starts(gs[n], b) /\ gs[n].key = k

ObjectFits(gs, rs, k, o) ==
  /\ o.blob = NoBlob => o = NoObject
  /\ o.blob # NoBlob => Committed(gs, rs, o.blob) /\ Owned(gs, o.blob, k)
  /\ Sized(gs, o.blob, o.size)

ObjectsFit == \A k \in Objects : ObjectFits(grants, receipts, k, objects[k])

UploadFits(gs, rs, b, u) ==
  u # NoUpload => ~Committed(gs, rs, b) /\ Created(gs, rs, u.key, b, u.old, u.size)

UploadsFit == \A b \in Blobs : UploadFits(grants, receipts, b, uploads[b])

\* A blob that was replaced, or one whose grant was released.
ItemFits(gs, rs, held, stored, i) ==
  i.kind = "blob" =>
    /\ i.from \in Nonces \ held /\ gs[i.from].step \notin Early
    /\ \/ i.from \in rs /\ Committed(gs, rs, i.blob) /\ \A k \in Objects : stored[k].blob # i.blob
       \/ i.from \notin rs /\ Writes(gs[i.from], i.blob)

SameWork(i, j) == i.kind = "blob" /\ j.kind = "blob" /\ i.from = j.from

\* Items wait once; one that is being worked on has not been tried since.
ItemsOnce(queue) == \A i, j \in queue : SameWork(i, j) => i = j
Tried(i, queue) == \A j \in queue : SameWork(i, j) => i.tries <= j.tries

Worked(c) == c.todo \cup c.done \cup c.failed

ItemsFit ==
  /\ cleaners \in [Cleaners -> CleanerRow]
  /\ \A i \in cleanup : ItemFits(grants, receipts, reserved, objects, i)
  /\ ItemsOnce(cleanup)
  /\ \A c \in Cleaners : \A i \in Worked(cleaners[c]) :
       ItemFits(grants, receipts, reserved, objects, i) /\ i.leased = 1 /\ Tried(i, cleanup)

Finished(cs, j) == \E c \in Cleaners : j \in cs[c].done
Queued(queue, cs, b) == \E j \in queue : j.kind = "blob" /\ j.blob = b /\ ~Finished(cs, j)
Awaited(gs, held, b) == \E n \in held : Writes(gs[n], b)
Pending(gs, held, queue, cs, b) == Awaited(gs, held, b) \/ Queued(queue, cs, b)
Shown(stored, b) == \E k \in Objects : stored[k].blob = b

BlobsTracked ==
  \A b \in blobs \ strays : Shown(objects, b) \/ Pending(grants, reserved, cleanup, cleaners, b)

DeletesFit ==
  \A n \in Nonces :
    grants[n].op = "delete" /\ grants[n].step = "verified" /\ grants[n].blob \in blobs \ strays =>
      Pending(grants, reserved, cleanup, cleaners, grants[n].blob)

Twice(gs, b) ==
  \E n, m \in Nonces : /\ n # m /\ gs[n].op = "complete" /\ gs[m].op = "complete"
                       /\ gs[n].blob = b /\ gs[m].blob = b

Kept(gs, there, b) == b \in there \/ Twice(gs, b)

ContentsKept ==
  /\ \A k \in Objects : Kept(grants, blobs \cup erased \cup {NoBlob}, objects[k].blob)
  /\ \A n \in reserved : grants[n].step = "verified" /\ grants[n].op \in {"upload", "complete"} =>
       Kept(grants, blobs \cup erased \cup {NoBlob}, grants[n].blob)

StorageInvariant ==
  /\ StorageTypeOK /\ GrantsFit /\ ReservedFit /\ ObjectsFit /\ UploadsFit
  /\ ItemsFit /\ BlobsTracked /\ DeletesFit /\ ContentsKept /\ StoredWithinQuota

-----------------------------------------------------------------------------
(* Sums of the model.                                                        *)

SizesIn(o) == [k \in Objects |-> o[k].size]
BytesIn(g) == [n \in Nonces |-> g[n].bytes]

\* What the objects take is such a sum,
LEMMA SizeSumIs ==
  ASSUME ObjectStorageAssumption, NEW o
  PROVE  SizeSum(o) = SumOver(SizesIn(o), Objects)
<1>f. IsFiniteSet(Objects) BY DEF ObjectStorageAssumption
<1> DEFINE A(a) == a = [s \in SUBSET Objects |-> IF s = {} THEN 0 ELSE o[First(s)].size + a[s \ {First(s)}]]
<1>1. \E a : SizeSum(o) = a[Objects] /\ ((\E h : A(h)) => A(a))
  BY DEF SizeSum, MapThenSumSet, MapThenFoldSet, First
<1>2. \A s \in SUBSET Objects : s # {} => o[First(s)].size = SizesIn(o)[First(s)]
  BY DEF First, SizesIn
<1>3. \A a : A(a) <=> Adds(SizesIn(o), SUBSET Objects, a)
  BY <1>2 DEF Adds
<1>4. PICK a : SizeSum(o) = a[Objects] /\ Adds(SizesIn(o), SUBSET Objects, a)
  BY <1>1, <1>3, <1>f, AddsExists
<1>5. PICK h : SumOver(SizesIn(o), Objects) = h[Objects] /\ Adds(SizesIn(o), SUBSET Objects, h)
  BY <1>f, SumAdds
<1> QED BY <1>4, <1>5, <1>f, AddsOn

\* and what the grants add.
LEMMA ByteSumIs ==
  ASSUME ObjectStorageAssumption, NEW g, NEW ns \in SUBSET Nonces
  PROVE  ByteSum(g, ns) = SumOver(BytesIn(g), ns)
<1>f. IsFiniteSet(ns) BY FS_Subset DEF ObjectStorageAssumption
<1> DEFINE A(a) == a = [s \in SUBSET ns |-> IF s = {} THEN 0 ELSE g[First(s)].bytes + a[s \ {First(s)}]]
<1>1. \E a : ByteSum(g, ns) = a[ns] /\ ((\E h : A(h)) => A(a))
  BY DEF ByteSum, MapThenSumSet, MapThenFoldSet, First
<1>2. \A s \in SUBSET ns : s # {} => g[First(s)].bytes = BytesIn(g)[First(s)]
  BY DEF First, BytesIn
<1>3. \A a : A(a) <=> Adds(BytesIn(g), SUBSET ns, a)
  BY <1>2 DEF Adds
<1>4. PICK a : ByteSum(g, ns) = a[ns] /\ Adds(BytesIn(g), SUBSET ns, a)
  BY <1>1, <1>3, <1>f, AddsExists
<1>5. PICK h : SumOver(BytesIn(g), ns) = h[ns] /\ Adds(BytesIn(g), SUBSET ns, h)
  BY <1>f, SumAdds
<1> QED BY <1>4, <1>5, <1>f, AddsOn

\* What objects store is a number, and changes with one of them.
LEMMA SizesAdd ==
  ASSUME ObjectStorageAssumption, NEW o, \A k \in Objects : o[k].size \in Nat
  PROVE  /\ SizeSum(o) \in Nat
         /\ \A p : \A k \in Objects :
              (\A q \in Objects : p[q].size \in Nat) /\ (\A q \in Objects \ {k} : p[q] = o[q])
                => SizeSum(p) + o[k].size = SizeSum(o) + p[k].size
<1>f. IsFiniteSet(Objects) BY DEF ObjectStorageAssumption
<1>1. \A k \in Objects : SizesIn(o)[k] = o[k].size /\ SizesIn(o)[k] \in Nat BY DEF SizesIn
<1>2. SizeSum(o) \in Nat BY <1>1, <1>f, SizeSumIs, SumNat
<1>3. ASSUME NEW p, NEW k \in Objects, \A q \in Objects : p[q].size \in Nat, \A q \in Objects \ {k} : p[q] = o[q]
      PROVE  SizeSum(p) + o[k].size = SizeSum(o) + p[k].size
  <2>1. \A q \in Objects : SizesIn(p)[q] = p[q].size /\ SizesIn(p)[q] \in Nat BY <1>3 DEF SizesIn
  <2>2. \A q \in Objects \ {k} : SizesIn(p)[q] = SizesIn(o)[q] BY <1>1, <1>3, <2>1
  <2>3. SumOver(SizesIn(p), Objects) + SizesIn(o)[k] = SumOver(SizesIn(o), Objects) + SizesIn(p)[k]
    BY <1>f, <1>1, <2>1, <2>2, SumChange
  <2> QED BY <2>3, <2>1, <1>1, SizeSumIs
<1> QED BY <1>2, <1>3

\* How the bytes of grants change with the set of grants.
LEMMA BytesAdd ==
  ASSUME ObjectStorageAssumption, NEW g, \A n \in Nonces : g[n].bytes \in Nat, NEW ns \in SUBSET Nonces
  PROVE  /\ ByteSum(g, ns) \in Nat
         /\ \A ms \in SUBSET ns : ByteSum(g, ms) <= ByteSum(g, ns)
         /\ \A n \in ns : ByteSum(g, ns) = g[n].bytes + ByteSum(g, ns \ {n})
         /\ \A n \in Nonces \ ns : ByteSum(g, ns \cup {n}) = g[n].bytes + ByteSum(g, ns)
         /\ \A h : (\A n \in ns : h[n].bytes = g[n].bytes) => ByteSum(h, ns) = ByteSum(g, ns)
<1>f. IsFiniteSet(ns) BY FS_Subset DEF ObjectStorageAssumption
<1>1. \A n \in Nonces : BytesIn(g)[n] = g[n].bytes /\ BytesIn(g)[n] \in Nat BY DEF BytesIn
<1>s. ByteSum(g, ns) = SumOver(BytesIn(g), ns) BY ByteSumIs
<1>2. ByteSum(g, ns) \in Nat
  <2>1. \A n \in ns : BytesIn(g)[n] \in Nat BY <1>1
  <2> QED BY <2>1, <1>f, <1>s, SumNat
<1>3. ASSUME NEW ms \in SUBSET ns PROVE ByteSum(g, ms) <= ByteSum(g, ns)
  <2>1. \A n \in ns : BytesIn(g)[n] \in Nat BY <1>1
  <2>2. SumOver(BytesIn(g), ms) <= SumOver(BytesIn(g), ns) BY <2>1, <1>f, SumPart
  <2>3. ByteSum(g, ms) = SumOver(BytesIn(g), ms) BY ByteSumIs
  <2> QED BY <2>2, <2>3, <1>s
<1>4. ASSUME NEW n \in ns PROVE ByteSum(g, ns) = g[n].bytes + ByteSum(g, ns \ {n})
  <2>1. \A x \in ns : BytesIn(g)[x] \in Nat BY <1>1
  <2>2. SumOver(BytesIn(g), ns) = BytesIn(g)[n] + SumOver(BytesIn(g), ns \ {n}) BY <2>1, <1>f, SumTake
  <2>3. ns \ {n} \in SUBSET Nonces OBVIOUS
  <2>4. ByteSum(g, ns \ {n}) = SumOver(BytesIn(g), ns \ {n}) BY <2>3, ByteSumIs
  <2> QED BY <2>2, <2>4, <1>s, <1>1
<1>5. ASSUME NEW n \in Nonces \ ns PROVE ByteSum(g, ns \cup {n}) = g[n].bytes + ByteSum(g, ns)
  <2>1. \A x \in ns : BytesIn(g)[x] \in Nat BY <1>1
  <2>2. BytesIn(g)[n] \in Nat /\ n \notin ns BY <1>1
  <2>3. SumOver(BytesIn(g), ns \cup {n}) = BytesIn(g)[n] + SumOver(BytesIn(g), ns) BY <2>1, <2>2, <1>f, SumPut
  <2>4. ns \cup {n} \in SUBSET Nonces OBVIOUS
  <2>5. ByteSum(g, ns \cup {n}) = SumOver(BytesIn(g), ns \cup {n}) BY <2>4, ByteSumIs
  <2> QED BY <2>3, <2>5, <1>s, <1>1
<1>6. ASSUME NEW h, \A n \in ns : h[n].bytes = g[n].bytes PROVE ByteSum(h, ns) = ByteSum(g, ns)
  <2>1. \A n \in ns : BytesIn(h)[n] = BytesIn(g)[n] BY <1>6 DEF BytesIn
  <2>2. SumOver(BytesIn(h), ns) = SumOver(BytesIn(g), ns) BY <2>1, <1>f, SumSame
  <2>3. ByteSum(h, ns) = SumOver(BytesIn(h), ns) BY ByteSumIs
  <2> QED BY <2>2, <2>3, <1>s
<1> QED BY <1>2, <1>3, <1>4, <1>5, <1>6

-----------------------------------------------------------------------------
(* A grant goes on: what it is for stays.                                    *)

GoesOn(g, h) ==
  /\ h \in GrantRow
  /\ h.op = g.op /\ h.key = g.key /\ h.blob = g.blob /\ h.old = g.old /\ h.size = g.size /\ h.bytes = g.bytes
  /\ g.step \notin Early => h.step \notin Early
  /\ g.step # "none" => h.step # "none"
  /\ g.over = 1 => h.over = 1
  /\ g = NoGrant => h = NoGrant

Moved == grants' \in [Nonces -> GrantRow] /\ \A n \in Nonces : GoesOn(grants[n], grants'[n])

\* A grant that only moves to its next step.
LEMMA StepField ==
  ASSUME NEW g \in GrantRow, NEW s \in {"refused", "held", "granted", "verified", "committed", "released"}, NEW h,
         h = [g EXCEPT !.step = s], g.step # "none", g.step \notin Early => s \notin Early
  PROVE  GoesOn(g, h) /\ h.step = s /\ h.over = g.over
<1>1. h \in GrantRow BY DEF GrantRow
<1>2. /\ h.op = g.op /\ h.key = g.key /\ h.blob = g.blob /\ h.old = g.old /\ h.size = g.size /\ h.bytes = g.bytes
      /\ h.over = g.over /\ h.step = s
  BY DEF GrantRow
<1>3. g # NoGrant BY DEF NoGrant
<1>4. s # "none" OBVIOUS
<1> QED BY <1>1, <1>2, <1>3, <1>4 DEF GoesOn

LEMMA StaysSame == ASSUME NEW g \in GrantRow PROVE GoesOn(g, g)
BY DEF GoesOn

\* One grant takes a step.
LEMMA StepMoves ==
  ASSUME grants \in [Nonces -> GrantRow], NEW n \in Nonces,
         NEW s \in {"refused", "held", "granted", "verified", "committed", "released"}, Step(n, s),
         grants[n].step # "none", grants[n].step \notin Early => s \notin Early
  PROVE  /\ Moved /\ grants'[n].step = s /\ grants'[n].over = grants[n].over
         /\ \A m \in Nonces : m # n => grants'[m] = grants[m]
<1>1. PICK h : h = [grants[n] EXCEPT !.step = s] OBVIOUS
<1>2. grants' = [grants EXCEPT ![n] = h] BY <1>1 DEF Step
<1>3. GoesOn(grants[n], h) /\ h.step = s /\ h.over = grants[n].over BY <1>1, StepField
<1>4. h \in GrantRow BY <1>3 DEF GoesOn
<1>5. grants' \in [Nonces -> GrantRow] BY <1>2, <1>4
<1>6. grants'[n] = h /\ \A m \in Nonces : m # n => grants'[m] = grants[m] BY <1>2
<1>7. \A m \in Nonces : GoesOn(grants[m], grants'[m]) BY <1>3, <1>6, StaysSame
<1> QED BY <1>3, <1>5, <1>6, <1>7 DEF Moved

LEMMA NoneMoves ==
  ASSUME grants \in [Nonces -> GrantRow], grants' = grants
  PROVE  Moved
BY StaysSame DEF Moved

\* What is said of grants as such is said of them still.
LEMMA MovedSame ==
  ASSUME Moved
  PROVE  /\ \A n \in Nonces : \A b : Starts(grants'[n], b) <=> Starts(grants[n], b)
         /\ \A n \in Nonces : \A b : Writes(grants'[n], b) <=> Writes(grants[n], b)
         /\ \A b, z : Sized(grants', b, z) <=> Sized(grants, b, z)
         /\ \A b, k : Owned(grants', b, k) <=> Owned(grants, b, k)
         /\ \A b : Twice(grants', b) <=> Twice(grants, b)
<1>1. \A n \in Nonces : grants'[n].op = grants[n].op /\ grants'[n].blob = grants[n].blob /\ grants'[n].size = grants[n].size
                        /\ grants'[n].key = grants[n].key
  BY DEF Moved, GoesOn
<1>2. \A n \in Nonces : \A b : Starts(grants'[n], b) <=> Starts(grants[n], b) BY <1>1 DEF Starts
<1>3. \A n \in Nonces : \A b : Writes(grants'[n], b) <=> Writes(grants[n], b) BY <1>1 DEF Writes
<1>4. \A b, z : Sized(grants', b, z) <=> Sized(grants, b, z) BY <1>1, <1>2 DEF Sized
<1>5. \A b : Twice(grants', b) <=> Twice(grants, b) BY <1>1 DEF Twice
<1>6. \A b, k : Owned(grants', b, k) <=> Owned(grants, b, k) BY <1>1, <1>2 DEF Owned
<1> QED BY <1>2, <1>3, <1>4, <1>5, <1>6

\* What was committed or created stays so when grants move and receipts are added.
LEMMA MovedReceipts ==
  ASSUME Moved, NEW rs \in SUBSET Nonces, NEW ss \in SUBSET Nonces, rs \subseteq ss
  PROVE  /\ \A b : Committed(grants, rs, b) => Committed(grants', ss, b)
         /\ \A b : Committed(grants', rs, b) <=> Committed(grants, rs, b)
         /\ \A key, b, old, size : Created(grants, rs, key, b, old, size) => Created(grants', ss, key, b, old, size)
<1>1. \A n \in Nonces : \A b : Writes(grants'[n], b) <=> Writes(grants[n], b) BY MovedSame
<1>2. \A n \in Nonces : /\ grants'[n].op = grants[n].op /\ grants'[n].blob = grants[n].blob
                        /\ grants'[n].size = grants[n].size /\ grants'[n].key = grants[n].key
                        /\ grants'[n].old = grants[n].old
  BY DEF Moved, GoesOn
<1>3. \A b : Committed(grants, rs, b) => Committed(grants', ss, b) BY <1>1 DEF Committed
<1>4. \A b : Committed(grants', rs, b) <=> Committed(grants, rs, b) BY <1>1 DEF Committed
<1>5. \A key, b, old, size : Created(grants, rs, key, b, old, size) => Created(grants', ss, key, b, old, size)
  BY <1>2 DEF Created
<1> QED BY <1>3, <1>4, <1>5

\* A grant that goes on fits as before, when receipts are only added.
LEMMA FitsOn ==
  ASSUME Moved, NEW rs \in SUBSET Nonces, NEW ss \in SUBSET Nonces, rs \subseteq ss,
         NEW n \in Nonces, GrantFits(grants, rs, grants[n])
  PROVE  GrantFits(grants', ss, grants'[n])
<1> DEFINE g == grants[n]
           h == grants'[n]
<1>1. GoesOn(g, h) BY DEF Moved
<1>2. h # NoGrant => g # NoGrant BY <1>1 DEF GoesOn
<1>e. h.op = g.op /\ h.key = g.key /\ h.blob = g.blob /\ h.old = g.old /\ h.size = g.size /\ h.bytes = g.bytes
  BY <1>1 DEF GoesOn
<1>g. GrantFits(grants, rs, g) OBVIOUS
<1> HIDE DEF g, h
<1>3. h # NoGrant => h.op # "none" /\ h.step # "none" /\ h.key \in Objects /\ h.blob \in Blobs
  BY <1>1, <1>2, <1>g DEF GoesOn, GrantFits
<1>4. h.op \in {"upload", "complete"} => \E z \in Nat : Sized(grants', h.old, z) /\ h.bytes = Beyond(h.size, z)
  BY <1>e, <1>g, MovedSame DEF GrantFits
<1>5. h.op \in {"part", "complete", "abort"} => Created(grants', ss, h.key, h.blob, h.old, h.size)
  BY <1>e, <1>g, MovedReceipts DEF GrantFits
<1>6. h.op = "delete" => Committed(grants', ss, h.blob) /\ h.old = h.blob
  BY <1>e, <1>g, MovedReceipts DEF GrantFits
<1> QED BY <1>3, <1>4, <1>5, <1>6 DEF GrantFits, h

\* Objects and grants stay, uploads stay or end.
LEMMA CatalogStays ==
  ASSUME StorageTypeOK, GrantsFit, ObjectsFit, UploadsFit, Moved, receipts' = receipts, objects' = objects,
         \A b \in Blobs : \/ uploads'[b] = NoUpload
                          \/ /\ uploads[b] # NoUpload /\ uploads'[b].key = uploads[b].key
                             /\ uploads'[b].old = uploads[b].old /\ uploads'[b].size = uploads[b].size
  PROVE  GrantsFit' /\ ObjectsFit' /\ UploadsFit'
<1>0. receipts \in SUBSET Nonces BY DEF StorageTypeOK
<1>c. \A b : Committed(grants', receipts, b) <=> Committed(grants, receipts, b) BY <1>0, MovedReceipts
<1>1. grants' \in [Nonces -> GrantRow] BY DEF Moved
<1>2. \A n \in Nonces : GrantFits(grants', receipts, grants'[n])
  <2> SUFFICES ASSUME NEW n \in Nonces PROVE GrantFits(grants', receipts, grants'[n]) OBVIOUS
  <2>1. GrantFits(grants, receipts, grants[n]) BY DEF GrantsFit
  <2> QED BY <2>1, <1>0, FitsOn
<1>3. StartedOnce(grants', receipts)
  <2>1. \A n \in Nonces : \A b : Starts(grants'[n], b) <=> Starts(grants[n], b) BY MovedSame
  <2> QED BY <2>1, <1>c DEF GrantsFit, StartedOnce
<1>4. GrantsFit' BY <1>1, <1>2, <1>3 DEF GrantsFit
<1>5. ObjectsFit'
  <2> SUFFICES ASSUME NEW k \in Objects PROVE ObjectFits(grants', receipts, k, objects[k]) BY DEF ObjectsFit
  <2>1. ObjectFits(grants, receipts, k, objects[k]) BY DEF ObjectsFit
  <2> QED BY <2>1, <1>c, MovedSame DEF ObjectFits
<1>6. UploadsFit'
  <2> SUFFICES ASSUME NEW b \in Blobs PROVE UploadFits(grants', receipts, b, uploads'[b]) BY DEF UploadsFit
  <2> SUFFICES ASSUME uploads'[b] # NoUpload PROVE UploadFits(grants', receipts, b, uploads'[b]) BY DEF UploadFits
  <2>1. UploadFits(grants, receipts, b, uploads[b]) BY DEF UploadsFit
  <2>2. ~Committed(grants, receipts, b) /\ Created(grants, receipts, uploads[b].key, b, uploads[b].old, uploads[b].size)
    BY <2>1 DEF UploadFits
  <2>3. Created(grants', receipts, uploads[b].key, b, uploads[b].old, uploads[b].size) BY <2>2, <1>0, MovedReceipts
  <2> QED BY <2>2, <2>3, <1>c DEF UploadFits
<1> QED BY <1>4, <1>5, <1>6

\* A step that leaves the items of a cleanup as they are.
Carries(rs, ss, held, holds, stored, stores) ==
  /\ \A m \in Nonces \ held : grants[m].step \notin Early => m \notin holds /\ (m \in ss => m \in rs)
  /\ \A k \in Objects : Committed(grants, rs, stores[k].blob) => Shown(stored, stores[k].blob)

\* A cleanup item stays fit when grants move and receipts are added.
LEMMA ItemOn ==
  ASSUME Moved, NEW rs \in SUBSET Nonces, NEW ss \in SUBSET Nonces, rs \subseteq ss, NEW held, NEW holds,
         NEW stored, NEW stores, Carries(rs, ss, held, holds, stored, stores), NEW i,
         ItemFits(grants, rs, held, stored, i)
  PROVE  ItemFits(grants', ss, holds, stores, i)
<1> SUFFICES ASSUME i.kind = "blob" PROVE ItemFits(grants', ss, holds, stores, i) BY DEF ItemFits
<1> PICK n, b : n = i.from /\ b = i.blob OBVIOUS
<1>1. n \in Nonces \ held /\ grants[n].step \notin Early BY DEF ItemFits
<1>2. n \in Nonces \ holds /\ grants'[n].step \notin Early /\ (n \in ss => n \in rs) BY <1>1 DEF Carries, Moved, GoesOn
<1>3. CASE n \in rs /\ Committed(grants, rs, b) /\ \A k \in Objects : stored[k].blob # b
  <2>1. Committed(grants', ss, b) /\ n \in ss BY <1>3, MovedReceipts
  <2>2. \A k \in Objects : stores[k].blob # b BY <1>3 DEF Carries, Shown
  <2> QED BY <1>2, <2>1, <2>2 DEF ItemFits
<1>4. CASE n \notin rs /\ Writes(grants[n], b)
  <2>1. Writes(grants'[n], b) BY <1>4, <1>1, MovedSame
  <2> QED BY <1>2, <1>4, <2>1 DEF ItemFits
<1> QED BY <1>3, <1>4 DEF ItemFits

CarriesNow == Carries(receipts, receipts', reserved, reserved', objects, objects')

\* All items of the queue and of the cleanups under way.
LEMMA ItemsOn ==
  ASSUME StorageTypeOK, ItemsFit, Moved, receipts \subseteq receipts', receipts' \subseteq Nonces, CarriesNow
  PROVE  /\ \A i \in cleanup : ItemFits(grants', receipts', reserved', objects', i)
         /\ \A c \in Cleaners : \A i \in Worked(cleaners[c]) : ItemFits(grants', receipts', reserved', objects', i)
<1>0. receipts \in SUBSET Nonces /\ receipts' \in SUBSET Nonces BY DEF StorageTypeOK
<1>1. ASSUME NEW i, ItemFits(grants, receipts, reserved, objects, i)
      PROVE  ItemFits(grants', receipts', reserved', objects', i)
  BY <1>0, <1>1, ItemOn DEF CarriesNow
<1> QED BY <1>1 DEF ItemsFit

LEMMA ItemsStay ==
  ASSUME StorageTypeOK, ItemsFit, Moved, receipts \subseteq receipts', receipts' \subseteq Nonces, CarriesNow,
         cleanup' = cleanup, cleaners' = cleaners
  PROVE  ItemsFit'
BY ItemsOn DEF ItemsFit

LEMMA CarriesSame ==
  ASSUME receipts' = receipts, reserved' \subseteq reserved, objects' = objects
  PROVE  CarriesNow
BY DEF CarriesNow, Carries, Shown

\* What is pending stays so while nothing is taken away.
LEMMA PendingOn ==
  ASSUME Moved, reserved \subseteq Nonces, reserved \subseteq reserved', NEW b,
         cleanup \subseteq cleanup', \A j \in cleanup : Finished(cleaners', j) => Finished(cleaners, j),
         Pending(grants, reserved, cleanup, cleaners, b)
  PROVE  Pending(grants', reserved', cleanup', cleaners', b)
<1>1. Awaited(grants, reserved, b) => Awaited(grants', reserved', b) BY MovedSame DEF Awaited
<1>2. Queued(cleanup, cleaners, b) => Queued(cleanup', cleaners', b) BY DEF Queued
<1> QED BY <1>1, <1>2 DEF Pending

LEMMA SizesInNat ==
  ASSUME ObjectStorageAssumption, NEW z, z \in Sizes \cup {0}
  PROVE  z \in Nat
<1>1. Sizes \subseteq Nat BY DEF ObjectStorageAssumption
<1>2. CASE z \in Sizes BY <1>1, <1>2
<1>3. CASE z = 0 BY <1>3
<1> QED BY <1>2, <1>3

LEMMA SizesAreNumbers ==
  ASSUME ObjectStorageAssumption, StorageTypeOK, NEW k \in Objects
  PROVE  objects[k].size \in Nat
<1> PICK o, A, B : o = objects[k] /\ A = Blobs \cup {NoBlob} /\ B = Sizes \cup {0} OBVIOUS
<1>1. o \in [blob : A, size : B] BY DEF StorageTypeOK
<1>2. objects[k].size \in Sizes \cup {0} BY <1>1
<1> QED BY <1>2, SizesInNat

\* With the same objects and no new reservation the quota holds.
LEMMA QuotaStays ==
  ASSUME ObjectStorageAssumption, StorageTypeOK, GrantsFit, Moved, StoredWithinQuota, objects' = objects,
         Live(reserved)' \subseteq Live(reserved)
  PROVE  StoredWithinQuota'
<1>1. \A n \in Nonces : grants[n].bytes \in Nat /\ grants'[n].bytes = grants[n].bytes
  BY DEF GrantsFit, GrantRow, Moved, GoesOn
<1>2. Live(reserved) \in SUBSET Nonces BY DEF Live, StorageTypeOK
<1>3. PICK ms : ms = Live(reserved)' OBVIOUS
<1>4. ms \in SUBSET Live(reserved) /\ ms \in SUBSET Nonces BY <1>2, <1>3
<1>5. ByteSum(grants, ms) <= ByteSum(grants, Live(reserved)) /\ ByteSum(grants, Live(reserved)) \in Nat
  BY <1>1, <1>2, <1>4, BytesAdd
<1>6. ByteSum(grants, ms) \in Nat /\ ByteSum(grants', ms) = ByteSum(grants, ms)
  BY <1>1, <1>4, BytesAdd
<1>7. Used \in Nat
  <2>1. \A k \in Objects : objects[k].size \in Nat BY SizesAreNumbers
  <2> QED BY <2>1, SizesAdd DEF Used
<1>8. Used' = Used BY DEF Used
<1>9. Used + ByteSum(grants, Live(reserved)) <= Quota BY DEF StoredWithinQuota, Bytes
<1>10. Quota \in Nat BY DEF ObjectStorageAssumption
<1>11. Used + ByteSum(grants', ms) <= Quota BY <1>5, <1>6, <1>7, <1>9, <1>10
<1> QED BY <1>3, <1>8, <1>11 DEF StoredWithinQuota, Bytes

-----------------------------------------------------------------------------
(* Steps of a grant alone.                                                   *)

\* What is verified has been asked for at the provider.
NewlyVerified ==
  \A n \in Nonces : grants'[n].step = "verified" /\ grants[n].step # "verified" =>
    /\ grants[n].op \in {"upload", "complete"} => grants[n].blob \in blobs
    /\ grants[n].op = "delete" => grants[n].blob \notin blobs

UploadsStay ==
  \A b \in Blobs : \/ uploads'[b] = NoUpload
                   \/ /\ uploads[b] # NoUpload /\ uploads'[b].key = uploads[b].key
                      /\ uploads'[b].old = uploads[b].old /\ uploads'[b].size = uploads[b].size

\* Blobs are tracked while nothing that is pending is dropped.
LEMMA TrackedOn ==
  ASSUME BlobsTracked, DeletesFit, Moved, NewlyVerified, objects' = objects,
         \A b \in blobs' \ strays' : Pending(grants, reserved, cleanup, cleaners, b)
                                    => Pending(grants', reserved', cleanup', cleaners', b),
         \A b \in blobs' \ strays' : b \in blobs \ strays \/ Pending(grants', reserved', cleanup', cleaners', b)
  PROVE  BlobsTracked' /\ DeletesFit'
<1>1. BlobsTracked' BY DEF BlobsTracked, Shown
<1>2. DeletesFit'
  <2> SUFFICES ASSUME NEW n \in Nonces, grants'[n].op = "delete", grants'[n].step = "verified",
                      grants'[n].blob \in blobs' \ strays', grants'[n].blob \in blobs \ strays
               PROVE  Pending(grants', reserved', cleanup', cleaners', grants'[n].blob)
    BY DEF DeletesFit
  <2>1. grants[n].op = "delete" /\ grants'[n].blob = grants[n].blob BY DEF Moved, GoesOn
  <2>2. grants[n].step = "verified" BY <2>1 DEF NewlyVerified
  <2>3. Pending(grants, reserved, cleanup, cleaners, grants[n].blob) BY <2>1, <2>2 DEF DeletesFit
  <2> QED BY <2>1, <2>3
<1> QED BY <1>1, <1>2

\* Contents are kept while the provider loses nothing.
LEMMA KeptOn ==
  ASSUME ContentsKept, reserved \subseteq Nonces, Moved, NewlyVerified, objects' = objects,
         blobs \cup erased \subseteq blobs' \cup erased',
         \A n \in reserved' : n \in reserved \/ grants'[n].step # "verified"
  PROVE  ContentsKept'
<1>1. \A b : Kept(grants, blobs \cup erased \cup {NoBlob}, b) => Kept(grants', blobs' \cup erased' \cup {NoBlob}, b)
  BY MovedSame DEF Kept
<1>2. \A k \in Objects : Kept(grants', blobs' \cup erased' \cup {NoBlob}, objects'[k].blob)
  BY <1>1 DEF ContentsKept
<1>3. ASSUME NEW n \in reserved', grants'[n].step = "verified", grants'[n].op \in {"upload", "complete"}
      PROVE  Kept(grants', blobs' \cup erased' \cup {NoBlob}, grants'[n].blob)
  <2>1. n \in reserved BY <1>3
  <2>2. n \in Nonces /\ grants[n].op \in {"upload", "complete"} /\ grants'[n].blob = grants[n].blob
    BY <2>1, <1>3 DEF Moved, GoesOn
  <2>3. CASE grants[n].step = "verified" BY <2>1, <2>2, <2>3, <1>1 DEF ContentsKept
  <2>4. CASE grants[n].step # "verified" BY <2>2, <2>4, <1>3 DEF NewlyVerified, Kept
  <2> QED BY <2>3, <2>4
<1> QED BY <1>2, <1>3 DEF ContentsKept

\* A step that leaves objects and receipts as they are and drops nothing.
SafeStep ==
  /\ Moved /\ NewlyVerified /\ UploadsStay /\ objects' = objects /\ receipts' = receipts
  /\ \A b : Pending(grants, reserved, cleanup, cleaners, b) => Pending(grants', reserved', cleanup', cleaners', b)
  /\ \A b \in blobs' \ strays' : b \in blobs \ strays \/ Pending(grants', reserved', cleanup', cleaners', b)
  /\ blobs \cup erased \subseteq blobs' \cup erased'
  /\ \A n \in reserved' : n \in reserved \/ grants'[n].step # "verified"

\* A step whose effect on objects, blobs and queue is safe keeps the invariant.
LEMMA SafeStepKeeps ==
  ASSUME StorageInvariant, SafeStep, StorageTypeOK', ReservedFit', ItemsFit', StoredWithinQuota'
  PROVE  StorageInvariant'
<1>1. GrantsFit' /\ ObjectsFit' /\ UploadsFit' BY CatalogStays DEF StorageInvariant, SafeStep, UploadsStay
<1>2. BlobsTracked' /\ DeletesFit' BY TrackedOn DEF StorageInvariant, SafeStep
<1>3. reserved \subseteq Nonces BY DEF StorageInvariant, StorageTypeOK
<1>4. ContentsKept' BY <1>3, KeptOn DEF StorageInvariant, SafeStep
<1> QED BY <1>1, <1>2, <1>4 DEF StorageInvariant

\* The same reservations are live, or fewer.
LEMMA FewerLive ==
  ASSUME ObjectStorageAssumption, StorageInvariant, Moved, objects' = objects, reserved' \subseteq reserved
  PROVE  StoredWithinQuota'
<1>1. \A n \in reserved : grants'[n].over = 0 => grants[n].over = 0
  <2> SUFFICES ASSUME NEW n \in reserved, grants'[n].over = 0 PROVE grants[n].over = 0 OBVIOUS
  <2>1. n \in Nonces /\ grants[n] \in GrantRow BY DEF StorageInvariant, StorageTypeOK, GrantsFit
  <2>2. grants[n].over \in {0, 1} BY <2>1 DEF GrantRow
  <2> QED BY <2>1, <2>2 DEF Moved, GoesOn
<1>2. Live(reserved)' \subseteq Live(reserved) BY <1>1 DEF Live
<1> QED BY <1>2, QuotaStays DEF StorageInvariant

Quiet ==
  /\ UNCHANGED <<objects, receipts, reserved, cleanup, cleaners, blobs, strays, erased>>
  /\ UploadsStay

\* Steps of the gateway and of clients that leave the catalog alone.
LEMMA QuietKeeps ==
  ASSUME ObjectStorageAssumption, StorageInvariant, StorageTypeOK', Moved, Quiet, NewlyVerified
  PROVE  StorageInvariant'
<1>t. StorageTypeOK /\ ReservedFit /\ ItemsFit
  BY DEF StorageInvariant
<1>u. /\ objects' = objects /\ receipts' = receipts /\ reserved' = reserved /\ cleanup' = cleanup
      /\ cleaners' = cleaners /\ blobs' = blobs /\ strays' = strays /\ erased' = erased
  BY DEF Quiet
<1>n. receipts \subseteq Nonces /\ reserved \subseteq Nonces BY <1>t DEF StorageTypeOK
<1>1. ReservedFit' BY <1>t, <1>u, <1>n DEF ReservedFit, Moved, GoesOn
<1>2. ItemsFit'
  <2>1. CarriesNow BY <1>u, CarriesSame
  <2> QED BY <1>t, <1>u, <1>n, <2>1, ItemsStay
<1>3. \A b : Pending(grants, reserved, cleanup, cleaners, b) => Pending(grants', reserved', cleanup', cleaners', b)
  BY <1>u, <1>n, PendingOn
<1>4. SafeStep BY <1>u, <1>3 DEF SafeStep, Quiet
<1>5. StoredWithinQuota' BY <1>u, FewerLive
<1> QED BY <1>1, <1>2, <1>4, <1>5, SafeStepKeeps

\* The type does not mention grants, what the gateway holds does.
LEMMA QuietTyped ==
  ASSUME StorageTypeOK, Quiet, uploads' = uploads, local' \subseteq Nonces, open' \subseteq Blobs
  PROVE  StorageTypeOK'
BY DEF StorageTypeOK, Quiet

\* A step of one grant that verifies nothing new.
LEMMA StepKeeps ==
  ASSUME ObjectStorageAssumption, StorageInvariant, Quiet, uploads' = uploads,
         local' \subseteq Nonces, open' \subseteq Blobs, NEW n \in Nonces,
         NEW s \in {"refused", "held", "granted", "verified", "committed", "released"}, Step(n, s),
         grants[n].step # "none", grants[n].step \notin Early => s \notin Early,
         s = "verified" => /\ grants[n].op \in {"upload", "complete"} => grants[n].blob \in blobs
                           /\ grants[n].op = "delete" => grants[n].blob \notin blobs
  PROVE  StorageInvariant'
<1>1. grants \in [Nonces -> GrantRow] BY DEF StorageInvariant, GrantsFit
<1>2. Moved /\ grants'[n].step = s /\ \A m \in Nonces : m # n => grants'[m] = grants[m] BY <1>1, StepMoves
<1>3. NewlyVerified BY <1>2 DEF NewlyVerified
<1>4. StorageTypeOK' BY QuietTyped DEF StorageInvariant
<1> QED BY <1>2, <1>3, <1>4, QuietKeeps

LEMMA StorageSets ==
  ASSUME StorageInvariant
  PROVE  /\ local \subseteq Nonces /\ open \subseteq Blobs /\ reserved \subseteq Nonces /\ receipts \subseteq Nonces
         /\ blobs \subseteq Blobs /\ strays \subseteq Blobs /\ erased \subseteq Blobs
         /\ grants \in [Nonces -> GrantRow]
BY DEF StorageInvariant, StorageTypeOK, GrantsFit

\* The grant of a nonce that is used has a provider key.
LEMMA GrantUsed ==
  ASSUME StorageInvariant, NEW n \in Nonces, grants[n].step # "none"
  PROVE  grants[n].op # "none" /\ grants[n].key \in Objects /\ grants[n].blob \in Blobs
<1>1. grants[n] # NoGrant BY DEF NoGrant
<1> QED BY <1>1 DEF StorageInvariant, GrantsFit, GrantFits

LEMMA HoldKeeps ==
  ASSUME ObjectStorageAssumption, StorageInvariant, NEW n \in Nonces, Hold(n)
  PROVE  StorageInvariant'
<1>1. grants[n].step = "authorized" /\ Quiet /\ uploads' = uploads /\ open' = open
  BY DEF Hold, At, Metadata, Provider, Quiet, UploadsStay
<1>2. \/ Step(n, "refused") /\ local' = local
      \/ Step(n, "held") /\ local' \subseteq Live(local) \cup {n}
  BY DEF Hold
<1>3. local' \subseteq Nonces /\ open' \subseteq Blobs BY <1>1, <1>2, StorageSets DEF Live
<1>4. CASE Step(n, "refused") BY <1>1, <1>3, <1>4, StepKeeps DEF Early
<1>5. CASE Step(n, "held") BY <1>1, <1>3, <1>5, StepKeeps DEF Early
<1> QED BY <1>2, <1>4, <1>5

LEMMA VerifyKeeps ==
  ASSUME ObjectStorageAssumption, StorageInvariant, NEW n \in Nonces, Verify(n) \/ VerifyStage(n) \/ Initiate(n)
  PROVE  StorageInvariant'
<1>1. grants[n].step = "granted" /\ Quiet /\ uploads' = uploads /\ local' = local /\ Step(n, "verified")
  BY DEF Verify, VerifyStage, Initiate, At, Metadata, Provider, Quiet, UploadsStay
<1>2. local' \subseteq Nonces /\ open' \subseteq Blobs
  BY <1>1, StorageSets, GrantUsed DEF Verify, VerifyStage, Initiate, Provider, OpenUpload
<1>3. /\ grants[n].op \in {"upload", "complete"} => grants[n].blob \in blobs
      /\ grants[n].op = "delete" => grants[n].blob \notin blobs
  BY DEF Verify, VerifyStage, Initiate, Inspected
<1> QED BY <1>1, <1>2, <1>3, StepKeeps DEF Early

LEMMA AnswerKeeps ==
  ASSUME ObjectStorageAssumption, StorageInvariant, NEW n \in Nonces, CommitFails(n) \/ Replay(n)
  PROVE  StorageInvariant'
<1>1. grants[n].step \in {"verified", "granted"} /\ Quiet /\ uploads' = uploads /\ (Step(n, "granted") \/ Step(n, "committed"))
  BY DEF CommitFails, Replay, At, Metadata, Provider, Quiet, UploadsStay
<1>2. local' \subseteq Nonces /\ open' \subseteq Blobs
  BY StorageSets DEF CommitFails, Replay, AbortCreated, Forget, Provider
<1>3. CASE Step(n, "granted") BY <1>1, <1>2, <1>3, StepKeeps DEF Early
<1>4. CASE Step(n, "committed") BY <1>1, <1>2, <1>4, StepKeeps DEF Early
<1> QED BY <1>1, <1>3, <1>4

\* Time passes.
LEMMA ExpireKeeps ==
  ASSUME ObjectStorageAssumption, StorageInvariant, NEW n \in Nonces, Expire(n)
  PROVE  StorageInvariant'
<1>1. Quiet /\ uploads' = uploads /\ local' = local /\ open' = open /\ grants[n] # NoGrant
  BY DEF Expire, Metadata, Provider, Quiet, UploadsStay
<1>2. PICK g : g = grants[n] OBVIOUS
<1>3. PICK h : h = [g EXCEPT !.over = 1] OBVIOUS
<1>4. grants' = [grants EXCEPT ![n] = h] BY <1>2, <1>3 DEF Expire
<1>5. g \in GrantRow BY <1>2, StorageSets
<1>6. h \in GrantRow BY <1>3, <1>5 DEF GrantRow
<1>7. /\ h.op = g.op /\ h.key = g.key /\ h.blob = g.blob /\ h.old = g.old /\ h.size = g.size /\ h.bytes = g.bytes
      /\ h.step = g.step /\ h.over = 1
  BY <1>3, <1>5 DEF GrantRow
<1>8. GoesOn(g, h) BY <1>1, <1>2, <1>6, <1>7 DEF GoesOn
<1>9. grants'[n] = h /\ \A m \in Nonces : m # n => grants'[m] = grants[m] BY <1>4, StorageSets
<1>10. grants' \in [Nonces -> GrantRow] BY <1>4, <1>6, StorageSets
<1>11. \A m \in Nonces : GoesOn(grants[m], grants'[m]) BY <1>2, <1>8, <1>9, StorageSets, StaysSame
<1>12. NewlyVerified BY <1>2, <1>7, <1>9 DEF NewlyVerified
<1>13. StorageTypeOK' BY <1>1, StorageSets, QuietTyped DEF StorageInvariant
<1> QED BY <1>1, <1>10, <1>11, <1>12, <1>13, QuietKeeps DEF Moved

UploadRow ==
  [key : Objects \cup {NoBlob}, old : Blobs \cup {NoBlob}, size : Sizes \cup {0}, parts : {0, 1}, over : {0, 1}]

LEMMA ExpireUploadKeeps ==
  ASSUME ObjectStorageAssumption, StorageInvariant, NEW b \in Blobs, ExpireUpload(b)
  PROVE  StorageInvariant'
<1>1. /\ objects' = objects /\ receipts' = receipts /\ reserved' = reserved /\ cleanup' = cleanup /\ cleaners' = cleaners
      /\ blobs' = blobs /\ strays' = strays /\ erased' = erased /\ grants' = grants /\ local' = local /\ open' = open
      /\ uploads[b] # NoUpload
  BY DEF ExpireUpload, Provider
<1>2. uploads \in [Blobs -> UploadRow] BY DEF StorageInvariant, StorageTypeOK, UploadRow
<1>3. PICK u : u = uploads[b] OBVIOUS
<1>4. PICK v : v = [u EXCEPT !.over = 1] OBVIOUS
<1>5. u \in UploadRow BY <1>2, <1>3
<1>6. v \in UploadRow BY <1>4, <1>5 DEF UploadRow
<1>7. v.key = u.key /\ v.old = u.old /\ v.size = u.size BY <1>4, <1>5 DEF UploadRow
<1>8. uploads' = [uploads EXCEPT ![b] = v] BY <1>3, <1>4 DEF ExpireUpload
<1>9. uploads' \in [Blobs -> UploadRow] BY <1>2, <1>6, <1>8
<1>10. UploadsStay BY <1>1, <1>2, <1>3, <1>7, <1>8 DEF UploadsStay
<1>11. Quiet BY <1>1, <1>10 DEF Quiet
<1>12. StorageTypeOK' BY <1>1, <1>9 DEF StorageInvariant, StorageTypeOK, UploadRow
<1>13. Moved BY <1>1, StorageSets, NoneMoves
<1>14. NewlyVerified BY <1>1 DEF NewlyVerified
<1> QED BY <1>11, <1>12, <1>13, <1>14, QuietKeeps

LEMMA AbortPartsKeeps ==
  ASSUME ObjectStorageAssumption, StorageInvariant, NEW n \in Nonces, AbortParts(n)
  PROVE  StorageInvariant'
<1>1. Quiet /\ uploads' = uploads /\ local' = local /\ open' \subseteq open /\ grants' = grants
  BY DEF AbortParts, Metadata, Quiet, UploadsStay
<1>2. Moved /\ NewlyVerified BY <1>1, StorageSets, NoneMoves DEF NewlyVerified
<1>3. StorageTypeOK' BY <1>1, StorageSets, QuietTyped DEF StorageInvariant
<1> QED BY <1>1, <1>2, <1>3, QuietKeeps

LEMMA GatewayRestartsKeeps ==
  ASSUME ObjectStorageAssumption, StorageInvariant, GatewayRestarts
  PROVE  StorageInvariant'
<1>1. Quiet /\ uploads' = uploads /\ local' = {} /\ open' = open
  BY DEF GatewayRestarts, Metadata, Provider, Quiet, UploadsStay
<1>2. ASSUME NEW n \in Nonces
      PROVE  GoesOn(grants[n], grants'[n]) /\ (grants'[n].step = "verified" => grants[n].step = "verified")
  <2>1. PICK g : g = grants[n] OBVIOUS
  <2>2. g \in GrantRow BY <2>1, StorageSets
  <2>3. grants'[n] = IF g.step \in {"authorized", "held"} THEN [g EXCEPT !.step = "refused"]
                     ELSE IF g.step = "verified" THEN [g EXCEPT !.step = "granted"] ELSE g
    BY <2>1 DEF GatewayRestarts, At
  <2>4. CASE g.step \in {"authorized", "held"}
    <3>1. grants'[n] = [g EXCEPT !.step = "refused"] /\ g.step # "none" BY <2>3, <2>4
    <3>2. GoesOn(g, grants'[n]) /\ grants'[n].step = "refused" BY <3>1, <2>2, <2>4, StepField DEF Early
    <3> QED BY <3>2, <2>1
  <2>5. CASE g.step = "verified"
    <3>1. grants'[n] = [g EXCEPT !.step = "granted"] /\ g.step # "none" BY <2>3, <2>5
    <3>2. GoesOn(g, grants'[n]) /\ grants'[n].step = "granted" BY <3>1, <2>2, <2>5, StepField DEF Early
    <3> QED BY <3>2, <2>1
  <2>6. CASE g.step \notin {"authorized", "held", "verified"}
    <3>1. grants'[n] = g BY <2>3, <2>6
    <3> QED BY <3>1, <2>1, <2>2, StaysSame
  <2> QED BY <2>4, <2>5, <2>6
<1>3. grants' \in [Nonces -> GrantRow]
  <2>1. grants' = [n \in Nonces |-> grants'[n]] BY DEF GatewayRestarts
  <2>2. \A n \in Nonces : grants'[n] \in GrantRow BY <1>2 DEF GoesOn
  <2> QED BY <2>1, <2>2
<1>4. Moved BY <1>2, <1>3 DEF Moved
<1>5. NewlyVerified BY <1>2 DEF NewlyVerified
<1>6. StorageTypeOK' BY <1>1, StorageSets, QuietTyped DEF StorageInvariant
<1> QED BY <1>1, <1>4, <1>5, <1>6, QuietKeeps

-----------------------------------------------------------------------------
(* A grant is given.                                                         *)

NewGrant(n, h) ==
  /\ grants[n] = NoGrant /\ h \in GrantRow /\ h.step = "authorized"
  /\ grants' = [grants EXCEPT ![n] = h]
  /\ UNCHANGED <<objects, uploads, reserved, receipts, cleanup, local, cleaners, blobs, open, strays, erased>>

\* Nothing that is known so far is about the nonce.
LEMMA NewGrantFacts ==
  ASSUME StorageInvariant, NEW n \in Nonces, NEW h, NewGrant(n, h)
  PROVE  /\ n \notin reserved /\ n \notin receipts
         /\ grants'[n] = h /\ \A m \in Nonces : m # n => grants'[m] = grants[m]
         /\ \A b \in Blobs : ~Starts(grants[n], b) /\ ~Writes(grants[n], b)
         /\ \A b : Committed(grants', receipts, b) <=> Committed(grants, receipts, b)
         /\ \A key, b, old, size : Created(grants, receipts, key, b, old, size) => Created(grants', receipts, key, b, old, size)
         /\ \A b, z : Sized(grants, b, z) => Sized(grants', b, z)
         /\ \A b, k : Owned(grants, b, k) => Owned(grants', b, k)
         /\ \A b : Twice(grants, b) => Twice(grants', b)
<1>1. n \notin reserved /\ n \notin receipts
  <2>1. grants[n].step \in Early BY DEF NewGrant, NoGrant, Early
  <2> QED BY <2>1 DEF StorageInvariant, ReservedFit
<1>2. grants'[n] = h /\ \A m \in Nonces : m # n => grants'[m] = grants[m] BY StorageSets DEF NewGrant
<1>o. grants[n].op = "none" BY DEF NewGrant, NoGrant
<1>3. \A b : ~Starts(grants[n], b) /\ ~Writes(grants[n], b) BY <1>o DEF Starts, Writes
<1>s. \A m \in receipts : grants'[m] = grants[m] BY <1>1, <1>2, StorageSets
<1>4. \A b : Committed(grants', receipts, b) <=> Committed(grants, receipts, b) BY <1>s DEF Committed
<1>5. \A key, b, old, size : Created(grants, receipts, key, b, old, size) => Created(grants', receipts, key, b, old, size)
  BY <1>s DEF Created
<1>6. \A b, z : Sized(grants, b, z) => Sized(grants', b, z) BY <1>2, <1>3 DEF Sized
<1>7. \A b : Twice(grants, b) => Twice(grants', b) BY <1>2, <1>o DEF Twice
<1>8. \A b, k : Owned(grants, b, k) => Owned(grants', b, k) BY <1>2, <1>3 DEF Owned
<1> QED BY <1>1, <1>2, <1>3, <1>4, <1>5, <1>6, <1>7, <1>8

\* An authorization: the earlier grants stay fit,
LEMMA NewGrantFits ==
  ASSUME StorageInvariant, NEW n \in Nonces, NEW h, NewGrant(n, h), NEW g, GrantFits(grants, receipts, g)
  PROVE  GrantFits(grants', receipts, g)
BY NewGrantFacts DEF GrantFits

\* and one that is fit itself, with a fresh provider key, keeps the invariant.
LEMMA NewGrantKeeps ==
  ASSUME ObjectStorageAssumption, StorageInvariant, NEW n \in Nonces, NEW h, NewGrant(n, h),
         GrantFits(grants', receipts, h), h.op \in {"upload", "create"} => Fresh(h.blob)
  PROVE  StorageInvariant'
<1>t. StorageTypeOK /\ GrantsFit /\ ReservedFit /\ ObjectsFit /\ UploadsFit /\ ItemsFit
  BY DEF StorageInvariant
<1>u. /\ objects' = objects /\ receipts' = receipts /\ reserved' = reserved /\ cleanup' = cleanup
      /\ cleaners' = cleaners /\ blobs' = blobs /\ strays' = strays /\ erased' = erased /\ uploads' = uploads
      /\ local' = local /\ open' = open
  BY DEF NewGrant
<1>n. receipts \subseteq Nonces /\ reserved \subseteq Nonces BY <1>t DEF StorageTypeOK
<1>f. n \notin reserved /\ n \notin receipts /\ grants'[n] = h /\ \A m \in Nonces : m # n => grants'[m] = grants[m]
  BY NewGrantFacts
<1>r. \A m \in reserved \cup receipts : grants'[m] = grants[m] BY <1>n, <1>f
<1>1. StorageTypeOK' BY <1>t, <1>u DEF StorageTypeOK
<1>2. GrantsFit'
  <2>1. grants' \in [Nonces -> GrantRow] BY <1>t DEF NewGrant, GrantsFit
  <2>2. \A m \in Nonces : GrantFits(grants', receipts, grants'[m])
    <3> SUFFICES ASSUME NEW m \in Nonces, m # n PROVE GrantFits(grants', receipts, grants'[m]) BY <1>f
    <3>1. GrantFits(grants, receipts, grants[m]) /\ grants'[m] = grants[m] BY <1>f, <1>t DEF GrantsFit
    <3> QED BY <3>1, NewGrantFits
  <2>3. \A m \in Nonces : \A b \in Blobs : m # n /\ Starts(grants'[m], b) => ~Starts(grants'[n], b)
    BY <1>f DEF Starts, Fresh
  <2>4. \A m, l \in Nonces : \A b \in Blobs : Starts(grants'[m], b) /\ Starts(grants'[l], b) => m = l
    <3> SUFFICES ASSUME NEW m \in Nonces, NEW l \in Nonces, NEW b \in Blobs, Starts(grants'[m], b), Starts(grants'[l], b), m # l
                 PROVE  FALSE
      OBVIOUS
    <3>1. m # n /\ l # n BY <2>3
    <3>2. Starts(grants[m], b) /\ Starts(grants[l], b) BY <3>1, <1>f
    <3> QED BY <3>2, <1>t DEF GrantsFit, StartedOnce
  <2>5. \A m \in Nonces : \A b \in Blobs : Starts(grants'[m], b) /\ Committed(grants', receipts, b) => m \in receipts
    <3> SUFFICES ASSUME NEW m \in Nonces, NEW b \in Blobs, Starts(grants'[m], b), Committed(grants', receipts, b)
                 PROVE  m \in receipts
      OBVIOUS
    <3>1. Committed(grants, receipts, b) BY NewGrantFacts
    <3>2. m # n
      <4>1. PICK l \in receipts : Writes(grants[l], b) BY <3>1 DEF Committed
      <4> QED BY <4>1, <1>n, <1>f DEF Writes, Starts, Fresh
    <3>3. Starts(grants[m], b) BY <3>2, <1>f
    <3> QED BY <3>1, <3>3, <1>t DEF GrantsFit, StartedOnce
  <2>6. StartedOnce(grants', receipts) BY <2>4, <2>5 DEF StartedOnce
  <2> QED BY <2>1, <2>2, <2>6, <1>u DEF GrantsFit
<1>3. ReservedFit' BY <1>t, <1>u, <1>r DEF ReservedFit
<1>4. ObjectsFit'
  <2> SUFFICES ASSUME NEW k \in Objects PROVE ObjectFits(grants', receipts, k, objects[k]) BY <1>u DEF ObjectsFit
  <2>1. ObjectFits(grants, receipts, k, objects[k]) BY <1>t DEF ObjectsFit
  <2> QED BY <2>1, NewGrantFacts DEF ObjectFits
<1>5. UploadsFit'
  <2> SUFFICES ASSUME NEW b \in Blobs PROVE UploadFits(grants', receipts, b, uploads[b]) BY <1>u DEF UploadsFit
  <2>1. UploadFits(grants, receipts, b, uploads[b]) BY <1>t DEF UploadsFit
  <2> QED BY <2>1, NewGrantFacts DEF UploadFits
<1>6. ItemsFit'
  <2>1. ASSUME NEW i, ItemFits(grants, receipts, reserved, objects, i)
        PROVE  ItemFits(grants', receipts, reserved, objects, i)
    <3> SUFFICES ASSUME i.kind = "blob" PROVE ItemFits(grants', receipts, reserved, objects, i) BY DEF ItemFits
    <3>1. i.from \in Nonces /\ grants[i.from].step \notin Early BY <2>1 DEF ItemFits
    <3>2. grants'[i.from] = grants[i.from] BY <3>1, <1>f DEF NewGrant, NoGrant, Early
    <3>3. \A b : Committed(grants', receipts, b) <=> Committed(grants, receipts, b) BY NewGrantFacts
    <3> QED BY <2>1, <3>2, <3>3 DEF ItemFits
  <2> QED BY <2>1, <1>t, <1>u DEF ItemsFit
<1>p. \A b : Pending(grants, reserved, cleanup, cleaners, b) => Pending(grants', reserved', cleanup', cleaners', b)
  BY <1>u, <1>r DEF Pending, Awaited
<1>7. BlobsTracked' BY <1>u, <1>p DEF StorageInvariant, BlobsTracked
<1>8. DeletesFit'
  <2> SUFFICES ASSUME NEW m \in Nonces, grants'[m].op = "delete", grants'[m].step = "verified",
                      grants'[m].blob \in blobs \ strays
               PROVE  Pending(grants', reserved', cleanup', cleaners', grants'[m].blob)
    BY <1>u DEF DeletesFit
  <2>1. m # n BY <1>f DEF NewGrant
  <2>2. grants'[m] = grants[m] BY <2>1, <1>f
  <2>3. Pending(grants, reserved, cleanup, cleaners, grants[m].blob) BY <2>2 DEF StorageInvariant, DeletesFit
  <2> QED BY <2>2, <2>3, <1>p
<1>9. ContentsKept'
  <2>1. \A b : Kept(grants, blobs \cup erased \cup {NoBlob}, b) => Kept(grants', blobs \cup erased \cup {NoBlob}, b)
    BY NewGrantFacts DEF Kept
  <2>2. \A k \in Objects : Kept(grants', blobs \cup erased \cup {NoBlob}, objects[k].blob)
    BY <2>1 DEF StorageInvariant, ContentsKept
  <2>3. \A m \in reserved : grants'[m].step = "verified" /\ grants'[m].op \in {"upload", "complete"} =>
          Kept(grants', blobs \cup erased \cup {NoBlob}, grants'[m].blob)
    BY <2>1, <1>r DEF StorageInvariant, ContentsKept
  <2> QED BY <2>2, <2>3, <1>u DEF ContentsKept
<1>10. StoredWithinQuota'
  <2>1. Live(reserved) \in SUBSET Nonces /\ \A m \in Live(reserved) : grants'[m].bytes = grants[m].bytes
    BY <1>n, <1>r DEF Live
  <2>2. Live(reserved)' = Live(reserved) BY <1>u, <1>r DEF Live
  <2>3. \A m \in Nonces : grants[m].bytes \in Nat BY <1>t DEF GrantsFit, GrantRow
  <2>4. ByteSum(grants', Live(reserved)) = ByteSum(grants, Live(reserved)) BY <2>1, <2>3, BytesAdd
  <2>5. Used' = Used BY <1>u DEF Used
  <2> QED BY <2>2, <2>4, <2>5 DEF StorageInvariant, StoredWithinQuota, Bytes
<1> QED BY <1>1, <1>2, <1>3, <1>4, <1>5, <1>6, <1>7, <1>8, <1>9, <1>10 DEF StorageInvariant

LEMMA UsedNat ==
  ASSUME ObjectStorageAssumption, StorageInvariant
  PROVE  Used \in Nat /\ \A k \in Objects : objects[k].size \in Nat
<1>1. \A k \in Objects : objects[k].size \in Nat BY SizesAreNumbers DEF StorageInvariant
<1> QED BY <1>1, SizesAdd DEF Used

LEMMA BeyondNat ==
  ASSUME NEW y \in Nat, NEW z \in Nat
  PROVE  Beyond(y, z) \in Nat
BY DEF Beyond

LEMMA ObjectKnown ==
  ASSUME ObjectStorageAssumption, StorageInvariant, NEW k \in Objects
  PROVE  /\ objects[k].blob \in Blobs \cup {NoBlob} /\ objects[k].size \in Nat
         /\ Sized(grants, objects[k].blob, objects[k].size)
         /\ objects[k] # NoObject => objects[k].blob \in Blobs /\ Committed(grants, receipts, objects[k].blob)
<1> PICK o, A, B : o = objects[k] /\ A = Blobs \cup {NoBlob} /\ B = Sizes \cup {0} OBVIOUS
<1>1. o \in [blob : A, size : B] BY DEF StorageInvariant, StorageTypeOK
<1>2. objects[k].blob \in Blobs \cup {NoBlob} BY <1>1
<1>3. ObjectFits(grants, receipts, k, objects[k]) BY DEF StorageInvariant, ObjectsFit
<1>4. objects[k].size \in Nat BY UsedNat
<1> QED BY <1>2, <1>3, <1>4 DEF ObjectFits

LEMMA NoGrantRow ==
  /\ NoGrant \in GrantRow /\ NoGrant.bytes = 0 /\ NoGrant.size = 0 /\ NoGrant.over = 0
BY DEF NoGrant, GrantRow

LEMMA SixFields ==
  ASSUME NEW P, NEW O, NEW B, NEW Z, NEW S, NEW V, NEW N,
         NEW e \in [op : P, key : O, blob : B, old : B, size : Z, bytes : N, used : N, step : S, over : V],
         NEW op \in P, NEW key \in O, NEW blob \in B, NEW old \in B, NEW size \in Z, NEW bytes \in N
  PROVE  [e EXCEPT !.op = op, !.key = key, !.blob = blob, !.old = old, !.size = size, !.bytes = bytes]
           \in [op : P, key : O, blob : B, old : B, size : Z, bytes : N, used : N, step : S, over : V]
OBVIOUS

Ops == {"none", "upload", "create", "part", "complete", "abort", "delete"}

GrantHas(g, op, key, b, old, size, bytes) ==
  /\ g.op = op /\ g.key = key /\ g.blob = b /\ g.old = old /\ g.size = size /\ g.bytes = bytes /\ g.over = 0

LEMMA SixGiven ==
  ASSUME NEW op \in Ops, NEW key \in Objects, NEW b \in Blobs, NEW old \in Blobs \cup {NoBlob},
         NEW size \in Sizes \cup {0}, NEW bytes \in Nat, NEW g,
         g = [NoGrant EXCEPT !.op = op, !.key = key, !.blob = b, !.old = old, !.size = size, !.bytes = bytes]
  PROVE  g \in GrantRow /\ GrantHas(g, op, key, b, old, size, bytes)
<1>1. PICK O, B, Z, S : /\ O = Objects \cup {NoBlob} /\ B = Blobs \cup {NoBlob} /\ Z = Sizes \cup {0}
                        /\ S = {"none", "authorized", "held", "refused", "granted", "verified", "committed", "released"}
  OBVIOUS
<1>2. GrantRow = [op : Ops, key : O, blob : B, old : B, size : Z, bytes : Nat, used : Nat, step : S, over : {0, 1}]
  BY <1>1 DEF GrantRow, Ops
<1>3. key \in O /\ b \in B /\ old \in B /\ size \in Z BY <1>1
<1>4. PICK e : e = NoGrant OBVIOUS
<1>5. e \in GrantRow /\ e.over = 0 BY <1>4, NoGrantRow
<1>6. g \in GrantRow BY <1>2, <1>3, <1>4, <1>5, SixFields
<1>7. GrantHas(g, op, key, b, old, size, bytes) BY <1>2, <1>4, <1>5 DEF GrantHas
<1> QED BY <1>6, <1>7

LEMMA FiveFields ==
  ASSUME NEW P, NEW O, NEW B, NEW Z, NEW S, NEW V, NEW N,
         NEW e \in [op : P, key : O, blob : B, old : B, size : Z, bytes : N, used : N, step : S, over : V],
         NEW op \in P, NEW key \in O, NEW blob \in B, NEW old \in B, NEW size \in Z
  PROVE  [e EXCEPT !.op = op, !.key = key, !.blob = blob, !.old = old, !.size = size]
           \in [op : P, key : O, blob : B, old : B, size : Z, bytes : N, used : N, step : S, over : V]
OBVIOUS

LEMMA FiveGiven ==
  ASSUME NEW op \in Ops, NEW key \in Objects, NEW b \in Blobs, NEW old \in Blobs \cup {NoBlob},
         NEW size \in Sizes \cup {0}, NEW g,
         g = [NoGrant EXCEPT !.op = op, !.key = key, !.blob = b, !.old = old, !.size = size]
  PROVE  g \in GrantRow /\ GrantHas(g, op, key, b, old, size, 0)
<1>1. PICK O, B, Z, S : /\ O = Objects \cup {NoBlob} /\ B = Blobs \cup {NoBlob} /\ Z = Sizes \cup {0}
                        /\ S = {"none", "authorized", "held", "refused", "granted", "verified", "committed", "released"}
  OBVIOUS
<1>2. GrantRow = [op : Ops, key : O, blob : B, old : B, size : Z, bytes : Nat, used : Nat, step : S, over : {0, 1}]
  BY <1>1 DEF GrantRow, Ops
<1>3. key \in O /\ b \in B /\ old \in B /\ size \in Z BY <1>1
<1>4. PICK e : e = NoGrant OBVIOUS
<1>5. e \in GrantRow /\ e.over = 0 /\ e.bytes = 0 BY <1>4, NoGrantRow
<1>6. g \in GrantRow BY <1>2, <1>3, <1>4, <1>5, FiveFields
<1>7. GrantHas(g, op, key, b, old, size, 0) BY <1>2, <1>4, <1>5 DEF GrantHas
<1> QED BY <1>6, <1>7

LEMMA FourGiven ==
  ASSUME NEW op \in Ops, NEW key \in Objects, NEW b \in Blobs, NEW old \in Blobs \cup {NoBlob}, NEW g,
         g = [NoGrant EXCEPT !.op = op, !.key = key, !.blob = b, !.old = old]
  PROVE  g \in GrantRow /\ GrantHas(g, op, key, b, old, 0, 0)
<1>4. PICK e : e = NoGrant OBVIOUS
<1>5. e \in GrantRow /\ e.over = 0 /\ e.bytes = 0 /\ e.size = 0 BY <1>4, NoGrantRow
<1>6. g \in GrantRow BY <1>4, <1>5 DEF GrantRow, Ops
<1>7. GrantHas(g, op, key, b, old, 0, 0) BY <1>4, <1>5 DEF GrantHas, GrantRow
<1> QED BY <1>6, <1>7

\* The grant that Granted stores.
LEMMA GrantedIs ==
  ASSUME StorageInvariant, ObjectStorageAssumption, NEW n \in Nonces, NEW op, NEW key, NEW b, NEW old, NEW size, NEW bytes,
         NEW g \in GrantRow, GrantHas(g, op, key, b, old, size, bytes), Granted(n, g)
  PROVE  \E h : NewGrant(n, h) /\ GrantHas(h, op, key, b, old, size, bytes)
<1>1. PICK u : u = Used OBVIOUS
<1>2. u \in Nat BY <1>1, UsedNat
<1>3. PICK h : h = [g EXCEPT !.used = u, !.step = "authorized"] OBVIOUS
<1>4. h \in GrantRow /\ h.step = "authorized" BY <1>2, <1>3 DEF GrantRow
<1>5. GrantHas(h, op, key, b, old, size, bytes) BY <1>3 DEF GrantHas, GrantRow
<1>6. grants[n] = NoGrant /\ grants' = [grants EXCEPT ![n] = h] BY <1>1, <1>3 DEF Granted
<1>7. UNCHANGED <<objects, uploads, reserved, receipts, cleanup, local, cleaners, blobs, open, strays, erased>>
  BY DEF Granted, Metadata, Provider
<1>8. NewGrant(n, h) BY <1>4, <1>6, <1>7 DEF NewGrant
<1> QED BY <1>5, <1>8

\* authorize_sync: what is granted is fresh, or about what there is.
LEMMA AuthorizeUploadKeeps ==
  ASSUME ObjectStorageAssumption, StorageInvariant, NEW n \in Nonces, NEW k \in Objects, NEW size \in Sizes,
         NEW b \in Blobs, AuthorizeUpload(n, k, size, b)
  PROVE  StorageInvariant'
<1>1. PICK old, z : old = objects[k].blob /\ z = objects[k].size OBVIOUS
<1>2. old \in Blobs \cup {NoBlob} /\ z \in Nat /\ Sized(grants, old, z) BY <1>1, ObjectKnown
<1>3. size \in Sizes \cup {0} /\ size \in Nat BY SizesInNat
<1>4. PICK bytes : bytes = Beyond(size, z) /\ bytes \in Nat BY <1>2, <1>3, BeyondNat
<1>5. PICK g : g = [NoGrant EXCEPT !.op = "upload", !.key = k, !.blob = b, !.old = old, !.size = size, !.bytes = bytes]
  OBVIOUS
<1>6. Granted(n, g) /\ Fresh(b) BY <1>1, <1>4, <1>5 DEF AuthorizeUpload
<1>7. g \in GrantRow /\ GrantHas(g, "upload", k, b, old, size, bytes)
  <2>1. "upload" \in Ops BY DEF Ops
  <2>2. old \in Blobs \cup {NoBlob} /\ size \in Sizes \cup {0} /\ bytes \in Nat BY <1>2, <1>3, <1>4
  <2> QED BY <1>5, <2>1, <2>2, SixGiven
<1>8. PICK h : NewGrant(n, h) /\ GrantHas(h, "upload", k, b, old, size, bytes) BY <1>6, <1>7, GrantedIs
<1>9. Sized(grants', old, z) BY <1>2, <1>8, NewGrantFacts
<1>10. h.step # "none" BY <1>8 DEF NewGrant
<1>11. GrantFits(grants', receipts, h) BY <1>2, <1>4, <1>8, <1>9, <1>10 DEF GrantFits, GrantHas
<1> QED BY <1>6, <1>8, <1>11, NewGrantKeeps DEF GrantHas

LEMMA AuthorizeCreateKeeps ==
  ASSUME ObjectStorageAssumption, StorageInvariant, NEW n \in Nonces, NEW k \in Objects, NEW size \in Sizes,
         NEW b \in Blobs, AuthorizeCreate(n, k, size, b)
  PROVE  StorageInvariant'
<1>1. PICK old : old = objects[k].blob OBVIOUS
<1>2. old \in Blobs \cup {NoBlob} /\ size \in Sizes \cup {0} BY <1>1, ObjectKnown
<1>5. PICK g : g = [NoGrant EXCEPT !.op = "create", !.key = k, !.blob = b, !.old = old, !.size = size]
  OBVIOUS
<1>6. Granted(n, g) /\ Fresh(b) BY <1>1, <1>5 DEF AuthorizeCreate
<1>7. g \in GrantRow /\ GrantHas(g, "create", k, b, old, size, 0) BY <1>2, <1>5, FiveGiven DEF Ops
<1>8. PICK h : NewGrant(n, h) /\ GrantHas(h, "create", k, b, old, size, 0) BY <1>6, <1>7, GrantedIs
<1>10. h.step # "none" BY <1>8 DEF NewGrant
<1>11. GrantFits(grants', receipts, h) BY <1>8, <1>10 DEF GrantFits, GrantHas
<1> QED BY <1>6, <1>8, <1>11, NewGrantKeeps DEF GrantHas

LEMMA AuthorizeDeleteKeeps ==
  ASSUME ObjectStorageAssumption, StorageInvariant, NEW n \in Nonces, NEW k \in Objects, AuthorizeDelete(n, k)
  PROVE  StorageInvariant'
<1>1. PICK b : b = objects[k].blob OBVIOUS
<1>2. b \in Blobs /\ Committed(grants, receipts, b) BY <1>1, ObjectKnown DEF AuthorizeDelete
<1>5. PICK g : g = [NoGrant EXCEPT !.op = "delete", !.key = k, !.blob = b, !.old = b] OBVIOUS
<1>6. Granted(n, g) BY <1>1, <1>5 DEF AuthorizeDelete
<1>7. g \in GrantRow /\ GrantHas(g, "delete", k, b, b, 0, 0) BY <1>2, <1>5, FourGiven DEF Ops
<1>8. PICK h : NewGrant(n, h) /\ GrantHas(h, "delete", k, b, b, 0, 0) BY <1>6, <1>7, GrantedIs
<1>9. Committed(grants', receipts, b) BY <1>2, <1>8, NewGrantFacts
<1>10. h.step # "none" BY <1>8 DEF NewGrant
<1>11. GrantFits(grants', receipts, h) BY <1>2, <1>8, <1>9, <1>10 DEF GrantFits, GrantHas
<1> QED BY <1>8, <1>11, NewGrantKeeps DEF GrantHas

LEMMA AuthorizeMultipartKeeps ==
  ASSUME ObjectStorageAssumption, StorageInvariant, NEW n \in Nonces, NEW op, NEW b \in Blobs, AuthorizeMultipart(n, op, b)
  PROVE  StorageInvariant'
<1>0. op \in {"part", "complete", "abort"} /\ uploads[b] # NoUpload BY DEF AuthorizeMultipart, InProgress
<1>1. PICK key, old, size : key = uploads[b].key /\ old = uploads[b].old /\ size = uploads[b].size OBVIOUS
<1>2. Created(grants, receipts, key, b, old, size) BY <1>0, <1>1 DEF StorageInvariant, UploadsFit, UploadFits
<1>3. PICK m \in receipts : grants[m].op = "create" /\ grants[m].key = key /\ grants[m].old = old /\ grants[m].size = size
  BY <1>2 DEF Created
<1>4. m \in Nonces /\ grants[m] \in GrantRow /\ grants[m].step \notin Early
  BY StorageSets DEF StorageInvariant, ReservedFit
<1>5. key \in Objects /\ old \in Blobs \cup {NoBlob} /\ size \in Sizes \cup {0}
  <2>1. key \in Objects BY <1>3, <1>4, GrantUsed DEF Early
  <2>2. old \in Blobs \cup {NoBlob} /\ size \in Sizes \cup {0} BY <1>3, <1>4 DEF GrantRow
  <2> QED BY <2>1, <2>2
<1>6. PICK z : z = objects[key].size OBVIOUS
<1>7. z \in Nat /\ size \in Nat /\ Beyond(size, z) \in Nat BY <1>5, <1>6, ObjectKnown, SizesInNat, BeyondNat
<1>8. op = "complete" => Sized(grants, old, z) BY <1>1, <1>5, <1>6, ObjectKnown DEF AuthorizeMultipart
<1>9. PICK bytes : bytes = IF op = "complete" THEN Beyond(size, z) ELSE 0 OBVIOUS
<1>10. bytes \in Nat BY <1>7, <1>9
<1>11. PICK g : g = [NoGrant EXCEPT !.op = op, !.key = key, !.blob = b, !.old = old, !.size = size, !.bytes = bytes]
  OBVIOUS
<1>12. Granted(n, g) BY <1>1, <1>6, <1>9, <1>11 DEF AuthorizeMultipart
<1>13. g \in GrantRow /\ GrantHas(g, op, key, b, old, size, bytes)
  <2>1. op \in Ops BY <1>0 DEF Ops
  <2> QED BY <1>5, <1>10, <1>11, <2>1, SixGiven
<1>14. PICK h : NewGrant(n, h) /\ GrantHas(h, op, key, b, old, size, bytes) BY <1>12, <1>13, GrantedIs
<1>15. Created(grants', receipts, key, b, old, size) /\ (op = "complete" => Sized(grants', old, z))
  BY <1>2, <1>8, <1>14, NewGrantFacts
<1>16. op = "complete" => bytes = Beyond(size, z) BY <1>9
<1>17. h.step # "none" BY <1>14 DEF NewGrant
<1>18. GrantFits(grants', receipts, h) BY <1>0, <1>5, <1>7, <1>14, <1>15, <1>16, <1>17 DEF GrantFits, GrantHas
<1> QED BY <1>0, <1>14, <1>18, NewGrantKeeps DEF GrantHas

-----------------------------------------------------------------------------
(* Reservations and the provider.                                            *)

\* storage_reserve counts what is stored and what is reserved.
LEMMA ReserveQuota ==
  ASSUME ObjectStorageAssumption, StorageInvariant, NEW n \in Nonces, n \notin reserved, grants[n].over = 0, Room(n),
         Moved, objects' = objects, reserved' = reserved \cup {n}, grants'[n].over = 0,
         \A m \in Nonces : m # n => grants'[m] = grants[m]
  PROVE  StoredWithinQuota'
<1>1. \A m \in Nonces : grants[m].bytes \in Nat /\ grants'[m].bytes = grants[m].bytes
  BY DEF StorageInvariant, GrantsFit, GrantRow, Moved, GoesOn
<1>2. reserved \subseteq Nonces BY StorageSets
<1>3. PICK ms : ms = Live(reserved) OBVIOUS
<1>4. ms \in SUBSET Nonces /\ n \notin ms BY <1>2, <1>3 DEF Live
<1>5. Live(reserved)' = ms \cup {n} BY <1>2, <1>3 DEF Live
<1>6. ByteSum(grants, ms) \in Nat /\ ByteSum(grants, ms \cup {n}) = grants[n].bytes + ByteSum(grants, ms)
  BY <1>1, <1>4, BytesAdd
<1>7. ByteSum(grants', ms \cup {n}) = ByteSum(grants, ms \cup {n})
  <2>1. ms \cup {n} \in SUBSET Nonces /\ \A m \in ms \cup {n} : grants'[m].bytes = grants[m].bytes BY <1>1, <1>4
  <2> QED BY <1>1, <2>1, BytesAdd
<1>8. Used + ByteSum(grants, ms) + grants[n].bytes <= Quota BY <1>3 DEF Room, Bytes
<1>9. Used \in Nat /\ Used' = Used BY UsedNat DEF Used
<1>10. Used + ByteSum(grants', ms \cup {n}) <= Quota
  <2> PICK u, x, y, q : u = Used /\ x = ByteSum(grants, ms) /\ y = grants[n].bytes /\ q = Quota OBVIOUS
  <2>1. u \in Nat /\ x \in Nat /\ y \in Nat /\ q \in Nat BY <1>1, <1>6, <1>9 DEF ObjectStorageAssumption
  <2>2. u + x + y <= q BY <1>8
  <2>3. u + (y + x) <= q BY <2>1, <2>2
  <2> QED BY <2>3, <1>6, <1>7
<1> QED BY <1>5, <1>9, <1>10 DEF StoredWithinQuota, Bytes

LEMMA EarlyUnheld ==
  ASSUME StorageInvariant, NEW n \in Nonces, grants[n].step \in Early
  PROVE  n \notin reserved /\ n \notin receipts
BY DEF StorageInvariant, ReservedFit

\* A reservation within the quota and the number of pending ones (reserve).
LEMMA ReservedKeeps ==
  ASSUME ObjectStorageAssumption, StorageInvariant, NEW n \in Nonces, grants[n].step = "held", grants[n].over = 0, Room(n),
         NEW s \in {"granted", "refused"}, Step(n, s), reserved' = reserved \cup {n}, local' \subseteq local,
         UNCHANGED <<objects, uploads, receipts, cleanup, cleaners, blobs, open, strays, erased>>
  PROVE  StorageInvariant'
<1>0. n \notin reserved /\ n \notin receipts /\ grants[n].step \in Early BY EarlyUnheld DEF Early
<1>1. Moved /\ grants'[n].step = s /\ grants'[n].over = 0 /\ \A m \in Nonces : m # n => grants'[m] = grants[m]
  BY StorageSets, StepMoves DEF Early
<1>2. StoredWithinQuota' BY <1>0, <1>1, ReserveQuota
<1>3. StorageTypeOK' BY DEF StorageInvariant, StorageTypeOK
<1>n. reserved \subseteq Nonces /\ receipts \subseteq Nonces BY StorageSets
<1>4. ReservedFit'
  <2>1. reserved' \cap receipts' = {} BY <1>0 DEF StorageInvariant, ReservedFit
  <2>2. \A m \in reserved' \cup receipts' : grants'[m].step \notin Early
    BY <1>1, <1>n DEF StorageInvariant, ReservedFit, Early
  <2> QED BY <2>1, <2>2 DEF ReservedFit
<1>5. ItemsFit'
  <2>1. CarriesNow BY <1>0 DEF CarriesNow, Carries, Shown
  <2> QED BY <1>1, <1>n, <2>1, ItemsStay DEF StorageInvariant
<1>6. \A b : Pending(grants, reserved, cleanup, cleaners, b) => Pending(grants', reserved', cleanup', cleaners', b)
  BY <1>1, <1>n, PendingOn
<1>7. NewlyVerified BY <1>1 DEF NewlyVerified
<1>8. SafeStep BY <1>1, <1>6, <1>7 DEF SafeStep, UploadsStay
<1> QED BY <1>2, <1>3, <1>4, <1>5, <1>8, SafeStepKeeps

LEMMA ReserveKeeps ==
  ASSUME ObjectStorageAssumption, StorageInvariant, NEW n \in Nonces, Reserve(n)
  PROVE  StorageInvariant'
<1>1. /\ grants[n].step = "held" /\ grants[n].over = 0 /\ local' \subseteq local
      /\ UNCHANGED <<objects, uploads, receipts, cleanup, cleaners, blobs, open, strays, erased>>
  BY DEF Reserve, At, Metadata, Provider
<1>2. CASE Room(n) /\ reserved' = reserved \cup {n} /\ Step(n, "granted") BY <1>1, <1>2, ReservedKeeps
<1>3. CASE Room(n) /\ reserved' = reserved \cup {n} /\ Step(n, "refused") BY <1>1, <1>3, ReservedKeeps
<1>4. CASE reserved' = reserved /\ Step(n, "refused")
  <2>1. Quiet /\ uploads' = uploads /\ open' = open BY <1>1, <1>4 DEF Quiet, UploadsStay
  <2>2. local' \subseteq Nonces /\ open' \subseteq Blobs BY <1>1, <2>1, StorageSets
  <2> QED BY <1>1, <1>4, <2>1, <2>2, StepKeeps DEF Early
<1> QED BY <1>2, <1>3, <1>4 DEF Reserve

\* What a reservation leaves behind is queued, and was not queued before.
LEMMA QueuedItems ==
  ASSUME StorageInvariant, NEW n \in reserved, Moved, receipts \subseteq receipts', receipts' \subseteq Nonces, CarriesNow,
         NEW X, \A i, j \in X : i = j,
         \A i \in X : i.from = n /\ ItemFits(grants', receipts', reserved', objects', i),
         cleanup' = cleanup \cup X, cleaners' = cleaners
  PROVE  ItemsFit'
<1>1. /\ \A i \in cleanup : ItemFits(grants', receipts', reserved', objects', i)
      /\ \A c \in Cleaners : \A i \in Worked(cleaners[c]) : ItemFits(grants', receipts', reserved', objects', i)
  BY ItemsOn DEF StorageInvariant
<1>2. \A i : ItemFits(grants, receipts, reserved, objects, i) => ~(i.kind = "blob" /\ i.from = n) BY DEF ItemFits
<1>3. \A i \in cleanup : ~(i.kind = "blob" /\ i.from = n) BY <1>2 DEF StorageInvariant, ItemsFit
<1>4. \A c \in Cleaners : \A i \in Worked(cleaners[c]) : ~(i.kind = "blob" /\ i.from = n)
  BY <1>2 DEF StorageInvariant, ItemsFit
<1>5. ItemsOnce(cleanup')
  <2>1. ItemsOnce(cleanup) BY DEF StorageInvariant, ItemsFit
  <2> QED BY <2>1, <1>3 DEF ItemsOnce, SameWork
<1>6. \A c \in Cleaners : \A i \in Worked(cleaners[c]) : i.leased = 1 /\ Tried(i, cleanup')
  <2> SUFFICES ASSUME NEW c \in Cleaners, NEW i \in Worked(cleaners[c]) PROVE i.leased = 1 /\ Tried(i, cleanup') OBVIOUS
  <2>1. i.leased = 1 /\ Tried(i, cleanup) BY DEF StorageInvariant, ItemsFit
  <2> QED BY <2>1, <1>4 DEF Tried, SameWork
<1>7. cleaners' \in [Cleaners -> CleanerRow] BY DEF StorageInvariant, ItemsFit
<1> QED BY <1>1, <1>5, <1>6, <1>7 DEF ItemsFit

\* What a release queues is fit to be deleted (release, expiry).
LEMMA ReleaseItems ==
  ASSUME StorageInvariant, NEW n \in reserved, grants[n].step \notin Early, Moved, receipts' = receipts, objects' = objects,
         reserved' = reserved \ {n}, cleanup' = cleanup \cup ItemsFor(n), cleaners' = cleaners
  PROVE  ItemsFit'
<1>n. reserved \subseteq Nonces /\ receipts \subseteq Nonces /\ n \notin receipts
  BY StorageSets DEF StorageInvariant, ReservedFit
<1>1. \A i \in ItemsFor(n) : i.from = n /\ (i.kind = "blob" => Writes(grants[n], i.blob))
  BY DEF ItemsFor, Item, Writes
<1>2. \A i, j \in ItemsFor(n) : i = j BY DEF ItemsFor
<1>3. CarriesNow BY CarriesSame
<1>4. \A i \in ItemsFor(n) : ItemFits(grants', receipts', reserved', objects', i)
  <2> SUFFICES ASSUME NEW i \in ItemsFor(n), i.kind = "blob" PROVE ItemFits(grants', receipts', reserved', objects', i)
    BY DEF ItemFits
  <2>1. Writes(grants'[n], i.blob) BY <1>1, <1>n, MovedSame
  <2>2. grants'[n].step \notin Early BY <1>n DEF Moved, GoesOn
  <2> QED BY <1>1, <1>n, <2>1, <2>2 DEF ItemFits
<1> QED BY <1>n, <1>1, <1>2, <1>3, <1>4, QueuedItems

\* A finished item was leased.
LEMMA FinishedLeased ==
  ASSUME ItemsFit, NEW j, Finished(cleaners, j)
  PROVE  j.leased = 1
<1>1. PICK c \in Cleaners : j \in cleaners[c].done BY DEF Finished
<1> QED BY <1>1 DEF ItemsFit, Worked

LEMMA ItemTyped ==
  ASSUME ObjectStorageAssumption, NEW n \in Nonces \cup {NoBlob}, NEW kind \in {"blob", "multipart"}, NEW b \in Blobs
  PROVE  Item(n, kind, b) \in ItemRow
<1>1. PICK F, T : F = Nonces \cup {NoBlob} /\ T = 0..MaxTries OBVIOUS
<1>2. n \in F /\ 0 \in T BY <1>1 DEF ObjectStorageAssumption
<1>3. [from |-> n, kind |-> kind, blob |-> b, tries |-> 0, leased |-> 0]
        \in [from : F, kind : {"blob", "multipart"}, blob : Blobs, tries : T, leased : {0, 1}]
  BY <1>2
<1> QED BY <1>1, <1>3 DEF Item, ItemRow

LEMMA ItemsTyped ==
  ASSUME ObjectStorageAssumption, StorageInvariant, NEW n \in Nonces, grants[n].step # "none"
  PROVE  ItemsFor(n) \subseteq ItemRow
<1>1. grants[n].blob \in Blobs BY GrantUsed
<1>2. \A kind \in {"blob", "multipart"} : Item(n, kind, grants[n].blob) \in ItemRow BY <1>1, ItemTyped
<1> QED BY <1>2 DEF ItemsFor

LEMMA ReleaseKeeps ==
  ASSUME ObjectStorageAssumption, StorageInvariant, NEW n \in Nonces, Release(n)
  PROVE  StorageInvariant'
<1>1. /\ grants[n].step \in {"granted", "verified"} /\ n \in reserved /\ reserved' = reserved \ {n}
      /\ cleanup' = cleanup \cup ItemsFor(n) /\ Step(n, "released") /\ local' \subseteq local
      /\ UNCHANGED <<objects, uploads, receipts, cleaners, blobs, open, strays, erased>>
  BY DEF Release, At, Unreserve, Forget, Metadata, Provider
<1>2. Moved /\ grants'[n].step = "released" /\ \A m \in Nonces : m # n => grants'[m] = grants[m]
  BY <1>1, StorageSets, StepMoves DEF Early
<1>n. reserved \subseteq Nonces /\ receipts \subseteq Nonces BY StorageSets
<1>3. StorageTypeOK'
  <2>1. ItemsFor(n) \subseteq ItemRow BY <1>1, ItemsTyped
  <2>2. cleanup' \subseteq ItemRow BY <1>1, <2>1 DEF StorageInvariant, StorageTypeOK, ItemRow
  <2> QED BY <1>1, <2>2 DEF StorageInvariant, StorageTypeOK, ItemRow
<1>4. ReservedFit' BY <1>1, <1>2, <1>n DEF StorageInvariant, ReservedFit, Moved, GoesOn
<1>5. ItemsFit'
  <2>1. grants[n].step \notin Early BY <1>1 DEF Early
  <2> QED BY <1>1, <1>2, <2>1, ReleaseItems
<1>6. ASSUME NEW b, Pending(grants, reserved, cleanup, cleaners, b)
      PROVE  Pending(grants', reserved', cleanup', cleaners', b)
  <2>1. Queued(cleanup, cleaners, b) => Queued(cleanup', cleaners', b) BY <1>1 DEF Queued
  <2>2. ASSUME NEW m \in reserved, Writes(grants[m], b) PROVE Pending(grants', reserved', cleanup', cleaners', b)
    <3>1. CASE m # n
      <4>1. Writes(grants'[m], b) /\ m \in reserved' BY <3>1, <2>2, <1>1, <1>2, <1>n
      <4> QED BY <4>1 DEF Pending, Awaited
    <3>2. CASE m = n
      <4>1. PICK j : j = Item(n, "blob", b) OBVIOUS
      <4>2. j \in cleanup' BY <3>2, <2>2, <4>1, <1>1 DEF ItemsFor, Writes
      <4>3. j.kind = "blob" /\ j.blob = b /\ j.leased = 0 BY <4>1 DEF Item
      <4>4. ~Finished(cleaners, j) BY <4>3, FinishedLeased DEF StorageInvariant
      <4> QED BY <4>2, <4>3, <4>4, <1>1 DEF Pending, Queued
    <3> QED BY <3>1, <3>2
  <2> QED BY <1>6, <2>1, <2>2 DEF Pending, Awaited
<1>7. NewlyVerified BY <1>2 DEF NewlyVerified
<1>8. SafeStep BY <1>1, <1>2, <1>6, <1>7 DEF SafeStep, UploadsStay
<1>9. StoredWithinQuota' BY <1>1, <1>2, FewerLive
<1> QED BY <1>3, <1>4, <1>5, <1>8, <1>9, SafeStepKeeps

\* The client writes the contents it has a grant for.
LEMMA WrittenKeeps ==
  ASSUME ObjectStorageAssumption, StorageInvariant, NEW n \in Nonces, NEW b \in Blobs, Writes(grants[n], b),
         grants' = grants, blobs' = blobs \cup {b}, Stray(n), open' \subseteq open,
         UNCHANGED <<objects, uploads, reserved, receipts, cleanup, local, cleaners, erased>>
  PROVE  StorageInvariant'
<1>1. Moved /\ NewlyVerified BY StorageSets, NoneMoves DEF NewlyVerified
<1>2. strays' = (IF n \in reserved THEN strays ELSE strays \cup {b}) BY DEF Stray, Writes
<1>3. StorageTypeOK' BY <1>2, StorageSets DEF StorageInvariant, StorageTypeOK
<1>4. ReservedFit' BY DEF StorageInvariant, ReservedFit
<1>5. ItemsFit' BY DEF StorageInvariant, ItemsFit
<1>6. n \in reserved => Pending(grants', reserved', cleanup', cleaners', b) BY DEF Pending, Awaited
<1>7. \A x \in blobs' \ strays' : x \in blobs \ strays \/ Pending(grants', reserved', cleanup', cleaners', x)
  BY <1>2, <1>6
<1>8. SafeStep BY <1>1, <1>7 DEF SafeStep, UploadsStay
<1>9. StoredWithinQuota' BY <1>1, FewerLive
<1> QED BY <1>3, <1>4, <1>5, <1>8, <1>9, SafeStepKeeps

LEMMA SignedUsed ==
  ASSUME StorageInvariant, NEW n \in Nonces, NEW op, Signed(n, op)
  PROVE  grants[n].blob \in Blobs /\ grants[n].op = op
<1>1. grants[n].step # "none" /\ grants[n].op = op BY DEF Signed
<1> QED BY <1>1, GrantUsed

\* The client against the provider: an upload through a signed URL,
LEMMA PutKeeps ==
  ASSUME ObjectStorageAssumption, StorageInvariant, NEW n \in Nonces, Put(n)
  PROVE  StorageInvariant'
<1>1. grants[n].blob \in Blobs /\ grants[n].op = "upload" BY SignedUsed DEF Put
<1>2. Writes(grants[n], grants[n].blob) BY <1>1 DEF Writes
<1>3. /\ grants' = grants /\ blobs' = blobs \cup {grants[n].blob} /\ Stray(n) /\ open' \subseteq open
      /\ UNCHANGED <<objects, uploads, reserved, receipts, cleanup, local, cleaners, erased>>
  BY DEF Put, Metadata
<1> QED BY <1>1, <1>2, <1>3, WrittenKeeps

\* the completion of a multipart upload,
LEMMA CompletePartsKeeps ==
  ASSUME ObjectStorageAssumption, StorageInvariant, NEW n \in Nonces, CompleteParts(n)
  PROVE  StorageInvariant'
<1>1. grants[n].blob \in Blobs /\ grants[n].op = "complete" BY SignedUsed DEF CompleteParts
<1>2. Writes(grants[n], grants[n].blob) BY <1>1 DEF Writes
<1>3. /\ grants' = grants /\ blobs' = blobs \cup {grants[n].blob} /\ Stray(n) /\ open' \subseteq open
      /\ UNCHANGED <<objects, uploads, reserved, receipts, cleanup, local, cleaners, erased>>
  BY DEF CompleteParts, Metadata
<1> QED BY <1>1, <1>2, <1>3, WrittenKeeps

\* and a deletion.
LEMMA EraseKeeps ==
  ASSUME ObjectStorageAssumption, StorageInvariant, NEW n \in Nonces, Erase(n)
  PROVE  StorageInvariant'
<1>0. grants[n].blob \in Blobs BY SignedUsed DEF Erase
<1>u. /\ grants' = grants /\ blobs' = blobs \ {grants[n].blob} /\ erased' = erased \cup {grants[n].blob}
      /\ UNCHANGED <<objects, uploads, reserved, receipts, cleanup, local, cleaners, open, strays>>
  BY DEF Erase, Metadata
<1>1. Moved /\ NewlyVerified BY <1>u, StorageSets, NoneMoves DEF NewlyVerified
<1>3. StorageTypeOK' BY <1>0, <1>u, StorageSets DEF StorageInvariant, StorageTypeOK
<1>4. ReservedFit' BY <1>u DEF StorageInvariant, ReservedFit
<1>5. ItemsFit' BY <1>u DEF StorageInvariant, ItemsFit
<1>6. blobs \cup erased \subseteq blobs' \cup erased' /\ blobs' \ strays' \subseteq blobs \ strays BY <1>u
<1>8. SafeStep BY <1>u, <1>1, <1>6 DEF SafeStep, UploadsStay
<1>9. StoredWithinQuota' BY <1>u, <1>1, FewerLive
<1> QED BY <1>3, <1>4, <1>5, <1>8, <1>9, SafeStepKeeps

-----------------------------------------------------------------------------
(* The cleanup.                                                              *)

LEMMA ItemFields ==
  ASSUME ObjectStorageAssumption, NEW i \in ItemRow
  PROVE  /\ i.from \in Nonces \cup {NoBlob} /\ i.kind \in {"blob", "multipart"} /\ i.blob \in Blobs
         /\ i.tries \in 0..MaxTries /\ i.tries \in Nat /\ i.leased \in {0, 1}
<1>1. PICK F, T : F = Nonces \cup {NoBlob} /\ T = 0..MaxTries OBVIOUS
<1>2. i \in [from : F, kind : {"blob", "multipart"}, blob : Blobs, tries : T, leased : {0, 1}] BY <1>1 DEF ItemRow
<1>3. i.from \in F /\ i.kind \in {"blob", "multipart"} /\ i.blob \in Blobs /\ i.tries \in T /\ i.leased \in {0, 1} BY <1>2
<1>4. MaxTries \in Nat BY DEF ObjectStorageAssumption
<1>5. i.tries \in 0..MaxTries BY <1>1, <1>3
<1>6. i.tries \in Nat BY <1>4, <1>5
<1> QED BY <1>1, <1>3, <1>5, <1>6

Claimed(i) == [i EXCEPT !.tries = @ + 1, !.leased = 1]
Unleased(i) == [i EXCEPT !.leased = 0]

\* The same item after it was worked on.
Follows(i, j) ==
  j \in ItemRow /\ j.from = i.from /\ j.kind = i.kind /\ j.blob = i.blob /\ i.tries <= j.tries

\* Claiming an item and giving it back keep its work.
LEMMA ItemFollows ==
  ASSUME ObjectStorageAssumption, NEW i \in ItemRow
  PROVE  /\ Follows(i, i)
         /\ Follows(i, Unleased(i)) /\ Unleased(i).leased = 0
         /\ i.tries < MaxTries => Follows(i, Claimed(i)) /\ Claimed(i).leased = 1 /\ Claimed(i).tries = i.tries + 1
<1>1. i.tries \in 0..MaxTries /\ i.tries \in Nat /\ MaxTries \in Nat BY ItemFields DEF ObjectStorageAssumption
<1>2. Follows(i, i) BY <1>1 DEF Follows
<1>f. PICK F, T : F = Nonces \cup {NoBlob} /\ T = 0..MaxTries OBVIOUS
<1>g. ItemRow = [from : F, kind : {"blob", "multipart"}, blob : Blobs, tries : T, leased : {0, 1}] BY <1>f DEF ItemRow
<1>3. Follows(i, Unleased(i)) /\ Unleased(i).leased = 0
  <2>1. PICK j : j = [i EXCEPT !.leased = 0] OBVIOUS
  <2>2. j \in ItemRow BY <2>1, <1>g
  <2>3. j.from = i.from /\ j.kind = i.kind /\ j.blob = i.blob /\ j.tries = i.tries /\ j.leased = 0 BY <2>1, <1>g
  <2> QED BY <2>1, <2>2, <2>3, <1>1 DEF Follows, Unleased
<1>4. ASSUME i.tries < MaxTries
      PROVE  Follows(i, Claimed(i)) /\ Claimed(i).leased = 1 /\ Claimed(i).tries = i.tries + 1
  <2>1. PICK t : t = i.tries + 1 OBVIOUS
  <2>2. t \in T /\ i.tries <= t BY <2>1, <1>1, <1>4, <1>f
  <2>3. PICK j : j = [i EXCEPT !.tries = t, !.leased = 1] OBVIOUS
  <2>4. j = Claimed(i) BY <2>1, <2>3 DEF Claimed
  <2>5. j \in ItemRow BY <2>2, <2>3, <1>g
  <2>6. j.from = i.from /\ j.kind = i.kind /\ j.blob = i.blob /\ j.tries = t /\ j.leased = 1 BY <2>3, <1>g
  <2> QED BY <2>1, <2>2, <2>4, <2>5, <2>6 DEF Follows
<1> QED BY <1>2, <1>3, <1>4

\* A queue whose items all follow items of another.
Reworks(Q, f, R) ==
  /\ Q \subseteq ItemRow /\ ItemsOnce(Q)
  /\ \A j \in Q : Follows(j, f[j])
  /\ \A r \in R : \E j \in Q : r = f[j]

\* A queue whose items were claimed, given back or dropped stays fit.
LEMMA Reworked ==
  ASSUME ObjectStorageAssumption, NEW Q, NEW f, NEW R, Reworks(Q, f, R)
  PROVE  /\ R \subseteq ItemRow /\ ItemsOnce(R)
         /\ \A i \in ItemRow : Tried(i, Q) => Tried(i, R)
         /\ \A i, r \in R : SameWork(i, r) => i.tries <= r.tries
         /\ \A gs, rs, held, stored :
              (\A j \in Q : ItemFits(gs, rs, held, stored, j)) => \A r \in R : ItemFits(gs, rs, held, stored, r)
<1>0. /\ Q \subseteq ItemRow /\ ItemsOnce(Q) /\ \A j \in Q : Follows(j, f[j])
      /\ \A r \in R : \E j \in Q : r = f[j]
  BY DEF Reworks
<1>1. R \subseteq ItemRow BY <1>0 DEF Follows
<1>2. ItemsOnce(R)
  <2> SUFFICES ASSUME NEW i \in R, NEW r \in R, SameWork(i, r) PROVE i = r BY DEF ItemsOnce
  <2>1. PICK x \in Q : i = f[x] BY <1>0
  <2>2. PICK y \in Q : r = f[y] BY <1>0
  <2>3. Follows(x, i) /\ Follows(y, r) BY <2>1, <2>2, <1>0
  <2>4. SameWork(x, y) BY <2>3 DEF Follows, SameWork
  <2>5. x = y BY <2>4, <1>0 DEF ItemsOnce
  <2> QED BY <2>1, <2>2, <2>5
<1>3. ASSUME NEW i \in ItemRow, Tried(i, Q) PROVE Tried(i, R)
  <2> SUFFICES ASSUME NEW r \in R, SameWork(i, r) PROVE i.tries <= r.tries BY DEF Tried
  <2>1. PICK y \in Q : r = f[y] BY <1>0
  <2>2. Follows(y, r) BY <2>1, <1>0
  <2>3. SameWork(i, y) BY <2>2 DEF Follows, SameWork
  <2>4. i.tries <= y.tries BY <2>3, <1>3 DEF Tried
  <2>5. y.tries <= r.tries /\ r \in ItemRow BY <2>2 DEF Follows
  <2>6. i.tries \in Nat /\ y.tries \in Nat /\ r.tries \in Nat BY <2>5, <1>0, ItemFields
  <2> QED BY <2>4, <2>5, <2>6
<1>4. ASSUME NEW i \in R, NEW r \in R, SameWork(i, r) PROVE i.tries <= r.tries
  <2>1. i = r BY <1>2, <1>4 DEF ItemsOnce
  <2>2. i.tries \in Nat BY <1>1, ItemFields
  <2> QED BY <2>1, <2>2
<1>5. ASSUME NEW gs, NEW rs, NEW held, NEW stored, \A j \in Q : ItemFits(gs, rs, held, stored, j), NEW r \in R
      PROVE  ItemFits(gs, rs, held, stored, r)
  <2>1. PICK y \in Q : r = f[y] BY <1>0
  <2>2. Follows(y, r) /\ ItemFits(gs, rs, held, stored, y) BY <2>1, <1>0, <1>5
  <2>3. r.from = y.from /\ r.kind = y.kind /\ r.blob = y.blob BY <2>2 DEF Follows
  <2> QED BY <2>2, <2>3 DEF ItemFits
<1> QED BY <1>1, <1>2, <1>3, <1>4, <1>5

\* Two grants that write the same provider key complete the same upload.
LEMMA TwoWriters ==
  ASSUME StorageInvariant, NEW n \in Nonces, NEW m \in Nonces, n # m, NEW b \in Blobs,
         Writes(grants[n], b), Writes(grants[m], b)
  PROVE  Twice(grants, b)
<1>1. StartedOnce(grants, receipts) /\ receipts \subseteq Nonces /\ \A l \in Nonces : GrantFits(grants, receipts, grants[l])
  BY StorageSets DEF StorageInvariant, GrantsFit
<1>2. ASSUME NEW x \in Nonces, NEW y \in Nonces, x # y, Writes(grants[x], b), Writes(grants[y], b), grants[x].op = "upload"
      PROVE  FALSE
  <2>1. Starts(grants[x], b) BY <1>2 DEF Starts, Writes
  <2>2. CASE grants[y].op = "upload"
    <3>1. Starts(grants[y], b) BY <1>2, <2>2 DEF Starts, Writes
    <3> QED BY <3>1, <2>1, <1>1, <1>2 DEF StartedOnce
  <2>3. CASE grants[y].op = "complete"
    <3>1. Created(grants, receipts, grants[y].key, b, grants[y].old, grants[y].size)
      BY <1>1, <1>2, <2>3 DEF GrantFits, Writes
    <3>2. PICK l \in receipts : grants[l].op = "create" /\ grants[l].blob = b BY <3>1 DEF Created
    <3>3. Starts(grants[l], b) /\ l \in Nonces BY <3>2, <1>1 DEF Starts
    <3>4. l = x BY <3>3, <2>1, <1>1 DEF StartedOnce
    <3> QED BY <3>2, <3>4, <1>2
  <2> QED BY <2>2, <2>3, <1>2 DEF Writes
<1>3. grants[n].op = "complete" /\ grants[m].op = "complete" BY <1>2 DEF Writes
<1> QED BY <1>3 DEF Twice, Writes

\* The upload that a completed one started is committed with it.
LEMMA Unwritten ==
  ASSUME StorageInvariant, NEW n \in Nonces, n \notin receipts, NEW b \in Blobs, Writes(grants[n], b),
         Committed(grants, receipts, b)
  PROVE  Twice(grants, b)
<1>1. PICK m \in receipts : Writes(grants[m], b) BY DEF Committed
<1>2. m \in Nonces /\ m # n BY StorageSets
<1> QED BY <1>1, <1>2, TwoWriters

\* What a cleanup may delete is no object's contents, or was completed twice.
LEMMA DeletedKept ==
  ASSUME ObjectStorageAssumption, StorageInvariant, NEW i \in ItemRow, i.kind = "blob", ItemFits(grants, receipts, reserved, objects, i)
  PROVE  /\ Shown(objects, i.blob) => Twice(grants, i.blob)
         /\ \A n \in reserved : Writes(grants[n], i.blob) => Twice(grants, i.blob)
<1> PICK m, b : m = i.from /\ b = i.blob OBVIOUS
<1>1. m \in Nonces /\ m \notin reserved /\ b \in Blobs BY ItemFields DEF ItemFits
<1>n. reserved \subseteq Nonces /\ receipts \subseteq Nonces /\ reserved \cap receipts = {} BY StorageSets DEF StorageInvariant, ReservedFit
<1>2. CASE Committed(grants, receipts, b) /\ \A k \in Objects : objects[k].blob # b
  <2>1. ~Shown(objects, b) BY <1>2 DEF Shown
  <2>2. ASSUME NEW n \in reserved, Writes(grants[n], b) PROVE Twice(grants, b)
    <3>1. n \in Nonces /\ n \notin receipts BY <1>n
    <3> QED BY <3>1, <2>2, <1>1, <1>2, Unwritten
  <2> QED BY <2>1, <2>2
<1>3. CASE m \notin receipts /\ Writes(grants[m], b)
  <2>1. ASSUME Shown(objects, b) PROVE Twice(grants, b)
    <3>1. PICK k \in Objects : objects[k].blob = b BY <2>1 DEF Shown
    <3>2. b # NoBlob BY <1>1 DEF ObjectStorageAssumption
    <3>3. ObjectFits(grants, receipts, k, objects[k]) BY DEF StorageInvariant, ObjectsFit
    <3>4. Committed(grants, receipts, b) BY <3>1, <3>2, <3>3 DEF ObjectFits
    <3> QED BY <3>4, <1>1, <1>3, Unwritten
  <2>2. ASSUME NEW n \in reserved, Writes(grants[n], b) PROVE Twice(grants, b)
    <3>1. n \in Nonces /\ n # m BY <1>1, <1>n
    <3> QED BY <3>1, <2>2, <1>1, <1>3, TwoWriters
  <2> QED BY <2>1, <2>2
<1> QED BY <1>2, <1>3 DEF ItemFits

\* The cleaners work on the same items, whatever became of them.
LEMMA WorkMoves ==
  ASSUME StorageInvariant, NEW c \in Cleaners, NEW t \in CleanerRow, Worked(t) \subseteq Worked(cleaners[c]),
         cleaners' = [cleaners EXCEPT ![c] = t],
         UNCHANGED <<objects, reserved, receipts, grants>>, cleanup' = cleanup
  PROVE  ItemsFit'
<1>1. cleaners \in [Cleaners -> CleanerRow] BY DEF StorageInvariant, ItemsFit
<1>2. cleaners' \in [Cleaners -> CleanerRow] BY <1>1
<1>3. cleaners'[c] = t /\ \A d \in Cleaners : d # c => cleaners'[d] = cleaners[d] BY <1>1
<1>4. \A d \in Cleaners : Worked(cleaners'[d]) \subseteq Worked(cleaners[d]) BY <1>3
<1> QED BY <1>2, <1>4 DEF StorageInvariant, ItemsFit

\* Deleting a queued blob takes no object's contents.
LEMMA CleanItemKeeps ==
  ASSUME ObjectStorageAssumption, StorageInvariant, NEW c \in Cleaners, CleanItem(c)
  PROVE  StorageInvariant'
<1>u. UNCHANGED <<objects, uploads, receipts, reserved, cleanup, grants, local, strays, erased>> BY DEF CleanItem, Metadata
<1>t. cleaners \in [Cleaners -> CleanerRow] BY DEF StorageInvariant, ItemsFit
<1>1. PICK i \in cleaners[c].todo :
        \/ /\ DeleteInternal(i) /\ AbortInternal(i)
           /\ cleaners' = [cleaners EXCEPT ![c].todo = @ \ {i}, ![c].done = @ \cup {i}]
        \/ /\ cleaners' = [cleaners EXCEPT ![c].todo = @ \ {i}, ![c].failed = @ \cup {i}]
           /\ UNCHANGED <<blobs, open>>
  BY DEF CleanItem
<1>2. PICK w : w = cleaners[c] OBVIOUS
<1>3. w \in CleanerRow /\ i \in w.todo /\ i \in ItemRow BY <1>1, <1>2, <1>t DEF CleanerRow
<1>4. ItemFits(grants, receipts, reserved, objects, i) BY <1>2, <1>3 DEF StorageInvariant, ItemsFit, Worked
<1>5. Moved /\ NewlyVerified /\ UploadsStay BY <1>u, StorageSets, NoneMoves DEF NewlyVerified, UploadsStay
<1>6. ReservedFit' BY <1>u DEF StorageInvariant, ReservedFit
<1>7. StoredWithinQuota' BY <1>u, <1>5, FewerLive
<1>8. GrantsFit' /\ ObjectsFit' /\ UploadsFit' BY <1>5, <1>u, CatalogStays DEF StorageInvariant, UploadsStay
<1>10. CASE /\ blobs' = (IF i.kind = "blob" THEN blobs \ {i.blob} ELSE blobs) /\ open' \subseteq open
            /\ cleaners' = [cleaners EXCEPT ![c].todo = @ \ {i}, ![c].done = @ \cup {i}]
  <2>1. PICK v : v = [w EXCEPT !.todo = @ \ {i}, !.done = @ \cup {i}] OBVIOUS
  <2>2. v \in CleanerRow BY <2>1, <1>3 DEF CleanerRow
  <2>3. v.todo = w.todo \ {i} /\ v.done = w.done \cup {i} /\ v.failed = w.failed BY <2>1, <1>3 DEF CleanerRow
  <2>4. cleaners' = [cleaners EXCEPT ![c] = v] BY <2>1, <1>2, <1>10
  <2>5. ItemsFit'
    <3>1. Worked(v) \subseteq Worked(cleaners[c]) BY <1>2, <1>3, <2>3 DEF Worked
    <3> QED BY <3>1, <2>2, <2>4, <1>u, WorkMoves
  <2>6. \A j : Finished(cleaners', j) => Finished(cleaners, j) \/ j = i
    <3>1. cleaners'[c] = v /\ \A d \in Cleaners : d # c => cleaners'[d] = cleaners[d] BY <2>4, <1>t
    <3> QED BY <3>1, <2>3, <1>2 DEF Finished
  <2>7. ASSUME NEW b \in blobs' \ strays', Pending(grants, reserved, cleanup, cleaners, b)
        PROVE  Pending(grants', reserved', cleanup', cleaners', b)
    <3>1. Queued(cleanup, cleaners, b) => Queued(cleanup', cleaners', b)
      <4> SUFFICES ASSUME NEW j \in cleanup, j.kind = "blob", j.blob = b, ~Finished(cleaners, j)
                   PROVE  Queued(cleanup', cleaners', b)
        BY DEF Queued
      <4>1. j # i BY <1>10, <2>7
      <4>2. ~Finished(cleaners', j) BY <4>1, <2>6
      <4> QED BY <4>2, <1>u DEF Queued
    <3> QED BY <3>1, <2>7, <1>u DEF Pending
  <2>8. blobs' \subseteq blobs BY <1>10
  <2>9. BlobsTracked' /\ DeletesFit' BY <2>7, <2>8, <1>5, <1>u, TrackedOn DEF StorageInvariant
  <2>10. \A b : Kept(grants, blobs \cup erased \cup {NoBlob}, b) /\ (i.kind = "blob" /\ b = i.blob => Twice(grants, b))
            => Kept(grants, blobs' \cup erased \cup {NoBlob}, b)
    BY <1>10 DEF Kept
  <2>11. ContentsKept'
    <3>1. ASSUME NEW k \in Objects PROVE Kept(grants, blobs' \cup erased \cup {NoBlob}, objects[k].blob)
      <4>1. i.kind = "blob" /\ objects[k].blob = i.blob => Twice(grants, i.blob) BY <1>3, <1>4, DeletedKept DEF Shown
      <4> QED BY <4>1, <2>10 DEF StorageInvariant, ContentsKept
    <3>2. ASSUME NEW n \in reserved, grants[n].step = "verified", grants[n].op \in {"upload", "complete"}
          PROVE  Kept(grants, blobs' \cup erased \cup {NoBlob}, grants[n].blob)
      <4>1. i.kind = "blob" /\ grants[n].blob = i.blob => Twice(grants, i.blob) BY <1>3, <1>4, <3>2, DeletedKept DEF Writes
      <4> QED BY <4>1, <3>2, <2>10 DEF StorageInvariant, ContentsKept
    <3> QED BY <3>1, <3>2, <1>u DEF ContentsKept
  <2>12. StorageTypeOK' BY <1>u, <1>10, <2>8 DEF StorageInvariant, StorageTypeOK
  <2> QED BY <1>6, <1>7, <1>8, <2>5, <2>9, <2>11, <2>12 DEF StorageInvariant
<1>11. CASE /\ cleaners' = [cleaners EXCEPT ![c].todo = @ \ {i}, ![c].failed = @ \cup {i}]
            /\ UNCHANGED <<blobs, open>>
  <2>1. PICK v : v = [w EXCEPT !.todo = @ \ {i}, !.failed = @ \cup {i}] OBVIOUS
  <2>2. v \in CleanerRow BY <2>1, <1>3 DEF CleanerRow
  <2>3. v.todo = w.todo \ {i} /\ v.failed = w.failed \cup {i} /\ v.done = w.done BY <2>1, <1>3 DEF CleanerRow
  <2>4. cleaners' = [cleaners EXCEPT ![c] = v] BY <2>1, <1>2, <1>11
  <2>5. ItemsFit'
    <3>1. Worked(v) \subseteq Worked(cleaners[c]) BY <1>2, <1>3, <2>3 DEF Worked
    <3> QED BY <3>1, <2>2, <2>4, <1>u, WorkMoves
  <2>6. \A j : Finished(cleaners', j) => Finished(cleaners, j)
    <3>1. cleaners'[c] = v /\ \A d \in Cleaners : d # c => cleaners'[d] = cleaners[d] BY <2>4, <1>t
    <3> QED BY <3>1, <2>3, <1>2 DEF Finished
  <2>7. \A b : Pending(grants, reserved, cleanup, cleaners, b) => Pending(grants', reserved', cleanup', cleaners', b)
    BY <2>6, <1>5, <1>u, StorageSets, PendingOn
  <2>8. SafeStep BY <1>5, <1>u, <1>11, <2>7 DEF SafeStep
  <2>9. StorageTypeOK' BY <1>u, <1>11 DEF StorageInvariant, StorageTypeOK
  <2> QED BY <1>6, <1>7, <2>5, <2>8, <2>9, SafeStepKeeps
<1>12. CASE DeleteInternal(i) /\ AbortInternal(i) /\ cleaners' = [cleaners EXCEPT ![c].todo = @ \ {i}, ![c].done = @ \cup {i}]
  BY <1>10, <1>12 DEF DeleteInternal, AbortInternal
<1> QED BY <1>1, <1>11, <1>12

\* A cleanup ends: what it finished stays finished.
LEMMA NoCleanerRow == NoCleaner \in CleanerRow /\ NoCleaner.done = {} /\ Worked(NoCleaner) = {}
BY DEF NoCleaner, CleanerRow, Worked

\* A cleaner that ends forgets its work; the queue stays as it was.
LEMMA EndedKeeps ==
  ASSUME ObjectStorageAssumption, StorageInvariant, NEW c \in Cleaners, cleaners' = [cleaners EXCEPT ![c] = NoCleaner],
         UNCHANGED <<objects, uploads, receipts, reserved, cleanup, grants, local, blobs, open, strays, erased>>
  PROVE  StorageInvariant'
<1>t. cleaners \in [Cleaners -> CleanerRow] BY DEF StorageInvariant, ItemsFit
<1>1. PICK v : v = NoCleaner OBVIOUS
<1>2. v \in CleanerRow /\ v.done = {} /\ Worked(v) = {} BY <1>1, NoCleanerRow
<1>3. ItemsFit' BY <1>1, <1>2, WorkMoves
<1>4. \A j : Finished(cleaners', j) => Finished(cleaners, j)
  <2>1. cleaners'[c] = v /\ \A d \in Cleaners : d # c => cleaners'[d] = cleaners[d] BY <1>1, <1>t
  <2> QED BY <2>1, <1>2 DEF Finished
<1>5. Moved /\ NewlyVerified /\ UploadsStay BY StorageSets, NoneMoves DEF NewlyVerified, UploadsStay
<1>6. \A b : Pending(grants, reserved, cleanup, cleaners, b) => Pending(grants', reserved', cleanup', cleaners', b)
  BY <1>4, <1>5, StorageSets, PendingOn
<1>7. SafeStep BY <1>5, <1>6 DEF SafeStep
<1>8. StorageTypeOK' BY DEF StorageInvariant, StorageTypeOK
<1>9. ReservedFit' BY DEF StorageInvariant, ReservedFit
<1>10. StoredWithinQuota' BY <1>5, FewerLive
<1> QED BY <1>3, <1>7, <1>8, <1>9, <1>10, SafeStepKeeps

\* The items of the queue change, and no unfinished one is dropped.
LEMMA RequeuedKeeps ==
  ASSUME ObjectStorageAssumption, StorageInvariant, NEW f, \A j \in cleanup : Follows(j, f[j]),
         \A r \in cleanup' : \E j \in cleanup : r = f[j],
         cleaners' \in [Cleaners -> CleanerRow], \A c \in Cleaners : Worked(cleaners'[c]) \subseteq Worked(cleaners[c]),
         \A j \in cleanup : j.kind = "blob" /\ ~Finished(cleaners, j) => f[j] \in cleanup' /\ ~Finished(cleaners', f[j]),
         UNCHANGED <<objects, uploads, receipts, reserved, grants, local, blobs, open, strays, erased>>
  PROVE  StorageInvariant'
<1>1. cleanup \subseteq ItemRow /\ ItemsOnce(cleanup) BY DEF StorageInvariant, StorageTypeOK, ItemRow, ItemsFit
<1>2. /\ cleanup' \subseteq ItemRow /\ ItemsOnce(cleanup')
      /\ \A i \in ItemRow : Tried(i, cleanup) => Tried(i, cleanup')
      /\ (\A j \in cleanup : ItemFits(grants, receipts, reserved, objects, j))
           => \A r \in cleanup' : ItemFits(grants, receipts, reserved, objects, r)
  <2> PICK R : R = cleanup' OBVIOUS
  <2>1. Reworks(cleanup, f, R) BY <1>1 DEF Reworks
  <2> QED BY <2>1, Reworked
<1>3. ItemsFit'
  <2>1. \A c \in Cleaners : \A i \in Worked(cleaners[c]) : i \in ItemRow
    <3>1. \A c \in Cleaners : cleaners[c] \in CleanerRow BY DEF StorageInvariant, ItemsFit
    <3> QED BY <3>1 DEF CleanerRow, Worked
  <2>2. \A c \in Cleaners : \A i \in Worked(cleaners'[c]) :
          ItemFits(grants, receipts, reserved, objects, i) /\ i.leased = 1 /\ Tried(i, cleanup')
    BY <2>1, <1>2 DEF StorageInvariant, ItemsFit
  <2>3. \A r \in cleanup' : ItemFits(grants, receipts, reserved, objects, r) BY <1>2 DEF StorageInvariant, ItemsFit
  <2> QED BY <1>2, <2>2, <2>3 DEF ItemsFit
<1>4. Moved /\ NewlyVerified /\ UploadsStay BY StorageSets, NoneMoves DEF NewlyVerified, UploadsStay
<1>5. ASSUME NEW b, Queued(cleanup, cleaners, b) PROVE Queued(cleanup', cleaners', b)
  <2>1. PICK j \in cleanup : j.kind = "blob" /\ j.blob = b /\ ~Finished(cleaners, j) BY <1>5 DEF Queued
  <2>2. f[j] \in cleanup' /\ ~Finished(cleaners', f[j]) BY <2>1
  <2>3. f[j].kind = "blob" /\ f[j].blob = b BY <2>1 DEF Follows
  <2> QED BY <2>2, <2>3 DEF Queued
<1>6. \A b : Pending(grants, reserved, cleanup, cleaners, b) => Pending(grants', reserved', cleanup', cleaners', b)
  BY <1>5 DEF Pending
<1>7. SafeStep BY <1>4, <1>6 DEF SafeStep
<1>8. StorageTypeOK' BY <1>2 DEF StorageInvariant, StorageTypeOK, ItemRow
<1>9. ReservedFit' BY DEF StorageInvariant, ReservedFit
<1>10. StoredWithinQuota' BY <1>4, FewerLive
<1> QED BY <1>3, <1>7, <1>8, <1>9, <1>10, SafeStepKeeps

LEMMA LeaseLapsesKeeps ==
  ASSUME ObjectStorageAssumption, StorageInvariant, NEW i \in cleanup, LeaseLapses(i)
  PROVE  StorageInvariant'
<1>1. /\ cleanup' = (cleanup \ {i}) \cup {Unleased(i)} /\ cleaners' = cleaners
      /\ UNCHANGED <<objects, uploads, receipts, reserved, grants, local, blobs, open, strays, erased>>
  BY DEF LeaseLapses, Unleased, Metadata, Provider
<1>2. cleanup \subseteq ItemRow BY DEF StorageInvariant, StorageTypeOK, ItemRow
<1>3. PICK f : f = [j \in cleanup |-> IF j = i THEN Unleased(i) ELSE j] OBVIOUS
<1>4. \A j \in cleanup : Follows(j, f[j]) BY <1>2, <1>3, ItemFollows
<1>5. \A r \in cleanup' : \E j \in cleanup : r = f[j] BY <1>1, <1>3
<1>6. \A j \in cleanup : f[j] \in cleanup' BY <1>1, <1>3
<1>7. \A j \in cleanup : ~Finished(cleaners, j) => ~Finished(cleaners', f[j])
  <2>1. Unleased(i).leased = 0 BY <1>2, ItemFollows
  <2>2. ~Finished(cleaners, Unleased(i)) BY <2>1, FinishedLeased DEF StorageInvariant
  <2> QED BY <2>2, <1>1, <1>3
<1>8. cleaners' \in [Cleaners -> CleanerRow] /\ \A c \in Cleaners : Worked(cleaners'[c]) \subseteq Worked(cleaners[c])
  BY <1>1 DEF StorageInvariant, ItemsFit
<1> QED BY <1>1, <1>4, <1>5, <1>6, <1>7, <1>8, RequeuedKeeps

LEMMA AckCleanupKeeps ==
  ASSUME ObjectStorageAssumption, StorageInvariant, NEW c \in Cleaners, AckCleanup(c)
  PROVE  StorageInvariant'
<1>1. PICK dn, fl : dn = cleaners[c].done /\ fl = cleaners[c].failed OBVIOUS
<1>u. /\ cleaners' = [cleaners EXCEPT ![c] = NoCleaner]
      /\ UNCHANGED <<objects, uploads, receipts, reserved, grants, local, blobs, open, strays, erased>>
  BY DEF AckCleanup, Metadata, Provider
<1>2. CASE ~(dn \cup fl \subseteq cleanup)
  <2>1. cleanup' = cleanup BY <1>1, <1>2 DEF AckCleanup
  <2> QED BY <1>u, <2>1, EndedKeeps
<1>3. CASE dn \cup fl \subseteq cleanup
  <2>1. cleanup' = (cleanup \ (dn \cup fl)) \cup {Unleased(i) : i \in fl} BY <1>1, <1>3 DEF AckCleanup, Unleased
  <2>2. cleanup \subseteq ItemRow BY DEF StorageInvariant, StorageTypeOK, ItemRow
  <2>3. PICK f : f = [j \in cleanup |-> IF j \in fl THEN Unleased(j) ELSE j] OBVIOUS
  <2>4. \A j \in cleanup : Follows(j, f[j]) BY <2>2, <2>3, ItemFollows
  <2>5. \A r \in cleanup' : \E j \in cleanup : r = f[j]
    <3> SUFFICES ASSUME NEW r \in cleanup' PROVE \E j \in cleanup : r = f[j] OBVIOUS
    <3>1. CASE r \in cleanup \ (dn \cup fl) BY <3>1, <2>3
    <3>2. CASE r \in {Unleased(i) : i \in fl} BY <3>2, <2>3, <1>3
    <3> QED BY <3>1, <3>2, <2>1
  <2>t. cleaners \in [Cleaners -> CleanerRow] BY DEF StorageInvariant, ItemsFit
  <2>6. PICK v : v = NoCleaner OBVIOUS
  <2>7. v \in CleanerRow /\ v.done = {} /\ Worked(v) = {} BY <2>6, NoCleanerRow
  <2>8. cleaners'[c] = v /\ \A d \in Cleaners : d # c => cleaners'[d] = cleaners[d] BY <2>6, <2>t, <1>u
  <2>9. cleaners' \in [Cleaners -> CleanerRow] BY <2>6, <2>7, <2>t, <1>u
  <2>10. \A d \in Cleaners : Worked(cleaners'[d]) \subseteq Worked(cleaners[d]) BY <2>7, <2>8
  <2>11. \A j : Finished(cleaners', j) => Finished(cleaners, j) BY <2>7, <2>8 DEF Finished
  <2>12. ASSUME NEW j \in cleanup, ~Finished(cleaners, j) PROVE f[j] \in cleanup' /\ ~Finished(cleaners', f[j])
    <3>1. j \notin dn BY <1>1, <2>12 DEF Finished
    <3>2. CASE j \in fl
      <4>1. f[j] = Unleased(j) /\ f[j] \in cleanup' BY <3>2, <2>1, <2>3
      <4>2. Unleased(j).leased = 0 BY <2>2, ItemFollows
      <4>3. ~Finished(cleaners, f[j]) BY <4>1, <4>2, FinishedLeased DEF StorageInvariant
      <4> QED BY <4>1, <4>3, <2>11
    <3>3. CASE j \notin fl BY <3>1, <3>3, <2>1, <2>3, <2>11, <2>12
    <3> QED BY <3>2, <3>3
  <2> QED BY <1>u, <2>4, <2>5, <2>9, <2>10, <2>12, RequeuedKeeps
<1> QED BY <1>2, <1>3

LEMMA CleanerStopsKeeps ==
  ASSUME ObjectStorageAssumption, StorageInvariant, NEW c \in Cleaners, CleanerStops(c)
  PROVE  StorageInvariant'
BY EndedKeeps DEF CleanerStops, Metadata, Provider

\* Expired reservations become items.
LEMMA PreparedFits ==
  ASSUME ObjectStorageAssumption, StorageInvariant, NEW held, held = Live(reserved)
  PROVE  /\ Prepared \subseteq ItemRow /\ ItemsOnce(Prepared)
         /\ \A i \in Prepared : ItemFits(grants, receipts, held, objects, i)
         /\ \A c \in Cleaners : \A i \in Worked(cleaners[c]) : ItemFits(grants, receipts, held, objects, i) /\ Tried(i, Prepared)
         /\ \A j \in Prepared : j \in cleanup \/ j.leased = 0
<1> DEFINE X == UNION {ItemsFor(n) : n \in reserved \ Live(reserved)}
           Y == {Item(NoBlob, "multipart", b) : b \in {x \in Blobs : uploads[x].over = 1}}
<1>2. Prepared = cleanup \cup X \cup Y BY DEF Prepared
<1>n. /\ reserved \subseteq Nonces /\ receipts \subseteq Nonces /\ held \subseteq reserved
      /\ \A n \in reserved : grants[n].step \notin Early /\ n \notin receipts
  BY StorageSets DEF StorageInvariant, ReservedFit, Live
<1>3. \A i \in Y : i \in ItemRow /\ i.kind = "multipart" /\ i.leased = 0
  <2>1. \A b \in Blobs : Item(NoBlob, "multipart", b) \in ItemRow BY ItemTyped
  <2>2. \A b : Item(NoBlob, "multipart", b).kind = "multipart" /\ Item(NoBlob, "multipart", b).leased = 0 BY DEF Item
  <2> QED BY <2>1, <2>2
<1>4. \A i \in X : \E n \in reserved \ held : i \in ItemsFor(n) OBVIOUS
<1> HIDE DEF X, Y
<1>5. ASSUME NEW n \in reserved
      PROVE  /\ ItemsFor(n) \subseteq ItemRow
             /\ \A i, j \in ItemsFor(n) : i = j
             /\ \A i \in ItemsFor(n) : i.from = n /\ i.leased = 0 /\ (i.kind = "blob" => Writes(grants[n], i.blob))
  <2>1. n \in Nonces /\ grants[n].step # "none" BY <1>n DEF Early
  <2>2. ItemsFor(n) \subseteq ItemRow BY <2>1, ItemsTyped
  <2>3. \A i, j \in ItemsFor(n) : i = j BY DEF ItemsFor
  <2>4. \A i \in ItemsFor(n) : i.from = n /\ i.leased = 0 /\ (i.kind = "blob" => Writes(grants[n], i.blob))
    BY DEF ItemsFor, Item, Writes
  <2> QED BY <2>2, <2>3, <2>4
<1>6. \A i \in X : /\ i \in ItemRow /\ i.leased = 0 /\ i.from \in reserved \ held
                   /\ (i.kind = "blob" => Writes(grants[i.from], i.blob))
  BY <1>4, <1>5, <1>n
<1>7. \A i, j \in X : i.from = j.from => i = j BY <1>4, <1>5, <1>n
<1>8. \A i : ItemFits(grants, receipts, reserved, objects, i) =>
        ItemFits(grants, receipts, held, objects, i) /\ ~(i.kind = "blob" /\ i.from \in reserved)
  BY <1>n DEF ItemFits
<1>9. /\ cleanup \subseteq ItemRow /\ ItemsOnce(cleanup)
      /\ \A i \in cleanup : ItemFits(grants, receipts, reserved, objects, i)
      /\ \A c \in Cleaners : \A i \in Worked(cleaners[c]) : ItemFits(grants, receipts, reserved, objects, i) /\ Tried(i, cleanup)
  BY DEF StorageInvariant, StorageTypeOK, ItemRow, ItemsFit
<1>10. Prepared \subseteq ItemRow
  <2>1. X \subseteq ItemRow /\ Y \subseteq ItemRow BY <1>3, <1>6
  <2>2. cleanup \subseteq ItemRow BY <1>9
  <2> QED BY <1>2, <2>1, <2>2
<1>11. ItemsOnce(Prepared)
  <2> SUFFICES ASSUME NEW i \in Prepared, NEW j \in Prepared, i.kind = "blob", j.kind = "blob", i.from = j.from PROVE i = j
    BY DEF ItemsOnce, SameWork
  <2>1. i \in cleanup \cup X /\ j \in cleanup \cup X BY <1>2, <1>3
  <2>2. CASE i \in X /\ j \in X BY <2>2, <1>7
  <2>3. CASE i \in cleanup /\ j \in cleanup BY <2>3, <1>9 DEF ItemsOnce, SameWork
  <2>4. CASE i \in X /\ j \in cleanup BY <2>4, <1>6, <1>8, <1>9
  <2>5. CASE i \in cleanup /\ j \in X BY <2>5, <1>6, <1>8, <1>9
  <2> QED BY <2>1, <2>2, <2>3, <2>4, <2>5
<1>12. ASSUME NEW i \in Prepared PROVE ItemFits(grants, receipts, held, objects, i)
  <2>1. CASE i \in cleanup BY <2>1, <1>8, <1>9
  <2>2. CASE i \in X
    <3>1. i.from \in Nonces \ held /\ grants[i.from].step \notin Early /\ i.from \notin receipts BY <2>2, <1>6, <1>n
    <3> QED BY <3>1, <2>2, <1>6 DEF ItemFits
  <2>3. CASE i \in Y BY <2>3, <1>3 DEF ItemFits
  <2> QED BY <2>1, <2>2, <2>3, <1>2, <1>12
<1>13. ASSUME NEW c \in Cleaners, NEW i \in Worked(cleaners[c])
       PROVE  ItemFits(grants, receipts, held, objects, i) /\ Tried(i, Prepared)
  <2>1. ItemFits(grants, receipts, held, objects, i) /\ ~(i.kind = "blob" /\ i.from \in reserved) /\ Tried(i, cleanup)
    BY <1>8, <1>9
  <2>2. Tried(i, Prepared)
    <3> SUFFICES ASSUME NEW j \in Prepared, SameWork(i, j) PROVE i.tries <= j.tries BY DEF Tried
    <3>1. j \notin Y /\ j \notin X BY <1>3, <1>6, <2>1 DEF SameWork
    <3> QED BY <3>1, <1>2, <2>1 DEF Tried
  <2> QED BY <2>1, <2>2
<1>14. \A j \in Prepared : j \in cleanup \/ j.leased = 0 BY <1>2, <1>3, <1>6
<1> QED BY <1>10, <1>11, <1>12, <1>13, <1>14

\* cleanup_claim_sync: an item that is leased has been tried more often than
\* any that is still worked on.
LEMMA ClaimCleanupKeeps ==
  ASSUME ObjectStorageAssumption, StorageInvariant, NEW c \in Cleaners, ClaimCleanup(c)
  PROVE  StorageInvariant'
<1>1. PICK P, K : P = Prepared /\ K = {Claimed(i) : i \in {x \in Prepared : Claimable(x)}} OBVIOUS
<1>u. /\ cleanup' = {i \in P : ~Claimable(i)} \cup K
      /\ cleaners' = [cleaners EXCEPT ![c] = [NoCleaner EXCEPT !.todo = K]]
      /\ reserved' = Live(reserved)
      /\ uploads' = [b \in Blobs |-> IF uploads[b].over = 1 THEN NoUpload ELSE uploads[b]]
      /\ UNCHANGED <<objects, receipts, grants, local, blobs, open, strays, erased>>
  BY <1>1 DEF ClaimCleanup, Claimed, Provider
<1>2. PICK held : held = Live(reserved) OBVIOUS
<1>p. /\ P \subseteq ItemRow /\ ItemsOnce(P)
      /\ \A i \in P : ItemFits(grants, receipts, held, objects, i)
      /\ \A d \in Cleaners : \A i \in Worked(cleaners[d]) : ItemFits(grants, receipts, held, objects, i) /\ Tried(i, P)
      /\ \A j \in P : j \in cleanup \/ j.leased = 0
  BY <1>1, <1>2, PreparedFits
<1>n. reserved \subseteq Nonces /\ receipts \subseteq Nonces /\ held \subseteq reserved BY <1>2, StorageSets DEF Live
<1>3. PICK f : f = [j \in P |-> IF Claimable(j) THEN Claimed(j) ELSE j] OBVIOUS
<1>4. \A j \in P : /\ Follows(j, f[j]) /\ f[j] \in cleanup'
                   /\ Claimable(j) => f[j] \in K /\ f[j].leased = 1 /\ f[j].tries = j.tries + 1
                   /\ ~Claimable(j) => f[j] = j
  <2> SUFFICES ASSUME NEW j \in P
               PROVE  /\ Follows(j, f[j]) /\ f[j] \in cleanup'
                      /\ Claimable(j) => f[j] \in K /\ f[j].leased = 1 /\ f[j].tries = j.tries + 1
                      /\ ~Claimable(j) => f[j] = j
    OBVIOUS
  <2>1. j \in ItemRow BY <1>p
  <2>2. CASE Claimable(j)
    <3>1. f[j] = Claimed(j) /\ Claimed(j) \in K BY <2>2, <1>1, <1>3
    <3>2. j.tries < MaxTries BY <2>2 DEF Claimable
    <3>3. Follows(j, Claimed(j)) /\ Claimed(j).leased = 1 /\ Claimed(j).tries = j.tries + 1 BY <2>1, <3>2, ItemFollows
    <3> QED BY <3>1, <3>3, <2>2, <1>u
  <2>3. CASE ~Claimable(j)
    <3>1. f[j] = j /\ j \in cleanup' BY <2>3, <1>3, <1>u
    <3> QED BY <3>1, <2>1, <2>3, ItemFollows
  <2> QED BY <2>2, <2>3
<1>5. /\ \A r \in K : \E j \in P : Claimable(j) /\ r = f[j]
      /\ \A r \in cleanup' : \E j \in P : r = f[j]
  BY <1>1, <1>3, <1>u
<1>6. /\ cleanup' \subseteq ItemRow /\ ItemsOnce(cleanup')
      /\ \A i \in ItemRow : Tried(i, P) => Tried(i, cleanup')
      /\ \A i, r \in cleanup' : SameWork(i, r) => i.tries <= r.tries
      /\ \A r \in cleanup' : ItemFits(grants, receipts, held, objects, r)
  <2> PICK R : R = cleanup' OBVIOUS
  <2>1. Reworks(P, f, R) BY <1>4, <1>5, <1>p DEF Reworks
  <2>2. /\ R \subseteq ItemRow /\ ItemsOnce(R)
        /\ \A i \in ItemRow : Tried(i, P) => Tried(i, R)
        /\ \A i, r \in R : SameWork(i, r) => i.tries <= r.tries
    BY <2>1, Reworked
  <2>3. \A r \in R : ItemFits(grants, receipts, held, objects, r) BY <2>1, <1>p, Reworked
  <2> QED BY <2>2, <2>3
<1>7. K \subseteq cleanup' /\ \A i \in K : i.leased = 1 BY <1>u, <1>4, <1>5
<1>t. cleaners \in [Cleaners -> CleanerRow] BY DEF StorageInvariant, ItemsFit
<1>8. PICK v : v = [NoCleaner EXCEPT !.todo = K] OBVIOUS
<1>9. v \in CleanerRow /\ v.done = {} /\ Worked(v) = K
  <2>1. K \subseteq ItemRow BY <1>6, <1>7
  <2>2. v = [todo |-> K, done |-> {}, failed |-> {}] BY <1>8 DEF NoCleaner
  <2> QED BY <2>1, <2>2 DEF CleanerRow, Worked
<1>10. /\ cleaners' \in [Cleaners -> CleanerRow]
       /\ cleaners'[c] = v /\ \A d \in Cleaners : d # c => cleaners'[d] = cleaners[d]
  BY <1>8, <1>9, <1>t, <1>u
<1>11. ItemsFit'
  <2>1. ASSUME NEW d \in Cleaners, NEW i \in Worked(cleaners'[d])
        PROVE  ItemFits(grants, receipts, held, objects, i) /\ i.leased = 1 /\ Tried(i, cleanup')
    <3>1. CASE d = c
      <4>1. i \in K /\ i \in cleanup' BY <3>1, <2>1, <1>7, <1>9, <1>10
      <4> QED BY <4>1, <1>6, <1>7 DEF Tried
    <3>2. CASE d # c
      <4>1. i \in Worked(cleaners[d]) /\ cleaners[d] \in CleanerRow BY <3>2, <2>1, <1>10, <1>t
      <4>2. i \in ItemRow BY <4>1 DEF CleanerRow, Worked
      <4>3. i.leased = 1 BY <4>1 DEF StorageInvariant, ItemsFit
      <4> QED BY <4>1, <4>2, <4>3, <1>p, <1>6
    <3> QED BY <3>1, <3>2
  <2> QED BY <2>1, <1>2, <1>6, <1>10, <1>u DEF ItemsFit
<1>12. \A j : Finished(cleaners', j) => Finished(cleaners, j) BY <1>9, <1>10 DEF Finished
<1>13. ASSUME NEW j \in P, j.kind = "blob", ~Finished(cleaners, j) PROVE ~Finished(cleaners', f[j])
  <2>1. CASE ~Claimable(j) BY <2>1, <1>4, <1>12, <1>13
  <2>2. CASE Claimable(j)
    <3> SUFFICES ASSUME Finished(cleaners, f[j]) PROVE FALSE BY <1>12
    <3>1. PICK d \in Cleaners : f[j] \in cleaners[d].done BY DEF Finished
    <3>2. Tried(f[j], P) BY <3>1, <1>p DEF Worked
    <3>3. SameWork(f[j], j) /\ f[j].tries = j.tries + 1 BY <2>2, <1>4, <1>13 DEF Follows, SameWork
    <3>4. f[j].tries <= j.tries BY <3>2, <3>3 DEF Tried
    <3>5. j.tries \in Nat BY <1>p, ItemFields
    <3> QED BY <3>3, <3>4, <3>5
  <2> QED BY <2>1, <2>2
<1>14. ASSUME NEW b, NEW j \in P, j.kind = "blob", j.blob = b, ~Finished(cleaners, j) PROVE Queued(cleanup', cleaners', b)
  <2>1. f[j] \in cleanup' /\ f[j].kind = "blob" /\ f[j].blob = b BY <1>4, <1>14 DEF Follows
  <2>2. ~Finished(cleaners', f[j]) BY <1>13, <1>14
  <2> QED BY <2>1, <2>2 DEF Queued
<1>15. cleanup \subseteq P /\ \A n \in reserved \ held : ItemsFor(n) \subseteq P BY <1>1, <1>2 DEF Prepared
<1>16. ASSUME NEW b, Pending(grants, reserved, cleanup, cleaners, b)
       PROVE  Pending(grants', reserved', cleanup', cleaners', b)
  <2>1. CASE Queued(cleanup, cleaners, b) BY <2>1, <1>14, <1>15 DEF Queued, Pending
  <2>2. ASSUME NEW n \in reserved, Writes(grants[n], b) PROVE Pending(grants', reserved', cleanup', cleaners', b)
    <3>1. CASE n \in held BY <3>1, <2>2, <1>2, <1>u DEF Pending, Awaited
    <3>2. CASE n \notin held
      <4>1. PICK j : j = Item(n, "blob", b) OBVIOUS
      <4>2. j \in P BY <3>2, <2>2, <4>1, <1>15 DEF ItemsFor, Writes
      <4>3. j.kind = "blob" /\ j.blob = b /\ j.leased = 0 BY <4>1 DEF Item
      <4>4. ~Finished(cleaners, j) BY <4>3, FinishedLeased DEF StorageInvariant
      <4> QED BY <4>2, <4>3, <4>4, <1>14 DEF Pending
    <3> QED BY <3>1, <3>2
  <2> QED BY <1>16, <2>1, <2>2 DEF Pending, Awaited
<1>17. Moved /\ NewlyVerified BY <1>u, StorageSets, NoneMoves DEF NewlyVerified
<1>18. UploadsStay BY <1>u DEF UploadsStay
<1>19. SafeStep BY <1>u, <1>2, <1>n, <1>16, <1>17, <1>18 DEF SafeStep
<1>20. StorageTypeOK'
  <2>1. uploads \in [Blobs -> UploadRow] BY DEF StorageInvariant, StorageTypeOK, UploadRow
  <2>2. NoUpload \in UploadRow BY DEF NoUpload, UploadRow
  <2>3. uploads' \in [Blobs -> UploadRow] BY <2>1, <2>2, <1>u
  <2> QED BY <2>3, <1>u, <1>n, <1>2, <1>6 DEF StorageInvariant, StorageTypeOK, UploadRow, ItemRow
<1>21. ReservedFit' BY <1>u, <1>2, <1>n DEF StorageInvariant, ReservedFit
<1>22. StoredWithinQuota' BY <1>u, <1>2, <1>n, <1>17, FewerLive
<1> QED BY <1>11, <1>19, <1>20, <1>21, <1>22, SafeStepKeeps

-----------------------------------------------------------------------------
(* The commit: one transaction.                                              *)

Commits(n) ==
  /\ grants[n].step = "verified" /\ n \in reserved /\ n \notin receipts /\ grants[n].over = 0
  /\ reserved' = reserved \ {n} /\ receipts' = receipts \cup {n}
  /\ UNCHANGED <<cleaners, blobs, strays, erased>> /\ local' \subseteq local /\ open' \subseteq open
  /\ Moved /\ grants'[n].step \in {"committed", "granted"}
  /\ \A m \in Nonces : m # n => grants'[m] = grants[m]

LEMMA CommitCommits ==
  ASSUME StorageInvariant, NEW n \in Nonces, Commit(n)
  PROVE  Commits(n)
<1>1. /\ grants[n].step = "verified" /\ n \in reserved /\ n \notin receipts /\ grants[n].over = 0
      /\ reserved' = reserved \ {n} /\ receipts' = receipts \cup {n}
      /\ UNCHANGED <<cleaners, blobs, strays, erased>> /\ local' \subseteq local /\ open' \subseteq open
  BY DEF Commit, At, Receipted, Consume, Receipt, Forget, AbortCreated
<1>2. CASE Step(n, "committed") BY <1>1, <1>2, StorageSets, StepMoves DEF Commits, Early
<1>3. CASE Step(n, "granted") BY <1>1, <1>3, StorageSets, StepMoves DEF Commits, Early
<1> QED BY <1>2, <1>3 DEF Commit

\* What the grant writes has not been committed before.
FirstCommit(n) == \A b \in Blobs : Writes(grants[n], b) => ~Committed(grants, receipts, b)

LEMMA CommitSets ==
  ASSUME StorageInvariant, NEW n \in Nonces, Commits(n)
  PROVE  /\ receipts \subseteq Nonces /\ reserved \subseteq Nonces /\ receipts' \subseteq Nonces
         /\ receipts \subseteq receipts' /\ Moved
         /\ grants[n].op # "none" /\ grants[n].key \in Objects /\ grants[n].blob \in Blobs
         /\ GrantFits(grants, receipts, grants[n]) /\ grants[n] \in GrantRow
         /\ \A b : Committed(grants', receipts', b) => Committed(grants, receipts, b) \/ Writes(grants[n], b)
         /\ \A b : Writes(grants[n], b) => Committed(grants', receipts', b)
         /\ \A b : Committed(grants, receipts, b) => Committed(grants', receipts', b)
         /\ \A key, b, old, size : Created(grants, receipts, key, b, old, size) => Created(grants', receipts', key, b, old, size)
<1>1. /\ receipts \subseteq Nonces /\ reserved \subseteq Nonces /\ receipts' \subseteq Nonces
      /\ receipts \subseteq receipts' /\ Moved
  BY StorageSets DEF Commits
<1>2. grants[n].op # "none" /\ grants[n].key \in Objects /\ grants[n].blob \in Blobs BY GrantUsed DEF Commits
<1>3. GrantFits(grants, receipts, grants[n]) /\ grants[n] \in GrantRow BY DEF StorageInvariant, GrantsFit
<1>4. \A m \in Nonces : \A b : Writes(grants'[m], b) <=> Writes(grants[m], b) BY <1>1, MovedSame
<1>5. \A b : Committed(grants', receipts', b) => Committed(grants, receipts, b) \/ Writes(grants[n], b)
  BY <1>1, <1>4 DEF Committed, Commits
<1>6. \A b : Writes(grants[n], b) => Committed(grants', receipts', b) BY <1>4 DEF Committed, Commits
<1>7. \A b : Committed(grants, receipts, b) => Committed(grants', receipts', b) BY <1>1, <1>4 DEF Committed
<1>8. \A key, b, old, size : Created(grants, receipts, key, b, old, size) => Created(grants', receipts', key, b, old, size)
  <2> PICK rs, ss : rs = receipts /\ ss = receipts' OBVIOUS
  <2>1. rs \in SUBSET Nonces /\ ss \in SUBSET Nonces /\ rs \subseteq ss BY <1>1
  <2> QED BY <1>1, <2>1, MovedReceipts
<1> QED BY <1>1, <1>2, <1>3, <1>5, <1>6, <1>7, <1>8

\* A commit (commit): its grant gets a receipt and keeps its promises;
LEMMA CommitGrants ==
  ASSUME StorageInvariant, NEW n \in Nonces, Commits(n)
  PROVE  GrantsFit' /\ ReservedFit'
<1>s. receipts \subseteq Nonces /\ reserved \subseteq Nonces /\ receipts' \subseteq Nonces /\ receipts \subseteq receipts' /\ Moved
  BY CommitSets
<1>1. grants' \in [Nonces -> GrantRow] BY <1>s DEF Moved
<1>2. \A m \in Nonces : GrantFits(grants', receipts', grants'[m])
  <2> SUFFICES ASSUME NEW m \in Nonces PROVE GrantFits(grants', receipts', grants'[m]) OBVIOUS
  <2>1. GrantFits(grants, receipts, grants[m]) BY DEF StorageInvariant, GrantsFit
  <2> PICK rs, ss : rs = receipts /\ ss = receipts' OBVIOUS
  <2>2. rs \in SUBSET Nonces /\ ss \in SUBSET Nonces /\ rs \subseteq ss BY <1>s
  <2> QED BY <2>1, <2>2, <1>s, FitsOn
<1>o. StartedOnce(grants, receipts) BY DEF StorageInvariant, GrantsFit
<1>3. \A m \in Nonces : \A b : Starts(grants'[m], b) <=> Starts(grants[m], b) BY <1>s, MovedSame
<1>4. ASSUME NEW m \in Nonces, NEW b \in Blobs, Starts(grants[m], b), Committed(grants', receipts', b) PROVE m \in receipts'
  <2>1. CASE Committed(grants, receipts, b) BY <2>1, <1>4, <1>o, <1>s DEF StartedOnce
  <2>2. CASE Writes(grants[n], b) /\ grants[n].op = "upload"
    <3>1. Starts(grants[n], b) BY <2>2 DEF Starts, Writes
    <3>2. m = n BY <3>1, <1>4, <1>o DEF StartedOnce
    <3> QED BY <3>2 DEF Commits
  <2>3. CASE Writes(grants[n], b) /\ grants[n].op = "complete"
    <3>1. Created(grants, receipts, grants[n].key, b, grants[n].old, grants[n].size)
      BY <2>3, CommitSets DEF GrantFits, Writes
    <3>2. PICK l \in receipts : grants[l].op = "create" /\ grants[l].blob = b BY <3>1 DEF Created
    <3>3. l \in Nonces /\ Starts(grants[l], b) BY <3>2, <1>s DEF Starts
    <3>4. m = l BY <3>3, <1>4, <1>o DEF StartedOnce
    <3> QED BY <3>4, <1>s
  <2> QED BY <2>1, <2>2, <2>3, <1>4, CommitSets DEF Writes
<1>5. StartedOnce(grants', receipts') BY <1>3, <1>4, <1>o DEF StartedOnce
<1>6. GrantsFit' BY <1>1, <1>2, <1>5 DEF GrantsFit
<1>7. ReservedFit'
  <2>1. reserved' \cap receipts' = {} BY DEF StorageInvariant, ReservedFit, Commits
  <2>2. \A m \in reserved' \cup receipts' : m \in Nonces /\ grants[m].step \notin Early
    BY <1>s DEF StorageInvariant, ReservedFit, Commits
  <2>3. \A m \in reserved' \cup receipts' : grants'[m].step \notin Early BY <2>2, <1>s DEF Moved, GoesOn
  <2> QED BY <2>1, <2>3 DEF ReservedFit
<1> QED BY <1>6, <1>7

\* The items that wait are not about the grant, nor about what it writes.
LEMMA CommitCarries ==
  ASSUME StorageInvariant, NEW n \in Nonces, Commits(n),
         \A k \in Objects : Committed(grants, receipts, objects'[k].blob) => Shown(objects, objects'[k].blob)
  PROVE  CarriesNow
BY DEF Commits, CarriesNow, Carries

\* An upload in progress that the commit leaves in progress.
LEMMA CommitUploads ==
  ASSUME StorageInvariant, NEW n \in Nonces, Commits(n), NEW b \in Blobs, uploads[b] # NoUpload, ~Writes(grants[n], b)
  PROVE  /\ ~Committed(grants', receipts', b)
         /\ Created(grants', receipts', uploads[b].key, b, uploads[b].old, uploads[b].size)
<1>1. UploadFits(grants, receipts, b, uploads[b]) BY DEF StorageInvariant, UploadsFit
<1> QED BY <1>1, CommitSets DEF UploadFits

\* What was kept is kept; the contents committed now are.
LEMMA CommitContents ==
  ASSUME StorageInvariant, NEW n \in Nonces, Commits(n),
         \A k \in Objects : \/ objects'[k].blob \in {objects[k].blob, NoBlob}
                            \/ grants[n].op \in {"upload", "complete"} /\ objects'[k].blob = grants[n].blob
  PROVE  ContentsKept'
<1>1. \A b : Kept(grants, blobs \cup erased \cup {NoBlob}, b) => Kept(grants', blobs' \cup erased' \cup {NoBlob}, b)
  BY MovedSame DEF Kept, Commits
<1>2. Kept(grants, blobs \cup erased \cup {NoBlob}, NoBlob) BY DEF Kept
<1>3. grants[n].op \in {"upload", "complete"} => Kept(grants, blobs \cup erased \cup {NoBlob}, grants[n].blob)
  BY DEF StorageInvariant, ContentsKept, Commits
<1>4. \A k \in Objects : Kept(grants', blobs' \cup erased' \cup {NoBlob}, objects'[k].blob)
  BY <1>1, <1>2, <1>3 DEF StorageInvariant, ContentsKept
<1>5. ASSUME NEW m \in reserved', grants'[m].step = "verified", grants'[m].op \in {"upload", "complete"}
      PROVE  Kept(grants', blobs' \cup erased' \cup {NoBlob}, grants'[m].blob)
  <2>1. m \in reserved /\ m \in Nonces /\ m # n BY StorageSets DEF Commits
  <2>2. grants'[m] = grants[m] BY <2>1 DEF Commits
  <2>3. Kept(grants, blobs \cup erased \cup {NoBlob}, grants[m].blob)
    BY <2>1, <2>2, <1>5 DEF StorageInvariant, ContentsKept
  <2> QED BY <2>2, <2>3, <1>1
<1> QED BY <1>4, <1>5 DEF ContentsKept

\* What is pending stays so, unless the grant itself was awaited.
LEMMA CommitPending ==
  ASSUME StorageInvariant, NEW n \in Nonces, Commits(n), cleanup \subseteq cleanup', NEW b,
         Pending(grants, reserved, cleanup, cleaners, b), ~Writes(grants[n], b)
  PROVE  Pending(grants', reserved', cleanup', cleaners', b)
<1>1. Queued(cleanup, cleaners, b) => Queued(cleanup', cleaners', b) BY DEF Queued, Commits
<1>2. Awaited(grants, reserved, b) => Awaited(grants', reserved', b)
  <2> SUFFICES ASSUME NEW m \in reserved, Writes(grants[m], b) PROVE Awaited(grants', reserved', b) BY DEF Awaited
  <2>1. m # n /\ m \in Nonces BY StorageSets
  <2>2. m \in reserved' /\ grants'[m] = grants[m] BY <2>1 DEF Commits
  <2> QED BY <2>2 DEF Awaited
<1> QED BY <1>1, <1>2 DEF Pending

\* A deletion is of committed contents, so none waits for the grant.
LEMMA CommitDeletes ==
  ASSUME StorageInvariant, NEW n \in Nonces, Commits(n), FirstCommit(n), cleanup \subseteq cleanup'
  PROVE  DeletesFit'
<1> SUFFICES ASSUME NEW m \in Nonces, grants'[m].op = "delete", grants'[m].step = "verified",
                    grants'[m].blob \in blobs' \ strays'
             PROVE  Pending(grants', reserved', cleanup', cleaners', grants'[m].blob)
  BY DEF DeletesFit
<1>1. m # n BY DEF Commits
<1>2. grants'[m] = grants[m] /\ grants[m].blob \in blobs \ strays BY <1>1 DEF Commits
<1>3. Pending(grants, reserved, cleanup, cleaners, grants[m].blob) BY <1>2 DEF StorageInvariant, DeletesFit
<1>4. Committed(grants, receipts, grants[m].blob) BY <1>2 DEF StorageInvariant, GrantsFit, GrantFits
<1>5. grants[m].blob \in Blobs BY <1>2, StorageSets
<1>6. ~Writes(grants[n], grants[m].blob) BY <1>4, <1>5 DEF FirstCommit
<1> QED BY <1>2, <1>3, <1>6, CommitPending

\* Objects stay: an upload is created, gets a part or ends.
LEMMA StageKeeps ==
  ASSUME ObjectStorageAssumption, StorageInvariant, NEW n \in Nonces, Commits(n),
         grants[n].op \in {"create", "part", "abort"}, objects' = objects, cleanup' = cleanup,
         uploads' \in [Blobs -> UploadRow], UploadsFit'
  PROVE  StorageInvariant'
<1>1. \A b : ~Writes(grants[n], b) BY DEF Writes
<1>2. \A b : Committed(grants', receipts', b) <=> Committed(grants, receipts, b) BY <1>1, CommitSets
<1>3. GrantsFit' /\ ReservedFit' BY CommitGrants
<1>4. ObjectsFit'
  <2> SUFFICES ASSUME NEW k \in Objects PROVE ObjectFits(grants', receipts', k, objects[k]) BY DEF ObjectsFit
  <2>1. ObjectFits(grants, receipts, k, objects[k]) BY DEF StorageInvariant, ObjectsFit
  <2> QED BY <2>1, <1>2, MovedSame DEF ObjectFits, Commits
<1>5. CarriesNow BY CommitCarries DEF Shown
<1>6. ItemsFit' BY <1>5, CommitSets, ItemsStay DEF StorageInvariant, Commits
<1>7. \A b : Pending(grants, reserved, cleanup, cleaners, b) => Pending(grants', reserved', cleanup', cleaners', b)
  BY <1>1, CommitPending
<1>8. BlobsTracked' BY <1>7 DEF StorageInvariant, BlobsTracked, Shown, Commits
<1>9. DeletesFit' BY <1>1, CommitDeletes DEF FirstCommit
<1>10. ContentsKept' BY CommitContents
<1>11. StoredWithinQuota' BY FewerLive DEF Commits
<1>12. StorageTypeOK' BY CommitSets DEF StorageInvariant, StorageTypeOK, UploadRow, Commits
<1> QED BY <1>3, <1>4, <1>6, <1>8, <1>9, <1>10, <1>11, <1>12 DEF StorageInvariant

LEMMA UploadsTyped == ASSUME StorageInvariant PROVE uploads \in [Blobs -> UploadRow]
BY DEF StorageInvariant, StorageTypeOK, UploadRow

\* All uploads but one stay.
LEMMA OtherUploads ==
  ASSUME StorageInvariant, NEW n \in Nonces, Commits(n), NEW b \in Blobs, \A x \in Blobs : x # b => ~Writes(grants[n], x),
         NEW u \in UploadRow, uploads' = [uploads EXCEPT ![b] = u],
         u = NoUpload \/ (~Committed(grants', receipts', b) /\ Created(grants', receipts', u.key, b, u.old, u.size))
  PROVE  uploads' \in [Blobs -> UploadRow] /\ UploadsFit'
<1>1. uploads' \in [Blobs -> UploadRow] /\ uploads'[b] = u /\ \A x \in Blobs : x # b => uploads'[x] = uploads[x]
  BY UploadsTyped
<1>2. UploadsFit'
  <2> SUFFICES ASSUME NEW x \in Blobs, uploads'[x] # NoUpload
               PROVE  ~Committed(grants', receipts', x) /\ Created(grants', receipts', uploads'[x].key, x, uploads'[x].old, uploads'[x].size)
    BY DEF UploadsFit, UploadFits
  <2>1. CASE x = b BY <2>1, <1>1
  <2>2. CASE x # b
    <3>1. uploads'[x] = uploads[x] /\ ~Writes(grants[n], x) BY <2>2, <1>1
    <3> QED BY <3>1, CommitUploads
  <2> QED BY <2>1, <2>2
<1> QED BY <1>1, <1>2

LEMMA NoUploadRow == NoUpload \in UploadRow
BY DEF NoUpload, UploadRow

\* of a multipart upload's creation,
LEMMA CommitCreateKeeps ==
  ASSUME ObjectStorageAssumption, StorageInvariant, NEW n \in Nonces, Commits(n), CommitCreate(n)
  PROVE  StorageInvariant'
<1>1. PICK key, b, old, size : key = grants[n].key /\ b = grants[n].blob /\ old = grants[n].old /\ size = grants[n].size OBVIOUS
<1>2. grants[n].op = "create" /\ objects' = objects /\ cleanup' = cleanup BY DEF CommitCreate
<1>3. PICK u : u = [NoUpload EXCEPT !.key = key, !.old = old, !.size = size] OBVIOUS
<1>4. uploads' = [uploads EXCEPT ![b] = u] BY <1>1, <1>3 DEF CommitCreate
<1>5. key \in Objects /\ b \in Blobs /\ old \in Blobs \cup {NoBlob} /\ size \in Sizes \cup {0}
  <2>1. grants[n] \in GrantRow BY CommitSets
  <2>2. grants[n].old \in Blobs \cup {NoBlob} /\ grants[n].size \in Sizes \cup {0} BY <2>1 DEF GrantRow
  <2> QED BY <1>1, <2>2, CommitSets
<1>6. u \in UploadRow /\ u.key = key /\ u.old = old /\ u.size = size
  <2>1. PICK K, B, Z : K = Objects \cup {NoBlob} /\ B = Blobs \cup {NoBlob} /\ Z = Sizes \cup {0} OBVIOUS
  <2>2. UploadRow = [key : K, old : B, size : Z, parts : {0, 1}, over : {0, 1}] BY <2>1 DEF UploadRow
  <2>3. key \in K /\ old \in B /\ size \in Z BY <2>1, <1>5
  <2>4. PICK e : e = NoUpload OBVIOUS
  <2>5. e \in UploadRow BY <2>4, NoUploadRow
  <2> QED BY <1>3, <2>2, <2>3, <2>4, <2>5
<1>7. \A x : ~Writes(grants[n], x) BY <1>2 DEF Writes
<1>8. ~Committed(grants', receipts', b)
  <2>1. Starts(grants[n], b) BY <1>1, <1>2 DEF Starts
  <2>2. ~Committed(grants, receipts, b) BY <2>1, <1>5 DEF StorageInvariant, GrantsFit, StartedOnce, Commits
  <2> QED BY <2>2, <1>7, CommitSets
<1>9. Created(grants', receipts', key, b, old, size)
  <2>1. /\ grants'[n].op = "create" /\ grants'[n].key = key /\ grants'[n].blob = b /\ grants'[n].old = old
        /\ grants'[n].size = size
    BY <1>1, <1>2 DEF Commits, Moved, GoesOn
  <2> QED BY <2>1 DEF Created, Commits
<1>10. uploads' \in [Blobs -> UploadRow] /\ UploadsFit' BY <1>4, <1>5, <1>6, <1>7, <1>8, <1>9, OtherUploads
<1> QED BY <1>2, <1>10, StageKeeps

\* of a part,
LEMMA CommitPartKeeps ==
  ASSUME ObjectStorageAssumption, StorageInvariant, NEW n \in Nonces, Commits(n), CommitPart(n)
  PROVE  StorageInvariant'
<1>1. PICK b : b = grants[n].blob OBVIOUS
<1>2. grants[n].op = "part" /\ objects' = objects /\ cleanup' = cleanup /\ uploads[b] # NoUpload /\ b \in Blobs
  BY <1>1, CommitSets DEF CommitPart, InProgress
<1>3. PICK v : v = uploads[b] OBVIOUS
<1>4. PICK u : u = [v EXCEPT !.parts = 1] OBVIOUS
<1>5. uploads' = [uploads EXCEPT ![b] = u] BY <1>1, <1>3, <1>4 DEF CommitPart
<1>6. v \in UploadRow BY <1>2, <1>3, UploadsTyped
<1>7. u \in UploadRow /\ u.key = v.key /\ u.old = v.old /\ u.size = v.size BY <1>4, <1>6 DEF UploadRow
<1>8. \A x : ~Writes(grants[n], x) BY <1>2 DEF Writes
<1>9. ~Committed(grants', receipts', b) /\ Created(grants', receipts', u.key, b, u.old, u.size)
  BY <1>2, <1>3, <1>7, <1>8, CommitUploads
<1>10. uploads' \in [Blobs -> UploadRow] /\ UploadsFit' BY <1>2, <1>5, <1>7, <1>8, <1>9, OtherUploads
<1> QED BY <1>2, <1>10, StageKeeps

\* of its abort,
LEMMA CommitAbortKeeps ==
  ASSUME ObjectStorageAssumption, StorageInvariant, NEW n \in Nonces, Commits(n), CommitAbort(n)
  PROVE  StorageInvariant'
<1>1. PICK b, u : b = grants[n].blob /\ u = NoUpload OBVIOUS
<1>2. grants[n].op = "abort" /\ objects' = objects /\ cleanup' = cleanup /\ b \in Blobs
  BY <1>1, CommitSets DEF CommitAbort
<1>3. uploads' = [uploads EXCEPT ![b] = u] /\ u \in UploadRow BY <1>1, NoUploadRow DEF CommitAbort
<1>4. \A x : ~Writes(grants[n], x) BY <1>2 DEF Writes
<1>5. uploads' \in [Blobs -> UploadRow] /\ UploadsFit' BY <1>1, <1>2, <1>3, <1>4, OtherUploads
<1> QED BY <1>2, <1>5, StageKeeps

-----------------------------------------------------------------------------
(* An object changes.                                                        *)

\* The contents of a provider key have one size.
LEMMA SizedOnce ==
  ASSUME ObjectStorageAssumption, StorageInvariant, NEW b \in Blobs \cup {NoBlob}, NEW y, NEW z, Sized(grants, b, y), Sized(grants, b, z)
  PROVE  y = z
<1>1. CASE b = NoBlob
  <2>1. \A n \in Nonces : ~Starts(grants[n], NoBlob)
    <3> SUFFICES ASSUME NEW n \in Nonces, Starts(grants[n], NoBlob) PROVE FALSE OBVIOUS
    <3>1. grants[n] # NoGrant BY DEF Starts, NoGrant
    <3>2. grants[n].blob \in Blobs BY <3>1 DEF StorageInvariant, GrantsFit, GrantFits
    <3> QED BY <3>2 DEF Starts, ObjectStorageAssumption
  <2> QED BY <1>1, <2>1 DEF Sized
<1>2. CASE b # NoBlob
  <2>1. PICK n \in Nonces : Starts(grants[n], b) /\ grants[n].size = y BY <1>2 DEF Sized
  <2>2. PICK m \in Nonces : Starts(grants[m], b) /\ grants[m].size = z BY <1>2 DEF Sized
  <2>3. n = m BY <1>2, <2>1, <2>2 DEF StorageInvariant, GrantsFit, StartedOnce
  <2> QED BY <2>1, <2>2, <2>3
<1> QED BY <1>1, <1>2

\* Contents were started for one key only.
LEMMA OwnedOnce ==
  ASSUME StorageInvariant, NEW b \in Blobs, NEW k, NEW l, Owned(grants, b, k), Owned(grants, b, l)
  PROVE  k = l
<1>1. PICK n \in Nonces : Starts(grants[n], b) /\ grants[n].key = k BY DEF Owned
<1>2. PICK m \in Nonces : Starts(grants[m], b) /\ grants[m].key = l BY DEF Owned
<1>3. n = m BY <1>1, <1>2 DEF StorageInvariant, GrantsFit, StartedOnce
<1> QED BY <1>1, <1>2, <1>3

\* The grant's bytes make up for what the object grows by.
LEMMA CommitQuota ==
  ASSUME ObjectStorageAssumption, StorageInvariant, NEW n \in Nonces, Commits(n), NEW k \in Objects, NEW o,
         objects' = [objects EXCEPT ![k] = o], o.size \in Nat, o.size <= objects[k].size + grants[n].bytes
  PROVE  StoredWithinQuota'
<1>1. \A m \in Nonces : grants[m].bytes \in Nat /\ grants'[m].bytes = grants[m].bytes
  BY DEF StorageInvariant, GrantsFit, GrantRow, Moved, GoesOn, Commits
<1>2. PICK ms, ls : ms = Live(reserved) /\ ls = Live(reserved)' OBVIOUS
<1>3. ms \in SUBSET Nonces /\ n \in ms BY <1>2, StorageSets DEF Live, Commits
<1>4. ls = ms \ {n}
  <2>1. \A m \in reserved : m # n => grants'[m] = grants[m] BY StorageSets DEF Commits
  <2> QED BY <1>2, <2>1 DEF Live, Commits
<1>5. ByteSum(grants, ms) = grants[n].bytes + ByteSum(grants, ls) BY <1>1, <1>3, <1>4, BytesAdd
<1>6. ls \in SUBSET Nonces BY <1>3, <1>4
<1>7. ByteSum(grants, ls) \in Nat /\ ByteSum(grants', ls) = ByteSum(grants, ls) BY <1>1, <1>6, BytesAdd
<1>8. \A q \in Objects : objects[q].size \in Nat BY UsedNat
<1>9. PICK p : p = objects' OBVIOUS
<1>10. p[k] = o /\ \A q \in Objects \ {k} : p[q] = objects[q] BY <1>9 DEF StorageInvariant, StorageTypeOK
<1>11. \A q \in Objects : p[q].size \in Nat BY <1>8, <1>10
<1>12. SizeSum(p) + objects[k].size = SizeSum(objects) + o.size BY <1>8, <1>10, <1>11, SizesAdd
<1>13. SizeSum(p) \in Nat /\ SizeSum(objects) \in Nat BY <1>8, <1>11, SizesAdd
<1>14. SizeSum(objects) + ByteSum(grants, ms) <= Quota BY <1>2 DEF StorageInvariant, StoredWithinQuota, Used, Bytes
<1>15. SizeSum(p) + ByteSum(grants', ls) <= Quota
  <2> PICK a, d, y, z, x, w, q : /\ a = SizeSum(p) /\ d = SizeSum(objects) /\ y = objects[k].size /\ z = o.size
                                 /\ x = ByteSum(grants, ls) /\ w = grants[n].bytes /\ q = Quota
    OBVIOUS
  <2>1. a \in Nat /\ d \in Nat /\ y \in Nat /\ z \in Nat /\ x \in Nat /\ w \in Nat /\ q \in Nat
    BY <1>1, <1>7, <1>8, <1>13 DEF ObjectStorageAssumption
  <2>2. a + y = d + z /\ z <= y + w BY <1>12
  <2>3. d + (w + x) <= q BY <1>5, <1>14
  <2>4. a + x <= q BY <2>1, <2>2, <2>3
  <2> QED BY <2>4, <1>7
<1> QED BY <1>2, <1>9, <1>15 DEF StoredWithinQuota, Used, Bytes

ObjectRow == [blob : Blobs \cup {NoBlob}, size : Sizes \cup {0}]
Given(p, k, b, z) == p = [objects EXCEPT ![k] = [blob |-> b, size |-> z]]

LEMMA ObjectsTyped ==
  ASSUME StorageInvariant, NEW k \in Objects, NEW b, b \in Blobs \/ b = NoBlob, NEW z, z \in Sizes \/ z = 0, NEW p, Given(p, k, b, z)
  PROVE  /\ p \in [Objects -> ObjectRow]
         /\ p[k].blob = b /\ p[k].size = z /\ \A q \in Objects : q # k => p[q] = objects[q]
<1>1. PICK R, o : R = ObjectRow /\ o = [blob |-> b, size |-> z] OBVIOUS
<1>2. o \in R /\ o.blob = b /\ o.size = z BY <1>1 DEF ObjectRow
<1>3. objects \in [Objects -> R] BY <1>1 DEF StorageInvariant, StorageTypeOK, ObjectRow
<1>4. p = [objects EXCEPT ![k] = o] BY <1>1 DEF Given
<1>5. p \in [Objects -> R] /\ p[k] = o /\ \A q \in Objects : q # k => p[q] = objects[q] BY <1>2, <1>3, <1>4
<1> QED BY <1>1, <1>2, <1>5

\* No provider key is called NoBlob.
LEMMA NeverCommitted ==
  ASSUME ObjectStorageAssumption, StorageInvariant
  PROVE  ~Committed(grants, receipts, NoBlob)
<1> SUFFICES ASSUME NEW m \in receipts, Writes(grants[m], NoBlob) PROVE FALSE BY DEF Committed
<1>1. m \in Nonces /\ grants[m].step # "none" BY StorageSets DEF StorageInvariant, ReservedFit, Early
<1>2. grants[m].blob \in Blobs BY <1>1, GrantUsed
<1> QED BY <1>2 DEF Writes, ObjectStorageAssumption

\* of a deletion,
LEMMA CommitDeleteKeeps ==
  ASSUME ObjectStorageAssumption, StorageInvariant, NEW n \in Nonces, Commits(n), CommitDelete(n)
  PROVE  StorageInvariant'
<1>1. PICK k : k = grants[n].key OBVIOUS
<1>2. /\ grants[n].op = "delete" /\ objects[k].blob = grants[n].old /\ objects' = [objects EXCEPT ![k] = NoObject]
      /\ uploads' = uploads /\ cleanup' = cleanup
  BY <1>1 DEF CommitDelete, Unreplaced
<1>3. k \in Objects /\ grants[n].old = grants[n].blob /\ grants[n].blob \in Blobs
  BY <1>1, <1>2, CommitSets DEF GrantFits
<1>4. \A b : ~Writes(grants[n], b) BY <1>2 DEF Writes
<1>5. \A b : Committed(grants', receipts', b) <=> Committed(grants, receipts, b) BY <1>4, CommitSets
<1>6. /\ objects' \in [Objects -> ObjectRow]
      /\ objects'[k].blob = NoBlob /\ objects'[k].size = 0 /\ \A q \in Objects : q # k => objects'[q] = objects[q]
  <2>1. PICK p, z : p = objects' /\ z = 0 OBVIOUS
  <2>2. Given(p, k, NoBlob, z) BY <2>1, <1>2 DEF NoObject, Given
  <2>3. /\ p \in [Objects -> ObjectRow]
        /\ p[k].blob = NoBlob /\ p[k].size = z /\ \A q \in Objects : q # k => p[q] = objects[q]
    BY <1>3, <2>1, <2>2, ObjectsTyped
  <2> QED BY <2>1, <2>3
<1>7. objects'[k] = NoObject BY <1>2, <1>3 DEF StorageInvariant, StorageTypeOK
<1>8. GrantsFit' /\ ReservedFit' BY CommitGrants
<1>9. ObjectsFit'
  <2> SUFFICES ASSUME NEW q \in Objects PROVE ObjectFits(grants', receipts', q, objects'[q]) BY DEF ObjectsFit
  <2>1. CASE q = k BY <2>1, <1>6, <1>7 DEF ObjectFits, Sized
  <2>2. CASE q # k
    <3>1. ObjectFits(grants, receipts, q, objects[q]) /\ objects'[q] = objects[q] BY <2>2, <1>6 DEF StorageInvariant, ObjectsFit
    <3> QED BY <3>1, <1>5, MovedSame DEF ObjectFits, Commits
  <2> QED BY <2>1, <2>2
<1>10. UploadsFit'
  <2> SUFFICES ASSUME NEW b \in Blobs, uploads[b] # NoUpload PROVE UploadFits(grants', receipts', b, uploads[b])
    BY <1>2 DEF UploadsFit, UploadFits
  <2> QED BY <1>4, CommitUploads DEF UploadFits
<1>11. ItemsFit'
  <2>1. \A q \in Objects : Committed(grants, receipts, objects'[q].blob) => Shown(objects, objects'[q].blob)
    BY <1>6, NeverCommitted DEF Shown
  <2>2. CarriesNow BY <2>1, CommitCarries
  <2> QED BY <2>2, <1>2, CommitSets, ItemsStay DEF StorageInvariant, Commits
<1>12. \A b : Pending(grants, reserved, cleanup, cleaners, b) => Pending(grants', reserved', cleanup', cleaners', b)
  BY <1>2, <1>4, CommitPending
<1>13. BlobsTracked'
  <2> SUFFICES ASSUME NEW b \in blobs \ strays PROVE Shown(objects', b) \/ Pending(grants', reserved', cleanup', cleaners', b)
    BY DEF BlobsTracked, Commits
  <2>1. CASE Pending(grants, reserved, cleanup, cleaners, b) BY <2>1, <1>12
  <2>2. ASSUME NEW q \in Objects, objects[q].blob = b PROVE Shown(objects', b) \/ Pending(grants', reserved', cleanup', cleaners', b)
    <3>1. CASE q # k BY <3>1, <2>2, <1>6 DEF Shown
    <3>2. CASE q = k
      <4>1. grants[n].blob = b BY <3>2, <2>2, <1>2, <1>3
      <4>2. Pending(grants, reserved, cleanup, cleaners, b) BY <4>1, <1>2 DEF StorageInvariant, DeletesFit, Commits
      <4> QED BY <4>2, <1>12
    <3> QED BY <3>1, <3>2
  <2> QED BY <2>1, <2>2 DEF StorageInvariant, BlobsTracked, Shown
<1>14. DeletesFit' BY <1>2, <1>4, CommitDeletes DEF FirstCommit
<1>15. ContentsKept' BY <1>6, CommitContents
<1>16. StoredWithinQuota'
  <2>1. PICK o : o = NoObject OBVIOUS
  <2>2. o.size = 0 BY <2>1 DEF NoObject
  <2>3. grants[n].bytes \in Nat BY CommitSets DEF GrantRow
  <2>4. objects[k].size \in Nat BY <1>3, UsedNat
  <2>5. o.size \in Nat /\ o.size <= objects[k].size + grants[n].bytes BY <2>2, <2>3, <2>4
  <2> QED BY <1>2, <1>3, <2>1, <2>5, CommitQuota
<1>17. StorageTypeOK' BY <1>2, <1>6, CommitSets DEF StorageInvariant, StorageTypeOK, ObjectRow, Commits
<1> QED BY <1>8, <1>9, <1>10, <1>11, <1>13, <1>14, <1>15, <1>16, <1>17 DEF StorageInvariant

\* The object gets its new contents, what it had before is queued.
LEMMA WriteKeeps ==
  ASSUME ObjectStorageAssumption, StorageInvariant, NEW n \in Nonces, Commits(n), FirstCommit(n), WriteObject(n),
         grants[n].op \in {"upload", "complete"}, uploads' \in [Blobs -> UploadRow], UploadsFit'
  PROVE  StorageInvariant'
<1>1. PICK k, b, old, size : k = grants[n].key /\ b = grants[n].blob /\ old = grants[n].old /\ size = grants[n].size OBVIOUS
<1>2. PICK X : X = IF old = NoBlob THEN {} ELSE {Item(n, "blob", old)} OBVIOUS
<1>3. /\ objects[k].blob = old /\ objects' = [objects EXCEPT ![k] = [blob |-> b, size |-> size]] /\ cleanup' = cleanup \cup X
  BY <1>1, <1>2 DEF WriteObject, Unreplaced
<1>4. k \in Objects /\ b \in Blobs /\ b # NoBlob /\ old \in Blobs \cup {NoBlob} /\ size \in Sizes \cup {0}
  <2>1. grants[n] \in GrantRow BY CommitSets
  <2>2. grants[n].old \in Blobs \cup {NoBlob} /\ grants[n].size \in Sizes \cup {0} BY <2>1 DEF GrantRow
  <2> QED BY <1>1, <2>2, CommitSets DEF ObjectStorageAssumption
<1>5. Writes(grants[n], b) /\ (\A x : Writes(grants[n], x) => x = b) /\ ~Committed(grants, receipts, b)
  <2>1. Writes(grants[n], b) /\ \A x : Writes(grants[n], x) => x = b BY <1>1 DEF Writes
  <2> QED BY <2>1, <1>4 DEF FirstCommit
<1>6. /\ objects' \in [Objects -> ObjectRow]
      /\ objects'[k].blob = b /\ objects'[k].size = size /\ \A q \in Objects : q # k => objects'[q] = objects[q]
  <2>1. PICK p : p = objects' OBVIOUS
  <2>2. Given(p, k, b, size) BY <2>1, <1>3 DEF Given
  <2>3. /\ p \in [Objects -> ObjectRow]
        /\ p[k].blob = b /\ p[k].size = size /\ \A q \in Objects : q # k => p[q] = objects[q]
    BY <1>4, <2>2, ObjectsTyped
  <2> QED BY <2>1, <2>3
<1>7. GrantsFit' /\ ReservedFit' BY CommitGrants
<1>8. Sized(grants, b, size) /\ Owned(grants, b, k)
  <2>1. CASE grants[n].op = "upload"
    <3>1. Starts(grants[n], b) BY <2>1, <1>1 DEF Starts
    <3> QED BY <3>1, <1>1 DEF Sized, Owned
  <2>2. CASE grants[n].op = "complete"
    <3>1. Created(grants, receipts, k, b, old, size) BY <2>2, <1>1, CommitSets DEF GrantFits
    <3>2. PICK l \in receipts : grants[l].op = "create" /\ grants[l].blob = b /\ grants[l].key = k /\ grants[l].size = size
      BY <3>1 DEF Created
    <3>3. l \in Nonces /\ Starts(grants[l], b) BY <3>2, StorageSets DEF Starts
    <3> QED BY <3>2, <3>3 DEF Sized, Owned
  <2> QED BY <2>1, <2>2
<1>9. ObjectsFit'
  <2> SUFFICES ASSUME NEW q \in Objects PROVE ObjectFits(grants', receipts', q, objects'[q]) BY DEF ObjectsFit
  <2>1. CASE q = k
    <3>1. Committed(grants', receipts', b) /\ Sized(grants', b, size) /\ Owned(grants', b, k)
      BY <1>5, <1>8, CommitSets, MovedSame
    <3> QED BY <2>1, <3>1, <1>4, <1>6 DEF ObjectFits
  <2>2. CASE q # k
    <3>1. ObjectFits(grants, receipts, q, objects[q]) /\ objects'[q] = objects[q] BY <2>2, <1>6 DEF StorageInvariant, ObjectsFit
    <3> QED BY <3>1, CommitSets, MovedSame DEF ObjectFits
  <2> QED BY <2>1, <2>2
<1>10. old # NoBlob => Committed(grants, receipts, old) /\ Owned(grants, old, k)
  <2>1. ObjectFits(grants, receipts, k, objects[k]) BY <1>4 DEF StorageInvariant, ObjectsFit
  <2> QED BY <2>1, <1>3 DEF ObjectFits
<1>11. old # NoBlob => \A q \in Objects : objects'[q].blob # old
  <2> SUFFICES ASSUME old # NoBlob, NEW q \in Objects, objects'[q].blob = old PROVE FALSE OBVIOUS
  <2>1. q # k BY <1>5, <1>6, <1>10
  <2>2. objects[q].blob = old BY <2>1, <1>6
  <2>3. ObjectFits(grants, receipts, q, objects[q]) BY DEF StorageInvariant, ObjectsFit
  <2>4. Owned(grants, old, q) BY <2>2, <2>3 DEF ObjectFits
  <2> QED BY <2>1, <2>4, <1>4, <1>10, OwnedOnce
<1>12. CarriesNow
  <2>1. \A q \in Objects : Committed(grants, receipts, objects'[q].blob) => Shown(objects, objects'[q].blob)
    BY <1>5, <1>6 DEF Shown
  <2> QED BY <2>1, CommitCarries
<1>13. \A i \in X : i.from = n /\ i.kind = "blob" /\ i.blob = old /\ i.leased = 0 /\ old # NoBlob BY <1>2 DEF Item
<1>14. ItemsFit'
  <2>1. \A i, j \in X : i = j BY <1>2
  <2>2. ASSUME NEW i \in X PROVE i.from = n /\ ItemFits(grants', receipts', reserved', objects', i)
    <3>1. Committed(grants', receipts', old) BY <1>10, <1>13, CommitSets
    <3>2. n \in Nonces \ reserved' /\ n \in receipts' /\ grants'[n].step \notin Early BY DEF Commits, Early
    <3> QED BY <1>11, <1>13, <3>1, <3>2 DEF ItemFits
  <2> QED BY <2>1, <2>2, <1>3, <1>12, CommitSets, QueuedItems DEF Commits
<1>15. old # NoBlob => Queued(cleanup', cleaners', old)
  <2> SUFFICES ASSUME old # NoBlob PROVE Queued(cleanup', cleaners', old) OBVIOUS
  <2>1. PICK j : j = Item(n, "blob", old) OBVIOUS
  <2>2. j \in X /\ j \in cleanup' BY <2>1, <1>2, <1>3
  <2>3. ~Finished(cleaners, j) BY <2>2, <1>13, FinishedLeased DEF StorageInvariant
  <2> QED BY <2>2, <2>3, <1>13 DEF Queued, Commits
<1>16. BlobsTracked'
  <2> SUFFICES ASSUME NEW x \in blobs \ strays PROVE Shown(objects', x) \/ Pending(grants', reserved', cleanup', cleaners', x)
    BY DEF BlobsTracked, Commits
  <2>0. x # NoBlob BY StorageSets DEF ObjectStorageAssumption
  <2>1. CASE Pending(grants, reserved, cleanup, cleaners, x)
    <3>1. CASE x = b BY <3>1, <1>4, <1>6 DEF Shown
    <3>2. CASE x # b
      <4>1. ~Writes(grants[n], x) /\ cleanup \subseteq cleanup' BY <3>2, <1>3, <1>5
      <4> QED BY <2>1, <4>1, CommitPending
    <3> QED BY <3>1, <3>2
  <2>2. ASSUME NEW q \in Objects, objects[q].blob = x PROVE Shown(objects', x) \/ Pending(grants', reserved', cleanup', cleaners', x)
    <3>1. CASE q # k BY <3>1, <2>2, <1>6 DEF Shown
    <3>2. CASE q = k BY <3>2, <2>0, <2>2, <1>3, <1>15 DEF Pending
    <3> QED BY <3>1, <3>2
  <2> QED BY <2>1, <2>2 DEF StorageInvariant, BlobsTracked, Shown
<1>17. DeletesFit' BY <1>3, CommitDeletes
<1>18. ContentsKept' BY <1>1, <1>6, CommitContents
<1>19. StoredWithinQuota'
  <2>1. PICK z \in Nat : Sized(grants, old, z) /\ grants[n].bytes = Beyond(size, z) BY <1>1, CommitSets DEF GrantFits
  <2>2. objects[k].size \in Nat /\ Sized(grants, old, objects[k].size) BY <1>3, <1>4, ObjectKnown
  <2>3. z = objects[k].size BY <2>1, <2>2, <1>4, SizedOnce
  <2>4. size \in Nat BY <1>4, SizesInNat
  <2>5. size <= z + Beyond(size, z) BY <2>4 DEF Beyond
  <2>6. PICK o : o = [blob |-> b, size |-> size] OBVIOUS
  <2>7. o.size = size BY <2>6
  <2>8. o.size \in Nat /\ o.size <= objects[k].size + grants[n].bytes BY <2>1, <2>3, <2>4, <2>5, <2>7
  <2> QED BY <1>3, <1>4, <2>6, <2>8, CommitQuota
<1>20. StorageTypeOK'
  <2>1. X \subseteq ItemRow
    <3>1. old # NoBlob => Item(n, "blob", old) \in ItemRow BY <1>4, ItemTyped
    <3> QED BY <3>1, <1>2
  <2>2. cleanup' \subseteq ItemRow BY <2>1, <1>3 DEF StorageInvariant, StorageTypeOK, ItemRow
  <2> QED BY <2>2, <1>6, CommitSets DEF StorageInvariant, StorageTypeOK, ObjectRow, UploadRow, ItemRow, Commits
<1> QED BY <1>7, <1>9, <1>14, <1>16, <1>17, <1>18, <1>19, <1>20 DEF StorageInvariant

\* of an upload, which replaces what was there,
LEMMA CommitUploadKeeps ==
  ASSUME ObjectStorageAssumption, StorageInvariant, NEW n \in Nonces, Commits(n), CommitUpload(n)
  PROVE  StorageInvariant'
<1>1. grants[n].op = "upload" /\ WriteObject(n) /\ uploads' = uploads BY DEF CommitUpload
<1>s. StartedOnce(grants, receipts) /\ receipts \subseteq Nonces BY StorageSets DEF StorageInvariant, GrantsFit
<1>2. \A b : Writes(grants[n], b) => Starts(grants[n], b) BY <1>1 DEF Writes, Starts
<1>3. FirstCommit(n) BY <1>2, <1>s DEF FirstCommit, StartedOnce, Commits
<1>4. ASSUME NEW b \in Blobs, uploads[b] # NoUpload PROVE ~Writes(grants[n], b)
  <2> SUFFICES ASSUME Writes(grants[n], b) PROVE FALSE OBVIOUS
  <2>1. Created(grants, receipts, uploads[b].key, b, uploads[b].old, uploads[b].size)
    BY <1>4 DEF StorageInvariant, UploadsFit, UploadFits
  <2>2. PICK l \in receipts : grants[l].op = "create" /\ grants[l].blob = b BY <2>1 DEF Created
  <2>3. l \in Nonces /\ Starts(grants[l], b) BY <2>2, <1>s DEF Starts
  <2>4. l = n BY <2>3, <1>2, <1>s DEF StartedOnce
  <2> QED BY <2>2, <2>4, <1>1
<1>5. UploadsFit'
  <2> SUFFICES ASSUME NEW b \in Blobs, uploads[b] # NoUpload PROVE UploadFits(grants', receipts', b, uploads[b])
    BY <1>1 DEF UploadsFit, UploadFits
  <2> QED BY <1>4, CommitUploads DEF UploadFits
<1>6. uploads' \in [Blobs -> UploadRow] BY <1>1, UploadsTyped
<1> QED BY <1>1, <1>3, <1>5, <1>6, WriteKeeps

\* and of a completed multipart upload.
LEMMA CommitCompleteKeeps ==
  ASSUME ObjectStorageAssumption, StorageInvariant, NEW n \in Nonces, Commits(n), CommitComplete(n)
  PROVE  StorageInvariant'
<1>1. PICK b, u : b = grants[n].blob /\ u = NoUpload OBVIOUS
<1>2. /\ grants[n].op = "complete" /\ WriteObject(n) /\ uploads[b] # NoUpload /\ b \in Blobs
      /\ uploads' = [uploads EXCEPT ![b] = u] /\ u \in UploadRow
  BY <1>1, CommitSets, NoUploadRow DEF CommitComplete, InProgress
<1>3. \A x : Writes(grants[n], x) => x = b BY <1>1 DEF Writes
<1>4. FirstCommit(n) BY <1>2, <1>3 DEF FirstCommit, StorageInvariant, UploadsFit, UploadFits
<1>5. uploads' \in [Blobs -> UploadRow] /\ UploadsFit' BY <1>1, <1>2, <1>3, OtherUploads
<1> QED BY <1>2, <1>4, <1>5, WriteKeeps

LEMMA CommitKeeps ==
  ASSUME ObjectStorageAssumption, StorageInvariant, NEW n \in Nonces, Commit(n)
  PROVE  StorageInvariant'
<1>1. Commits(n) BY CommitCommits
<1>2. \/ CommitUpload(n) \/ CommitDelete(n) \/ CommitCreate(n) \/ CommitPart(n) \/ CommitComplete(n) \/ CommitAbort(n)
  BY DEF Commit
<1> QED BY <1>1, <1>2, CommitUploadKeeps, CommitDeleteKeeps, CommitCreateKeeps, CommitPartKeeps, CommitCompleteKeeps,
           CommitAbortKeeps

-----------------------------------------------------------------------------
(* The specification.                                                        *)

LEMMA StorageStarts ==
  ASSUME ObjectStorageAssumption, StorageInit
  PROVE  StorageInvariant
<1>g. \A n \in Nonces : grants[n] = NoGrant BY DEF StorageInit
<1>o. /\ \A k \in Objects : objects[k] = NoObject
      /\ receipts = {} /\ reserved = {} /\ cleanup = {} /\ blobs = {} /\ \A b \in Blobs : uploads[b] = NoUpload
  BY DEF StorageInit
<1>1. StorageTypeOK
  <2>1. objects \in [Objects -> ObjectRow]
    <3>1. NoObject \in ObjectRow BY DEF NoObject, ObjectRow
    <3> QED BY <3>1 DEF StorageInit
  <2>2. uploads \in [Blobs -> UploadRow] BY NoUploadRow DEF StorageInit
  <2> QED BY <2>1, <2>2 DEF StorageInit, StorageTypeOK, ObjectRow, UploadRow
<1>2. GrantsFit
  <2>1. grants \in [Nonces -> GrantRow] BY NoGrantRow DEF StorageInit
  <2>o. NoGrant.op = "none" BY DEF NoGrant
  <2>2. \A n \in Nonces : GrantFits(grants, receipts, grants[n]) BY <1>g, <2>o DEF GrantFits
  <2>3. StartedOnce(grants, receipts) BY <1>g, <2>o DEF StartedOnce, Starts
  <2> QED BY <2>1, <2>2, <2>3 DEF GrantsFit
<1>3. ReservedFit BY <1>o DEF ReservedFit
<1>4. ObjectsFit
  <2>1. NoObject.blob = NoBlob /\ NoObject.size = 0 BY DEF NoObject
  <2> QED BY <1>o, <2>1 DEF ObjectsFit, ObjectFits, Sized
<1>5. UploadsFit BY <1>o DEF UploadsFit, UploadFits
<1>6. ItemsFit
  <2>1. cleaners \in [Cleaners -> CleanerRow] BY NoCleanerRow DEF StorageInit
  <2>2. \A c \in Cleaners : Worked(cleaners[c]) = {} BY NoCleanerRow DEF StorageInit
  <2> QED BY <2>1, <2>2, <1>o DEF ItemsFit, ItemsOnce
<1>7. BlobsTracked /\ DeletesFit BY <1>o DEF BlobsTracked, DeletesFit
<1>8. ContentsKept
  <2>1. NoObject.blob = NoBlob BY DEF NoObject
  <2> QED BY <1>o, <2>1 DEF ContentsKept, Kept
<1>9. StoredWithinQuota
  <2>1. Used = 0
    <3>1. \A k \in Objects : SizesIn(objects)[k] = 0 BY <1>o DEF SizesIn, NoObject
    <3>f. IsFiniteSet(Objects) BY DEF ObjectStorageAssumption
    <3>2. SumOver(SizesIn(objects), Objects) = 0 BY <3>1, <3>f, SumZero
    <3> QED BY <3>2, SizeSumIs DEF Used
  <2>2. Live(reserved) = {} BY <1>o DEF Live
  <2>3. ByteSum(grants, {}) = 0
    <3>1. {} \in SUBSET Nonces OBVIOUS
    <3> QED BY <3>1, ByteSumIs, SumEmpty
  <2>4. Quota \in Nat BY DEF ObjectStorageAssumption
  <2> QED BY <2>1, <2>2, <2>3, <2>4 DEF StoredWithinQuota, Bytes
<1> QED BY <1>1, <1>2, <1>3, <1>4, <1>5, <1>6, <1>7, <1>8, <1>9 DEF StorageInvariant

\* Every step keeps the invariant,
LEMMA StorageSteps ==
  ASSUME ObjectStorageAssumption, StorageInvariant, [StorageNext]_storageVars
  PROVE  StorageInvariant'
<1>1. CASE storageVars' = storageVars
  <2>1. Quiet /\ uploads' = uploads /\ local' = local /\ open' = open /\ grants' = grants
    BY <1>1 DEF storageVars, Quiet, UploadsStay
  <2>2. Moved /\ NewlyVerified BY <2>1, StorageSets, NoneMoves DEF NewlyVerified
  <2>3. StorageTypeOK' BY <2>1, StorageSets, QuietTyped DEF StorageInvariant
  <2> QED BY <2>1, <2>2, <2>3, QuietKeeps
<1>2. ASSUME NEW n \in Nonces, NEW k \in Objects, NEW size \in Sizes, NEW b \in Blobs,
             AuthorizeUpload(n, k, size, b) \/ AuthorizeCreate(n, k, size, b)
      PROVE  StorageInvariant'
  BY <1>2, AuthorizeUploadKeeps, AuthorizeCreateKeeps
<1>3. ASSUME NEW n \in Nonces, NEW k \in Objects, AuthorizeDelete(n, k) PROVE StorageInvariant'
  BY <1>3, AuthorizeDeleteKeeps
<1>4. ASSUME NEW n \in Nonces, NEW op \in {"part", "complete", "abort"}, NEW b \in Blobs, AuthorizeMultipart(n, op, b)
      PROVE  StorageInvariant'
  BY <1>4, AuthorizeMultipartKeeps
<1>5. ASSUME NEW n \in Nonces,
             \/ Hold(n) \/ Reserve(n) \/ Put(n) \/ Erase(n) \/ CompleteParts(n) \/ AbortParts(n)
             \/ Initiate(n) \/ Verify(n) \/ VerifyStage(n) \/ Commit(n) \/ CommitFails(n) \/ Replay(n) \/ Release(n) \/ Expire(n)
      PROVE  StorageInvariant'
  BY <1>5, HoldKeeps, ReserveKeeps, PutKeeps, EraseKeeps, CompletePartsKeeps, AbortPartsKeeps, VerifyKeeps, CommitKeeps,
     AnswerKeeps, ReleaseKeeps, ExpireKeeps
<1>6. ASSUME NEW b \in Blobs, ExpireUpload(b) PROVE StorageInvariant' BY <1>6, ExpireUploadKeeps
<1>7. ASSUME NEW c \in Cleaners, ClaimCleanup(c) \/ CleanItem(c) \/ AckCleanup(c) \/ CleanerStops(c) PROVE StorageInvariant'
  BY <1>7, ClaimCleanupKeeps, CleanItemKeeps, AckCleanupKeeps, CleanerStopsKeeps
<1>8. ASSUME NEW i \in cleanup, LeaseLapses(i) PROVE StorageInvariant' BY <1>8, LeaseLapsesKeeps
<1>9. CASE GatewayRestarts BY <1>9, GatewayRestartsKeeps
<1>10. CASE StorageNext BY <1>10, <1>2, <1>3, <1>4, <1>5, <1>6, <1>7, <1>8, <1>9 DEF StorageNext
<1> QED BY <1>1, <1>10

\* and implies what the run checks.
LEMMA StorageShows ==
  ASSUME ObjectStorageAssumption, StorageInvariant
  PROVE  StorageAccounted
<1>1. StorageTypeOK /\ StoredWithinQuota BY DEF StorageInvariant
<1>2. BlobsAccounted
  <2> SUFFICES ASSUME NEW b \in blobs \ strays
               PROVE  \/ \E k \in Objects : objects[k].blob = b
                      \/ \E n \in reserved : grants[n].blob = b /\ grants[n].op \in {"upload", "complete"}
                      \/ \E i \in cleanup : i.kind = "blob" /\ i.blob = b
    BY DEF BlobsAccounted
  <2>1. Shown(objects, b) \/ Pending(grants, reserved, cleanup, cleaners, b) BY DEF StorageInvariant, BlobsTracked
  <2> QED BY <2>1 DEF Shown, Pending, Awaited, Queued, Writes
<1>3. ObjectsKept
  <2> SUFFICES ASSUME NEW k \in Objects, objects[k].blob \notin blobs \cup erased \cup {NoBlob}
               PROVE  Cardinality({n \in Nonces : grants[n].op = "complete" /\ grants[n].blob = objects[k].blob}) > 1
    BY DEF ObjectsKept
  <2>1. PICK S : S = {n \in Nonces : grants[n].op = "complete" /\ grants[n].blob = objects[k].blob} OBVIOUS
  <2>2. Twice(grants, objects[k].blob) BY DEF StorageInvariant, ContentsKept, Kept
  <2>3. PICK n, m \in S : n # m BY <2>1, <2>2 DEF Twice
  <2>4. IsFiniteSet(S) BY <2>1, FS_Subset DEF ObjectStorageAssumption
  <2>5. IsFiniteSet({n, m}) /\ Cardinality({n, m}) = 2 BY <2>3, PairCardinality
  <2>6. Cardinality({n, m}) <= Cardinality(S) BY <2>3, <2>4, FS_Subset
  <2>7. Cardinality(S) \in Nat BY <2>4, FS_CardinalityType
  <2>8. Cardinality(S) > 1 BY <2>5, <2>6, <2>7
  <2> QED BY <2>1, <2>8
<1> QED BY <1>1, <1>2, <1>3 DEF StorageAccounted

\* What a project stores stays within its quota, every blob of the provider
\* belongs to an object or is known to be removed, and a committed object stays
\* until it is deleted, for any number of objects, grants and cleanups.
THEOREM StorageIsAccounted == StorageSpec => []StorageAccounted
<1>1. StorageInit => StorageInvariant BY ObjectStorageAssumption, StorageStarts
<1>2. StorageInvariant /\ [StorageNext]_storageVars => StorageInvariant' BY ObjectStorageAssumption, StorageSteps
<1>3. StorageInvariant => StorageAccounted BY ObjectStorageAssumption, StorageShows
<1> QED BY <1>1, <1>2, <1>3, PTL DEF StorageSpec

-----------------------------------------------------------------------------
(* The usage ledger.  A write is admitted with what is left as the room of   *)
(* its database, so the invariant says where every stored byte is accounted  *)
(* for: recorded by an event, or held by a reservation that ran.             *)

CallRow ==
  [kind : Kinds \cup {"none"}, subject : Subjects \cup {"none"},
   step : CallSteps, room : Nat, work : Nat, at : Nat, seen : Nat]
SlotRow ==
  [status : {"none", "active", "expired", "released", "settled"}, until : Nat, growth : Nat, late : {0, 1}]
ClaimRow == [active : {0, 1}, count : Nat]
EventRow == [id : Nat, subject : Subjects, at : Nat, resource : Resources \cup {"none"}, bytes : Nat]

LedgerTyped ==
  /\ calls \in [Calls -> CallRow] /\ slots \in [Calls -> SlotRow] /\ claims \in [Subjects -> ClaimRow]
  /\ events \subseteq EventRow /\ metered \in Nat /\ occupied \in [Resources -> Nat] /\ ran \subseteq Calls /\ clock \in Nat

\* A call and its reservation.
CallFits(call, slot, done) ==
  /\ call.kind = "none" => slot.status = "none" /\ slot.late = 0 /\ ~done /\ call.step = "idle"
  /\ call.kind # "none" => call.subject \in Subjects /\ slot.status # "none"
  /\ call.step = "prepared" => slot.status \in {"active", "expired"}
  /\ call.step \in {"executed", "measured", "settled", "read"} => done
  /\ call.step \in {"measured", "read"} => call.kind = "upload"
  /\ call.step \in {"settled", "read"} => slot.status = "settled"
  /\ call.kind = "upload" => slot.growth = 1
  /\ slot.late = 1 => slot.status = "settled"

CallsFit == \A c \in Calls : CallFits(calls[c], slots[c], c \in ran)

Writing(cs, held) == {c \in held : cs[c].kind = "write"}
LateOnes(ss) == {c \in Calls : ss[c].late = 1}
Active(ss) == {c \in Calls : ss[c].status = "active"}

\* Writes settled and held, lapsed ones too.
WritesCounted ==
  metered + Cardinality(Writing(calls, Active(slots))) <= WriteLimit + Cardinality(LateOnes(slots))

\* A claim that was never settled counts exactly the reservations of its user;
\* late settlements may take away from one that was.
Users(cs, held, s) == {c \in held : cs[c].subject = s}
ClaimFits(claim, n, known) ==
  /\ claim.count <= n
  /\ claim.active = 0 => claim.count = n
  /\ claim.active = 1 <=> known

ClaimsFit ==
  \A s \in Subjects :
    ClaimFits(claims[s], Cardinality(Users(calls, Active(slots), s)), \E e \in events : e.subject = s)

\* The newest event of a resource.
Of(es, r) == {e \in es : e.resource = r}
RecordedIn(known) == IF known = {} THEN 0 ELSE (CHOOSE e \in known : \A f \in known \ {e} : Newer(e, f)).bytes
Recorded(es, r) == RecordedIn(Of(es, r))
IsNewest(e, known) == e \in known /\ \A f \in known \ {e} : Newer(e, f)
HasNewest(es, r) == Of(es, r) # {} => \E e \in Of(es, r) : IsNewest(e, Of(es, r))

Uploading(cs, held) == {c \in held : cs[c].kind = "upload"}

\* The uploads done by a time, and an event of objects below them.
Earlier(cs, done, t) == {c \in Uploading(cs, done) : cs[c].work <= t}
Short(e, cs, done) == e.resource = "objects" /\ e.bytes < Cardinality(Earlier(cs, done, e.at))

\* What was done, and what the API saw of it: a write's receipt has the size
\* and the time of the work; of an upload the time was taken first.
WorkGood(cs, done, sz, time) ==
  /\ \A c \in done : cs[c].work <= cs[c].at /\ cs[c].at <= time
  /\ sz["objects"] = Cardinality(Uploading(cs, done))
  /\ \A c \in Uploading(cs, done) : cs[c].step = "measured" => Cardinality(Earlier(cs, done, cs[c].at)) <= cs[c].seen
  /\ \A w \in Writing(cs, done) : cs[w].at = cs[w].work /\ cs[w].seen <= cs[w].room /\ cs[w].seen <= sz["database"]
  /\ \A v, w \in Writing(cs, done) : cs[v].work <= cs[w].work => cs[v].seen <= cs[w].seen
  /\ sz["database"] = 0 \/ \E w \in Writing(cs, done) : cs[w].seen = sz["database"]

WorkFits == WorkGood(calls, ran, occupied, clock)

\* What a settlement left behind.
Noted(es, cs, c) ==
  /\ \E e \in es : e.subject = cs[c].subject
  /\ cs[c].kind = "write" => \E e \in Of(es, "database") : e.bytes = cs[c].seen
  /\ cs[c].kind = "upload" => \E e \in Of(es, "objects") : cs[c].work <= e.at

\* Events: of the database what receipts say, of objects no settlement short.
EventsGood(es, cs, ss, done, time) ==
  /\ \A e, f \in es : e.id = f.id => e = f
  /\ \A r \in Resources : HasNewest(es, r)
  /\ \A e \in Of(es, "database") : \E w \in Writing(cs, done) : e.at = cs[w].work /\ e.bytes = cs[w].seen
  /\ \A e \in Of(es, "objects") : e.at <= time
  /\ \A c \in done : ss[c].status = "settled" => Noted(es, cs, c)
  /\ \A c \in Calls : \A e \in es : e.id = EventId(c) => ~Short(e, cs, done)

EventsFit == EventsGood(events, calls, slots, ran, clock)

\* Something that was done is not counted, or was counted late, or what was
\* recorded had been overtaken.
Excused(ss, done, es, cs) ==
  \/ \E c \in done : ss[c].status \in {"released", "expired"}
  \/ \E c \in Calls : ss[c].late = 1
  \/ \E e \in es : Short(e, cs, done)

\* What is stored, recorded and still to come: db and obj are the sizes, cd and
\* co the recorded ones.
Balanced(db, obj, cd, co, held, done, ss, cs) ==
  /\ db + obj + Cardinality(Uploading(cs, held \ done)) <= StorageLimit
  /\ \A w \in Writing(cs, held \ done) : cs[w].room + obj + Cardinality(Uploading(cs, held \ done)) <= StorageLimit
  /\ \A w \in Writing(cs, held) : cs[w].room <= cd + ss[w].growth
  /\ obj <= co + Cardinality(Uploading(cs, held \cap done))
  /\ db <= cd \/ \E w \in Writing(cs, held \cap done) : db <= cd + ss[w].growth

Balance(sz, es, held, done, ss, cs) ==
  Balanced(sz["database"], sz["objects"], Recorded(es, "database"), Recorded(es, "objects"), held, done, ss, cs)

StorageFits == Excused(slots, ran, events, calls) \/ Balance(occupied, events, Active(slots), ran, slots, calls)

UsageInvariant ==
  /\ LedgerTyped /\ CallsFit /\ WritesCounted /\ ClaimsFit /\ WorkFits /\ EventsFit /\ StorageFits

-----------------------------------------------------------------------------
\* As many ones.
LEMMA SumOnes ==
  ASSUME NEW S, IsFiniteSet(S), NEW f, \A x \in S : f[x] = 1
  PROVE  SumOver(f, S) = Cardinality(S)
<1> DEFINE T == {n \in Nat : \E s \in SUBSET S : SumOver(f, s) # Cardinality(s) /\ Cardinality(s) = n}
<1>1. \A s \in SUBSET S : IsFiniteSet(s) /\ Cardinality(s) \in Nat /\ \A x \in s : f[x] \in Nat
  BY FS_Subset, FS_CardinalityType
<1> SUFFICES ASSUME SumOver(f, S) # Cardinality(S) PROVE FALSE OBVIOUS
<1>2. T # {} /\ T \subseteq Nat BY <1>1
<1>3. PICK n \in T : \A m \in T : n <= m BY <1>2, LeastNat
<1>4. PICK s \in SUBSET S : SumOver(f, s) # Cardinality(s) /\ Cardinality(s) = n BY <1>3
<1>5. s # {} BY <1>4, SumEmpty, FS_EmptySet
<1>6. PICK a : a \in s BY <1>5
<1>7. SumOver(f, s) = f[a] + SumOver(f, s \ {a}) /\ SumOver(f, s \ {a}) \in Nat BY <1>1, <1>6, SumTake
<1>8. Cardinality(s \ {a}) = n - 1 /\ n \in Nat BY <1>1, <1>4, <1>6, FS_RemoveElement
<1>9. SumOver(f, s \ {a}) # Cardinality(s \ {a}) BY <1>4, <1>6, <1>7, <1>8
<1>10. Cardinality(s \ {a}) \in Nat /\ s \ {a} \in SUBSET S BY <1>1
<1>11. n - 1 \in T BY <1>8, <1>9, <1>10
<1> QED BY <1>3, <1>8, <1>11

\* Sets of calls are finite.
LEMMA CallSets ==
  ASSUME UsageLedgerAssumption, NEW A, A \subseteq Calls
  PROVE  /\ IsFiniteSet(A) /\ Cardinality(A) \in Nat
         /\ \A c \in A : Cardinality(A \ {c}) = Cardinality(A) - 1 /\ Cardinality(A) > 0
         /\ \A c : c \notin A => Cardinality(A \cup {c}) = Cardinality(A) + 1
<1>1. IsFiniteSet(A) BY FS_Subset DEF UsageLedgerAssumption
<1>2. Cardinality(A) \in Nat BY <1>1, FS_CardinalityType
<1>3. \A c \in A : Cardinality(A \ {c}) = Cardinality(A) - 1 BY <1>1, FS_RemoveElement
<1>4. \A c : c \notin A => Cardinality(A \cup {c}) = Cardinality(A) + 1 BY <1>1, FS_AddElement
<1>5. \A c \in A : Cardinality(A) > 0 BY <1>1, <1>2, FS_EmptySet
<1> QED BY <1>1, <1>2, <1>3, <1>4, <1>5

LEMMA CallParts ==
  ASSUME UsageLedgerAssumption, NEW A, A \subseteq Calls, NEW B, B \subseteq A
  PROVE  /\ Cardinality(A) \in Nat /\ Cardinality(B) \in Nat /\ Cardinality(B) <= Cardinality(A)
         /\ Cardinality(A \ B) = Cardinality(A) - Cardinality(B)
<1>1. IsFiniteSet(A) /\ Cardinality(A) \in Nat /\ Cardinality(B) \in Nat BY CallSets
<1>2. Cardinality(B) <= Cardinality(A) BY <1>1, FS_Subset
<1>3. A \cap B = B OBVIOUS
<1>4. Cardinality(A \ B) = Cardinality(A) - Cardinality(A \cap B) BY <1>1, FS_Difference
<1> QED BY <1>1, <1>2, <1>3, <1>4

GrowthIn(rows) == [c \in Calls |-> rows[c].growth]

\* The growth that reservations hold is a sum,
LEMMA GrowthSumIs ==
  ASSUME UsageLedgerAssumption, NEW g, NEW ns \in SUBSET Calls
  PROVE  GrowthSum(g, ns) = SumOver(GrowthIn(g), ns)
<1>f. IsFiniteSet(ns) BY CallSets
<1> DEFINE A(a) == a = [s \in SUBSET ns |-> IF s = {} THEN 0 ELSE g[First(s)].growth + a[s \ {First(s)}]]
<1>1. \E a : GrowthSum(g, ns) = a[ns] /\ ((\E h : A(h)) => A(a))
  BY DEF GrowthSum, MapThenSumSet, MapThenFoldSet, First
<1>2. \A s \in SUBSET ns : s # {} => g[First(s)].growth = GrowthIn(g)[First(s)]
  <2>1. \A s : s # {} => First(s) \in s BY DEF First
  <2>2. \A s \in SUBSET ns : s # {} => First(s) \in Calls BY <2>1
  <2>3. \A c \in Calls : g[c].growth = GrowthIn(g)[c] BY DEF GrowthIn
  <2> QED BY <2>2, <2>3
<1>3. \A a : A(a) <=> Adds(GrowthIn(g), SUBSET ns, a)
  BY <1>2 DEF Adds
<1>4. PICK a : GrowthSum(g, ns) = a[ns] /\ Adds(GrowthIn(g), SUBSET ns, a)
  BY <1>1, <1>3, <1>f, AddsExists
<1>5. PICK h : SumOver(GrowthIn(g), ns) = h[ns] /\ Adds(GrowthIn(g), SUBSET ns, h)
  BY <1>f, SumAdds
<1> QED BY <1>4, <1>5, <1>f, AddsOn

\* no less than the uploads in it and any one of the others.
LEMMA GrowthCovers ==
  ASSUME UsageLedgerAssumption, NEW g, \A c \in Calls : g[c].growth \in Nat,
         NEW held \in SUBSET Calls, NEW U \in SUBSET held, \A c \in U : g[c].growth = 1
  PROVE  /\ GrowthSum(g, held) \in Nat /\ Cardinality(U) \in Nat /\ Cardinality(U) <= GrowthSum(g, held)
         /\ \A w \in held \ U : g[w].growth + Cardinality(U) <= GrowthSum(g, held)
<1> DEFINE f == GrowthIn(g)
<1>1. \A c \in held : f[c] \in Nat /\ f[c] = g[c].growth BY DEF GrowthIn
<1>2. IsFiniteSet(held) /\ IsFiniteSet(U) /\ Cardinality(U) \in Nat BY CallSets
<1>3. \A c \in U : f[c] = 1 BY <1>1
<1> HIDE DEF f
<1>4. SumOver(f, U) = Cardinality(U) BY <1>2, <1>3, SumOnes
<1>5. SumOver(f, held) \in Nat BY <1>1, <1>2, SumNat
<1>6. SumOver(f, U) <= SumOver(f, held) BY <1>1, <1>2, SumPart
<1>7. ASSUME NEW w \in held \ U PROVE f[w] + Cardinality(U) <= SumOver(f, held)
  <2>1. SumOver(f, held) = f[w] + SumOver(f, held \ {w}) /\ SumOver(f, held \ {w}) \in Nat BY <1>1, <1>2, SumTake
  <2>2. IsFiniteSet(held \ {w}) /\ U \in SUBSET (held \ {w}) /\ \A c \in held \ {w} : f[c] \in Nat
    BY <1>1, <1>2, FS_RemoveElement
  <2>3. SumOver(f, U) <= SumOver(f, held \ {w}) BY <2>2, SumPart
  <2>4. f[w] \in Nat BY <1>1
  <2> QED BY <1>2, <1>4, <2>1, <2>3, <2>4
<1>8. GrowthSum(g, held) = SumOver(f, held) BY GrowthSumIs DEF f
<1> QED BY <1>1, <1>2, <1>4, <1>5, <1>6, <1>7, <1>8

-----------------------------------------------------------------------------
(* The recorded sizes.                                                       *)

LEMMA CurrentRecorded == \A r : Current(r) = Recorded(events, r)
BY DEF Current, Recorded, RecordedIn, Of

LEMMA NewestOnce ==
  ASSUME NEW es \in SUBSET EventRow, NEW r, NEW e, IsNewest(e, Of(es, r))
  PROVE  Recorded(es, r) = e.bytes
<1> PICK x : x = CHOOSE y \in Of(es, r) : \A f \in Of(es, r) \ {y} : Newer(y, f) OBVIOUS
<1>1. x \in Of(es, r) /\ \A f \in Of(es, r) \ {x} : Newer(x, f) BY DEF IsNewest
<1>2. ASSUME x # e PROVE FALSE
  <2>1. Newer(x, e) /\ Newer(e, x) BY <1>1, <1>2 DEF IsNewest
  <2>2. x \in EventRow /\ e \in EventRow BY <1>1 DEF IsNewest, Of
  <2>3. x.at \in Nat /\ e.at \in Nat /\ x.id \in Nat /\ e.id \in Nat BY <2>2 DEF EventRow
  <2> QED BY <2>1, <2>3 DEF Newer
<1> QED BY <1>1, <1>2 DEF Recorded, RecordedIn, IsNewest

\* What is recorded of a resource, and is as new as any event of it.
LEMMA RecordedIs ==
  ASSUME NEW es \in SUBSET EventRow, NEW r, HasNewest(es, r)
  PROVE  /\ Recorded(es, r) \in Nat
         /\ Of(es, r) = {} => Recorded(es, r) = 0
         /\ Of(es, r) # {} => \E x \in Of(es, r) : Recorded(es, r) = x.bytes /\ \A f \in Of(es, r) : f.at <= x.at
<1>1. CASE Of(es, r) = {} BY <1>1 DEF Recorded, RecordedIn
<1>2. CASE Of(es, r) # {}
  <2>1. PICK x \in Of(es, r) : IsNewest(x, Of(es, r)) BY <1>2 DEF HasNewest
  <2>2. Recorded(es, r) = x.bytes BY <2>1, NewestOnce
  <2>3. \A f \in Of(es, r) : f.at \in Nat /\ f.bytes \in Nat BY DEF Of, EventRow
  <2>4. \A f \in Of(es, r) : f.at <= x.at BY <2>1, <2>3 DEF IsNewest, Newer
  <2> QED BY <1>2, <2>1, <2>2, <2>3, <2>4
<1> QED BY <1>1, <1>2

\* A new event: there still is a newest one,
LEMMA NewestAdds ==
  ASSUME NEW es \in SUBSET EventRow, NEW r, HasNewest(es, r), NEW e \in EventRow, \A f \in es : f.id # e.id
  PROVE  HasNewest(es \cup {e}, r)
<1>1. CASE e.resource # r
  <2>1. Of(es \cup {e}, r) = Of(es, r) BY <1>1 DEF Of
  <2> QED BY <2>1 DEF HasNewest
<1>2. CASE e.resource = r
  <2>1. Of(es \cup {e}, r) = Of(es, r) \cup {e} BY <1>2 DEF Of
  <2>2. \A f \in Of(es, r) \cup {e} : f.at \in Nat /\ f.id \in Nat BY DEF Of, EventRow
  <2>3. \A f \in Of(es, r) : f.id # e.id BY DEF Of
  <2>4. \E x \in Of(es, r) \cup {e} : IsNewest(x, Of(es, r) \cup {e})
    <3>1. CASE \A f \in Of(es, r) : Newer(e, f) BY <3>1 DEF IsNewest
    <3>2. CASE \E f \in Of(es, r) : ~Newer(e, f)
      <4>1. PICK f \in Of(es, r) : ~Newer(e, f) BY <3>2
      <4>2. PICK x \in Of(es, r) : IsNewest(x, Of(es, r)) BY <4>1 DEF HasNewest
      <4>3. Newer(f, e) BY <4>1, <2>2, <2>3 DEF Newer
      <4>4. Newer(x, e)
        <5>1. CASE x = f BY <5>1, <4>3
        <5>2. CASE x # f
          <6>1. Newer(x, f) BY <4>1, <4>2, <5>2 DEF IsNewest
          <6> QED BY <6>1, <4>1, <4>2, <4>3, <2>2 DEF Newer
        <5> QED BY <5>1, <5>2
      <4> QED BY <4>2, <4>4 DEF IsNewest
    <3> QED BY <3>1, <3>2
  <2> QED BY <2>1, <2>4 DEF HasNewest
<1> QED BY <1>1, <1>2

\* and of another resource it changes nothing.
LEMMA RecordsOther ==
  ASSUME NEW es, NEW r, NEW e, e.resource # r
  PROVE  Recorded(es \cup {e}, r) = Recorded(es, r)
<1>1. Of(es \cup {e}, r) = Of(es, r) BY DEF Of
<1> QED BY <1>1 DEF Recorded

\* The rows that the ledger and the calls are.
Rows(es, cs, done, sz, time) ==
  /\ UsageLedgerAssumption /\ es \in SUBSET EventRow /\ cs \in [Calls -> CallRow] /\ done \subseteq Calls
  /\ sz["database"] \in Nat /\ sz["objects"] \in Nat /\ time \in Nat

LEMMA CallNumbers ==
  ASSUME NEW es, NEW cs, NEW done, NEW sz, NEW time, Rows(es, cs, done, sz, time)
  PROVE  \A c \in done : /\ c \in Calls /\ cs[c] \in CallRow
                         /\ cs[c].work \in Nat /\ cs[c].at \in Nat /\ cs[c].seen \in Nat /\ cs[c].room \in Nat
BY DEF Rows, CallRow

\* Of the database the most is recorded that any event says,
LEMMA DatabaseCovers ==
  ASSUME NEW es, NEW cs, NEW ss, NEW done, NEW sz, NEW time, Rows(es, cs, done, sz, time),
         EventsGood(es, cs, ss, done, time), WorkGood(cs, done, sz, time)
  PROVE  /\ Recorded(es, "database") \in Nat /\ \A f \in Of(es, "database") : f.bytes <= Recorded(es, "database")
<1>1. HasNewest(es, "database") /\ es \in SUBSET EventRow BY DEF EventsGood, Resources, Rows
<1>2. Recorded(es, "database") \in Nat BY <1>1, RecordedIs
<1>3. ASSUME NEW f \in Of(es, "database") PROVE f.bytes <= Recorded(es, "database")
  <2>1. PICK x \in Of(es, "database") : Recorded(es, "database") = x.bytes /\ f.at <= x.at
    BY <1>1, <1>3, RecordedIs
  <2>2. PICK v \in Writing(cs, done) : f.at = cs[v].work /\ f.bytes = cs[v].seen BY <1>3 DEF EventsGood
  <2>3. PICK w \in Writing(cs, done) : x.at = cs[w].work /\ x.bytes = cs[w].seen BY <2>1 DEF EventsGood
  <2>4. cs[v].work <= cs[w].work BY <2>1, <2>2, <2>3
  <2>5. cs[v].seen <= cs[w].seen BY <2>2, <2>3, <2>4 DEF WorkGood
  <2> QED BY <2>1, <2>2, <2>3, <2>5
<1> QED BY <1>2, <1>3

\* and what is not recorded is in the room of a write that is held,
LEMMA DatabaseBacked ==
  ASSUME NEW es, NEW cs, NEW ss, NEW done, NEW sz, NEW time, Rows(es, cs, done, sz, time),
         EventsGood(es, cs, ss, done, time), WorkGood(cs, done, sz, time),
         \A c \in done : ss[c].status \in {"active", "settled"}
  PROVE  \/ sz["database"] <= Recorded(es, "database")
         \/ \E w \in Writing(cs, Active(ss) \cap done) : sz["database"] <= cs[w].room
<1>1. /\ Recorded(es, "database") \in Nat /\ \A f \in Of(es, "database") : f.bytes <= Recorded(es, "database")
  BY DatabaseCovers
<1>2. CASE sz["database"] = 0 BY <1>1, <1>2
<1>3. CASE sz["database"] # 0
  <2>1. PICK w \in Writing(cs, done) : cs[w].seen = sz["database"] BY <1>3 DEF WorkGood
  <2>2. w \in done /\ cs[w].kind = "write" BY DEF Writing
  <2>3. cs[w].seen <= cs[w].room BY <2>1 DEF WorkGood
  <2>4. w \in Calls BY <2>2 DEF Rows
  <2>5. CASE ss[w].status = "active"
    <3>1. w \in Writing(cs, Active(ss) \cap done) BY <2>2, <2>4, <2>5 DEF Writing, Active
    <3> QED BY <3>1, <2>1, <2>3
  <2>6. CASE ss[w].status = "settled"
    <3>1. PICK e \in Of(es, "database") : e.bytes = cs[w].seen BY <2>2, <2>6 DEF EventsGood, Noted
    <3> QED BY <3>1, <1>1, <2>1
  <2> QED BY <2>2, <2>5, <2>6
<1> QED BY <1>2, <1>3

\* and the objects that are not recorded are uploads that are held.
LEMMA ObjectsBacked ==
  ASSUME NEW es, NEW cs, NEW ss, NEW done, NEW sz, NEW time, Rows(es, cs, done, sz, time),
         EventsGood(es, cs, ss, done, time), WorkGood(cs, done, sz, time),
         \A c \in done : ss[c].status \in {"active", "settled"}, \A e \in es : ~Short(e, cs, done)
  PROVE  /\ Recorded(es, "objects") \in Nat
         /\ sz["objects"] <= Recorded(es, "objects") + Cardinality(Uploading(cs, Active(ss) \cap done))
<1>1. HasNewest(es, "objects") /\ es \in SUBSET EventRow BY DEF EventsGood, Resources, Rows
<1>2. Recorded(es, "objects") \in Nat BY <1>1, RecordedIs
<1> PICK A, B, a, b, co : /\ A = Uploading(cs, done) /\ B = Uploading(cs, Active(ss) \cap done)
                          /\ a = Cardinality(A) /\ b = Cardinality(B) /\ co = Recorded(es, "objects")
  OBVIOUS
<1>3. B \subseteq A /\ A \subseteq Calls /\ UsageLedgerAssumption BY DEF Uploading, Rows
<1>4. a \in Nat /\ b \in Nat /\ b <= a /\ Cardinality(A \ B) = a - b BY <1>3, CallParts
<1>5. \A c \in A \ B : c \in done /\ cs[c].kind = "upload" /\ ss[c].status = "settled"
  BY <1>3 DEF Uploading, Active
<1>6. \A c \in A \ B : \E e \in Of(es, "objects") : cs[c].work <= e.at BY <1>5 DEF EventsGood, Noted
<1>7. sz["objects"] = a BY DEF WorkGood
<1>8. CASE Of(es, "objects") = {}
  <2>1. A \ B = {} BY <1>6, <1>8
  <2>2. a = b BY <2>1, <1>3
  <2> QED BY <2>2, <1>2, <1>4, <1>7
<1>9. CASE Of(es, "objects") # {}
  <2>1. PICK x \in Of(es, "objects") : co = x.bytes /\ \A f \in Of(es, "objects") : f.at <= x.at
    BY <1>1, <1>9, RecordedIs
  <2>2. PICK E, n : E = Earlier(cs, done, x.at) /\ n = Cardinality(E) OBVIOUS
  <2>3. x \in es /\ x.resource = "objects" /\ x.at \in Nat /\ x.bytes \in Nat BY <2>1, <1>1 DEF Of, EventRow
  <2>4. A \ B \subseteq E
    <3> SUFFICES ASSUME NEW c \in A \ B PROVE c \in E OBVIOUS
    <3>1. PICK e \in Of(es, "objects") : cs[c].work <= e.at BY <1>6
    <3>2. e.at \in Nat /\ e.at <= x.at BY <3>1, <2>1, <1>1 DEF Of, EventRow
    <3>3. cs[c].work \in Nat BY <1>5, CallNumbers
    <3>4. cs[c].work <= x.at BY <3>1, <3>2, <3>3, <2>3
    <3> QED BY <3>4, <2>2 DEF Earlier
  <2>5. E \subseteq Calls BY <2>2, <1>3 DEF Earlier
  <2>6. n \in Nat /\ a - b <= n BY <2>2, <2>4, <2>5, <1>3, <1>4, CallParts
  <2>7. ~(x.bytes < n) BY <2>2, <2>3 DEF Short
  <2>8. n <= co BY <2>1, <2>3, <2>6, <2>7
  <2>9. a <= co + b BY <2>6, <2>8, <1>2, <1>4
  <2> QED BY <2>9, <1>2, <1>7
<1> QED BY <1>8, <1>9

-----------------------------------------------------------------------------
(* What the calls do to the balance.                                         *)

Amounts(db, obj, cd, co, held, ss, cs) ==
  /\ UsageLedgerAssumption /\ held \subseteq Calls
  /\ db \in Nat /\ obj \in Nat /\ cd \in Nat /\ co \in Nat
  /\ \A c \in Calls : ss[c].growth \in Nat /\ cs[c].room \in Nat

\* The same amounts in other rows.
SameAmounts(held, ss, cs, ts, ds) ==
  \A c \in held : ds[c].kind = cs[c].kind /\ ds[c].room = cs[c].room /\ ts[c].growth = ss[c].growth

LEMMA BalancedSame ==
  ASSUME NEW db, NEW obj, NEW cd, NEW co, NEW held, NEW done, NEW ss, NEW cs, NEW ts, NEW ds,
         Balanced(db, obj, cd, co, held, done, ss, cs), SameAmounts(held, ss, cs, ts, ds)
  PROVE  Balanced(db, obj, cd, co, held, done, ts, ds)
<1>1. /\ Uploading(ds, held \ done) = Uploading(cs, held \ done) /\ Uploading(ds, held \cap done) = Uploading(cs, held \cap done)
      /\ Writing(ds, held \ done) = Writing(cs, held \ done) /\ Writing(ds, held \cap done) = Writing(cs, held \cap done)
      /\ Writing(ds, held) = Writing(cs, held)
  BY DEF SameAmounts, Uploading, Writing
<1>2. \A w \in Writing(cs, held) : w \in held BY DEF Writing
<1>3. \A w \in Writing(cs, held \ done) : w \in held BY DEF Writing
<1>4. \A w \in Writing(cs, held \cap done) : w \in held BY DEF Writing
<1> QED BY <1>1, <1>2, <1>3, <1>4 DEF SameAmounts, Balanced

\* Reservations whose work was not done are given up.
LEMMA BalancedFewer ==
  ASSUME NEW db, NEW obj, NEW cd, NEW co, NEW held, NEW done, NEW ss, NEW cs, Amounts(db, obj, cd, co, held, ss, cs),
         Balanced(db, obj, cd, co, held, done, ss, cs), NEW rest, rest \subseteq held, held \cap done \subseteq rest
  PROVE  Balanced(db, obj, cd, co, rest, done, ss, cs)
<1>1. rest \cap done = held \cap done OBVIOUS
<1>2. PICK n, m : n = Cardinality(Uploading(cs, held \ done)) /\ m = Cardinality(Uploading(cs, rest \ done)) OBVIOUS
<1>3. n \in Nat /\ m \in Nat /\ m <= n
  <2>1. Uploading(cs, rest \ done) \subseteq Uploading(cs, held \ done) /\ Uploading(cs, held \ done) \subseteq Calls
    BY DEF Uploading, Amounts
  <2> QED BY <2>1, <1>2, CallParts DEF Amounts
<1>4. /\ db + obj + n <= StorageLimit
      /\ \A w \in Writing(cs, held \ done) : cs[w].room + obj + n <= StorageLimit
      /\ \A w \in Writing(cs, held) : cs[w].room <= cd + ss[w].growth
      /\ obj <= co + Cardinality(Uploading(cs, rest \cap done))
      /\ db <= cd \/ \E w \in Writing(cs, rest \cap done) : db <= cd + ss[w].growth
  BY <1>1, <1>2 DEF Balanced
<1>5. db \in Nat /\ obj \in Nat /\ StorageLimit \in Nat BY DEF Amounts, UsageLedgerAssumption
<1>6. \A w \in Writing(cs, rest \ done) : w \in Writing(cs, held \ done) /\ cs[w].room \in Nat
  BY DEF Writing, Amounts
<1>7. \A w \in Writing(cs, rest) : w \in Writing(cs, held) BY DEF Writing
<1>8. db + obj + m <= StorageLimit BY <1>3, <1>4, <1>5
<1>9. ASSUME NEW w \in Writing(cs, rest \ done) PROVE cs[w].room + obj + m <= StorageLimit
  <2>1. PICK r : r = cs[w].room OBVIOUS
  <2>2. r \in Nat /\ r + obj + n <= StorageLimit BY <2>1, <1>4, <1>6
  <2>3. r + obj + m <= StorageLimit BY <2>2, <1>3, <1>5
  <2> QED BY <2>1, <2>3
<1> QED BY <1>2, <1>4, <1>7, <1>8, <1>9 DEF Balanced

\* The work of a write, within its room.
LEMMA BalancedWrite ==
  ASSUME NEW db, NEW obj, NEW cd, NEW co, NEW held, NEW done, NEW ss, NEW cs, Amounts(db, obj, cd, co, held, ss, cs),
         Balanced(db, obj, cd, co, held, done, ss, cs), NEW c \in held \ done, cs[c].kind = "write",
         NEW bytes \in Nat, bytes <= cs[c].room
  PROVE  Balanced(bytes, obj, cd, co, held, done \cup {c}, ss, cs)
<1>1. /\ Uploading(cs, held \ (done \cup {c})) = Uploading(cs, held \ done)
      /\ Uploading(cs, held \cap (done \cup {c})) = Uploading(cs, held \cap done)
  BY DEF Uploading
<1>2. PICK n : n = Cardinality(Uploading(cs, held \ done)) OBVIOUS
<1>3. n \in Nat
  <2>1. Uploading(cs, held \ done) \subseteq Calls BY DEF Uploading, Amounts
  <2> QED BY <2>1, <1>2, CallSets DEF Amounts
<1>4. c \in Writing(cs, held \ done) /\ c \in Writing(cs, held) /\ c \in Writing(cs, held \cap (done \cup {c})) /\ c \in Calls
  BY DEF Writing, Amounts
<1>5. \A w \in Writing(cs, held \ (done \cup {c})) : w \in Writing(cs, held \ done) BY DEF Writing
<1>6. /\ \A w \in Writing(cs, held \ done) : cs[w].room + obj + n <= StorageLimit
      /\ \A w \in Writing(cs, held) : cs[w].room <= cd + ss[w].growth
      /\ obj <= co + Cardinality(Uploading(cs, held \cap done))
  BY <1>2 DEF Balanced
<1>7. obj \in Nat /\ cd \in Nat /\ StorageLimit \in Nat /\ cs[c].room \in Nat /\ ss[c].growth \in Nat
  BY <1>4 DEF Amounts, UsageLedgerAssumption
<1>8. bytes + obj + n <= StorageLimit /\ bytes <= cd + ss[c].growth
  <2>1. PICK r, g : r = cs[c].room /\ g = ss[c].growth OBVIOUS
  <2>2. r \in Nat /\ g \in Nat /\ bytes <= r /\ r + obj + n <= StorageLimit /\ r <= cd + g BY <2>1, <1>4, <1>6, <1>7
  <2>3. bytes + obj + n <= StorageLimit /\ bytes <= cd + g BY <2>2, <1>3, <1>7
  <2> QED BY <2>1, <2>3
<1>9. \A w \in Writing(cs, held \ (done \cup {c})) : cs[w].room + obj + n <= StorageLimit BY <1>5, <1>6
<1> QED BY <1>1, <1>2, <1>4, <1>6, <1>8, <1>9 DEF Balanced

\* The work of an upload.
LEMMA BalancedUpload ==
  ASSUME NEW db, NEW obj, NEW cd, NEW co, NEW held, NEW done, NEW ss, NEW cs, Amounts(db, obj, cd, co, held, ss, cs),
         Balanced(db, obj, cd, co, held, done, ss, cs), NEW c \in held \ done, cs[c].kind = "upload"
  PROVE  Balanced(db, obj + 1, cd, co, held, done \cup {c}, ss, cs)
<1>1. /\ Uploading(cs, held \ (done \cup {c})) = Uploading(cs, held \ done) \ {c}
      /\ Uploading(cs, held \cap (done \cup {c})) = Uploading(cs, held \cap done) \cup {c}
      /\ c \in Uploading(cs, held \ done) /\ c \notin Uploading(cs, held \cap done)
  BY DEF Uploading
<1>2. PICK n, m : n = Cardinality(Uploading(cs, held \ done)) /\ m = Cardinality(Uploading(cs, held \cap done)) OBVIOUS
<1>3. /\ n \in Nat /\ m \in Nat /\ Cardinality(Uploading(cs, held \ (done \cup {c}))) = n - 1
      /\ Cardinality(Uploading(cs, held \cap (done \cup {c}))) = m + 1
  <2>1. Uploading(cs, held \ done) \subseteq Calls /\ Uploading(cs, held \cap done) \subseteq Calls BY DEF Uploading, Amounts
  <2>2. n \in Nat /\ Cardinality(Uploading(cs, held \ done) \ {c}) = n - 1 BY <2>1, <1>1, <1>2, CallSets DEF Amounts
  <2>3. m \in Nat /\ Cardinality(Uploading(cs, held \cap done) \cup {c}) = m + 1 BY <2>1, <1>1, <1>2, CallSets DEF Amounts
  <2> QED BY <2>2, <2>3, <1>1
<1>4. /\ Writing(cs, held \ (done \cup {c})) = Writing(cs, held \ done)
      /\ Writing(cs, held \cap (done \cup {c})) = Writing(cs, held \cap done)
  BY DEF Writing
<1>5. /\ db + obj + n <= StorageLimit
      /\ \A w \in Writing(cs, held \ done) : cs[w].room + obj + n <= StorageLimit
      /\ \A w \in Writing(cs, held) : cs[w].room <= cd + ss[w].growth
      /\ obj <= co + m
      /\ db <= cd \/ \E w \in Writing(cs, held \cap done) : db <= cd + ss[w].growth
  BY <1>2 DEF Balanced
<1>6. obj \in Nat /\ db \in Nat /\ co \in Nat /\ StorageLimit \in Nat BY DEF Amounts, UsageLedgerAssumption
<1>7. \A w \in Writing(cs, held \ done) : cs[w].room \in Nat BY DEF Writing, Amounts
<1>8. db + (obj + 1) + (n - 1) <= StorageLimit /\ obj + 1 <= co + (m + 1) BY <1>3, <1>5, <1>6
<1>9. ASSUME NEW w \in Writing(cs, held \ done) PROVE cs[w].room + (obj + 1) + (n - 1) <= StorageLimit
  <2>1. PICK r : r = cs[w].room OBVIOUS
  <2>2. r \in Nat /\ r + obj + n <= StorageLimit BY <2>1, <1>5, <1>7
  <2>3. r + (obj + 1) + (n - 1) <= StorageLimit BY <2>2, <1>3, <1>6
  <2> QED BY <2>1, <2>3
<1> QED BY <1>3, <1>4, <1>5, <1>8, <1>9 DEF Balanced

\* A registration stores nothing.
LEMMA BalancedOther ==
  ASSUME NEW db, NEW obj, NEW cd, NEW co, NEW held, NEW done, NEW ss, NEW cs,
         Balanced(db, obj, cd, co, held, done, ss, cs), NEW c, cs[c].kind \notin {"write", "upload"}
  PROVE  Balanced(db, obj, cd, co, held, done \cup {c}, ss, cs) /\ Balanced(db, obj, cd, co, held \ {c}, done, ss, cs)
<1>1. /\ Uploading(cs, held \ (done \cup {c})) = Uploading(cs, held \ done)
      /\ Uploading(cs, held \cap (done \cup {c})) = Uploading(cs, held \cap done)
      /\ Writing(cs, held \ (done \cup {c})) = Writing(cs, held \ done)
      /\ Writing(cs, held \cap (done \cup {c})) = Writing(cs, held \cap done)
  BY DEF Uploading, Writing
<1>2. /\ Uploading(cs, (held \ {c}) \ done) = Uploading(cs, held \ done)
      /\ Uploading(cs, (held \ {c}) \cap done) = Uploading(cs, held \cap done)
      /\ Writing(cs, (held \ {c}) \ done) = Writing(cs, held \ done)
      /\ Writing(cs, (held \ {c}) \cap done) = Writing(cs, held \cap done)
      /\ Writing(cs, held \ {c}) = Writing(cs, held)
  BY DEF Uploading, Writing
<1>3. Balanced(db, obj, cd, co, held, done \cup {c}, ss, cs) BY <1>1 DEF Balanced
<1>4. Balanced(db, obj, cd, co, held \ {c}, done, ss, cs) BY <1>2 DEF Balanced
<1> QED BY <1>3, <1>4

\* Events come, and reservations whose work was done are settled.
LEMMA BalancedRecords ==
  ASSUME NEW db, NEW obj, NEW cd, NEW co, NEW held, NEW done, NEW ss, NEW cs, Amounts(db, obj, cd, co, held, ss, cs),
         Balanced(db, obj, cd, co, held, done, ss, cs), NEW rest, rest \subseteq held, rest \ done = held \ done,
         NEW ce \in Nat, cd <= ce, NEW cn, obj <= cn + Cardinality(Uploading(cs, rest \cap done)),
         db <= ce \/ \E w \in Writing(cs, rest \cap done) : db <= cs[w].room
  PROVE  Balanced(db, obj, ce, cn, rest, done, ss, cs)
<1>1. \A w \in Writing(cs, rest) : w \in Writing(cs, held) /\ cs[w].room \in Nat /\ ss[w].growth \in Nat
  BY DEF Writing, Amounts
<1>2. db \in Nat /\ cd \in Nat BY DEF Amounts
<1>3. \A w \in Writing(cs, held) : cs[w].room <= cd + ss[w].growth BY DEF Balanced
<1>4. \A w \in Writing(cs, rest) : cs[w].room <= ce + ss[w].growth BY <1>1, <1>2, <1>3
<1>5. \A w \in Writing(cs, rest \cap done) : w \in Writing(cs, rest) BY DEF Writing
<1>6. \A w \in Writing(cs, rest \cap done) : db <= cs[w].room => db <= ce + ss[w].growth
  <2> TAKE w \in Writing(cs, rest \cap done)
  <2>1. PICK m, g : m = cs[w].room /\ g = ss[w].growth OBVIOUS
  <2>2. m \in Nat /\ g \in Nat /\ m <= ce + g BY <2>1, <1>1, <1>4, <1>5
  <2>3. db <= m => db <= ce + g BY <2>2, <1>2
  <2> QED BY <2>1, <2>3
<1> QED BY <1>4, <1>6 DEF Balanced

\* What is stored and not yet recorded is held by reservations.
LEMMA BalancedHolds ==
  ASSUME NEW db, NEW obj, NEW cd, NEW co, NEW held, NEW done, NEW ss, NEW cs, Amounts(db, obj, cd, co, held, ss, cs),
         Balanced(db, obj, cd, co, held, done, ss, cs), \A c \in Uploading(cs, held) : ss[c].growth = 1
  PROVE  LET n == Cardinality(Uploading(cs, held \ done)) sum == GrowthSum(ss, held)
         IN  /\ n \in Nat /\ sum \in Nat
             /\ obj + n <= co + sum /\ db + obj + n <= cd + co + sum
             /\ \A w \in Writing(cs, held) : cs[w].room + obj + n <= cd + co + sum
<1> PICK U, n, m, u, sum : /\ U = Uploading(cs, held) /\ n = Cardinality(Uploading(cs, held \ done))
                           /\ m = Cardinality(Uploading(cs, held \cap done)) /\ u = Cardinality(U) /\ sum = GrowthSum(ss, held)
  OBVIOUS
<1>1. held \in SUBSET Calls /\ U \in SUBSET held /\ \A c \in Calls : ss[c].growth \in Nat BY DEF Amounts, Uploading
<1>2. /\ sum \in Nat /\ u \in Nat /\ u <= sum /\ \A w \in held \ U : ss[w].growth + u <= sum
  BY <1>1, GrowthCovers DEF Amounts
<1>3. n \in Nat /\ m \in Nat /\ u = n + m
  <2>1. Uploading(cs, held \cap done) \subseteq U /\ U \subseteq Calls BY <1>1 DEF Uploading
  <2>2. Uploading(cs, held \ done) = U \ Uploading(cs, held \cap done) BY DEF Uploading
  <2>3. m \in Nat /\ m <= u /\ n = u - m BY <2>1, <2>2, <1>1, CallParts DEF Amounts
  <2> QED BY <2>3, <1>2
<1>4. \A w \in Writing(cs, held) : w \in held \ U /\ w \in Calls BY DEF Writing, Uploading, Amounts
<1>5. \A w \in Writing(cs, held) : ss[w].growth \in Nat /\ cs[w].room \in Nat /\ ss[w].growth + u <= sum
  BY <1>1, <1>2, <1>4 DEF Amounts
<1>6. db \in Nat /\ obj \in Nat /\ cd \in Nat /\ co \in Nat BY DEF Amounts
<1>7. obj <= co + m /\ \A w \in Writing(cs, held) : cs[w].room <= cd + ss[w].growth BY DEF Balanced
<1>8. obj + n <= co + u BY <1>3, <1>6, <1>7
<1>9. ASSUME NEW w \in Writing(cs, held) PROVE cs[w].room + obj + n <= cd + co + sum
  <2>1. PICK r, g : r = cs[w].room /\ g = ss[w].growth OBVIOUS
  <2>2. r \in Nat /\ g \in Nat /\ g + u <= sum /\ r <= cd + g BY <2>1, <1>5, <1>7
  <2>3. r + obj + n <= cd + co + sum BY <2>2, <1>2, <1>3, <1>6, <1>8
  <2> QED BY <2>1, <2>3
<1>10. db + obj + n <= cd + co + sum
  <2>1. CASE db <= cd BY <2>1, <1>2, <1>3, <1>6, <1>8
  <2>2. CASE \E w \in Writing(cs, held \cap done) : db <= cd + ss[w].growth
    <3>1. PICK w \in Writing(cs, held \cap done) : db <= cd + ss[w].growth BY <2>2
    <3>2. w \in Writing(cs, held) BY DEF Writing
    <3>3. PICK g : g = ss[w].growth OBVIOUS
    <3>4. g \in Nat /\ g + u <= sum /\ db <= cd + g BY <3>1, <3>2, <3>3, <1>5
    <3> QED BY <3>4, <1>2, <1>3, <1>6, <1>8
  <2> QED BY <2>1, <2>2 DEF Balanced
<1>11. obj + n <= co + sum BY <1>2, <1>3, <1>6, <1>8
<1> QED BY <1>2, <1>3, <1>9, <1>10, <1>11

\* A reservation that is admitted.
LEMMA BalancedReserved ==
  ASSUME NEW db, NEW obj, NEW cd, NEW co, NEW held, NEW done, NEW ss, NEW cs, Amounts(db, obj, cd, co, held, ss, cs),
         Balanced(db, obj, cd, co, held, done, ss, cs), \A d \in Uploading(cs, held) : ss[d].growth = 1,
         NEW c \in Calls, c \notin held, c \notin done, NEW growth \in Nat, NEW ts, NEW ds,
         SameAmounts(held, ss, cs, ts, ds), ts[c].growth = growth, ds[c].room = cd + growth \/ ds[c].kind # "write",
         ds[c].kind = "upload" => growth = 1,
         ds[c].kind \in {"write", "upload"} => cd + co + GrowthSum(ss, held) + growth <= StorageLimit
  PROVE  Balanced(db, obj, cd, co, held \cup {c}, done, ts, ds)
<1> PICK n, sum : n = Cardinality(Uploading(cs, held \ done)) /\ sum = GrowthSum(ss, held) OBVIOUS
<1>1. /\ n \in Nat /\ sum \in Nat
      /\ obj + n <= co + sum /\ db + obj + n <= cd + co + sum
      /\ \A w \in Writing(cs, held) : cs[w].room + obj + n <= cd + co + sum
  BY BalancedHolds
<1>2. Balanced(db, obj, cd, co, held, done, ts, ds) BY BalancedSame
<1>3. Uploading(ds, held \ done) = Uploading(cs, held \ done) /\ Writing(ds, held) = Writing(cs, held)
  BY DEF SameAmounts, Uploading, Writing
<1>4. \A w \in Writing(ds, held) : ds[w].room = cs[w].room /\ ds[w].room \in Nat
  BY DEF SameAmounts, Writing, Amounts
<1>5. /\ db + obj + n <= StorageLimit
      /\ \A w \in Writing(ds, held \ done) : ds[w].room + obj + n <= StorageLimit
      /\ \A w \in Writing(ds, held) : ds[w].room <= cd + ts[w].growth
      /\ obj <= co + Cardinality(Uploading(ds, held \cap done))
      /\ db <= cd \/ \E w \in Writing(ds, held \cap done) : db <= cd + ts[w].growth
  BY <1>2, <1>3 DEF Balanced
<1>6. (held \cup {c}) \ done = (held \ done) \cup {c} /\ (held \cup {c}) \cap done = held \cap done OBVIOUS
<1>7. db \in Nat /\ obj \in Nat /\ cd \in Nat /\ co \in Nat /\ StorageLimit \in Nat BY DEF Amounts, UsageLedgerAssumption
<1>8. \A w \in Writing(ds, held \ done) : w \in Writing(ds, held) BY DEF Writing
<1>9. CASE ds[c].kind = "write"
  <2>1. /\ Uploading(ds, (held \ done) \cup {c}) = Uploading(cs, held \ done)
        /\ \A w \in Writing(ds, (held \ done) \cup {c}) : w = c \/ w \in Writing(ds, held \ done)
        /\ \A w \in Writing(ds, held \cup {c}) : w = c \/ w \in Writing(ds, held)
    BY <1>3, <1>9 DEF Uploading, Writing
  <2>2. ds[c].room = cd + growth BY <1>9
  <2>3. ds[c].room + obj + n <= StorageLimit BY <2>2, <1>1, <1>7, <1>9
  <2>4. ds[c].room <= cd + ts[c].growth BY <2>2, <1>7
  <2>5. \A w \in Writing(ds, (held \ done) \cup {c}) : ds[w].room + obj + n <= StorageLimit BY <2>1, <2>3, <1>5
  <2>6. \A w \in Writing(ds, held \cup {c}) : ds[w].room <= cd + ts[w].growth BY <2>1, <2>4, <1>5
  <2> QED BY <2>1, <2>5, <2>6, <1>5, <1>6 DEF Balanced
<1>10. CASE ds[c].kind = "upload"
  <2>1. /\ Uploading(ds, (held \ done) \cup {c}) = Uploading(cs, held \ done) \cup {c}
        /\ c \notin Uploading(cs, held \ done) /\ Uploading(cs, held \ done) \subseteq Calls
        /\ Writing(ds, (held \ done) \cup {c}) = Writing(ds, held \ done)
        /\ Writing(ds, held \cup {c}) = Writing(ds, held)
    BY <1>3, <1>10 DEF Uploading, Writing, Amounts
  <2>2. Cardinality(Uploading(ds, (held \ done) \cup {c})) = n + 1 BY <2>1, CallSets DEF Amounts
  <2>3. cd + co + sum + 1 <= StorageLimit BY <1>10
  <2>4. db + obj + (n + 1) <= StorageLimit BY <2>3, <1>1, <1>7
  <2>5. ASSUME NEW w \in Writing(ds, held \ done) PROVE ds[w].room + obj + (n + 1) <= StorageLimit
    <3>1. PICK r : r = ds[w].room OBVIOUS
    <3>2. r \in Nat /\ r + obj + n <= cd + co + sum BY <3>1, <1>1, <1>3, <1>4, <1>8
    <3>3. r + obj + (n + 1) <= StorageLimit BY <2>3, <3>2, <1>1, <1>7
    <3> QED BY <3>1, <3>3
  <2> QED BY <2>1, <2>2, <2>4, <2>5, <1>5, <1>6 DEF Balanced
<1>11. CASE ds[c].kind \notin {"write", "upload"}
  <2>1. /\ Uploading(ds, (held \ done) \cup {c}) = Uploading(cs, held \ done)
        /\ Writing(ds, (held \ done) \cup {c}) = Writing(ds, held \ done)
        /\ Writing(ds, held \cup {c}) = Writing(ds, held)
    BY <1>3, <1>11 DEF Uploading, Writing
  <2> QED BY <2>1, <1>5, <1>6 DEF Balanced
<1> QED BY <1>9, <1>10, <1>11

-----------------------------------------------------------------------------
(* What the steps do to calls, reservations and claims.                      *)

SameCalls(cs, ds) ==
  \A d \in Calls : ds[d].kind = cs[d].kind /\ ds[d].subject = cs[d].subject /\ ds[d].room = cs[d].room

\* What the API has seen of a call is the same.
SameSeen(call, other) == other.work = call.work /\ other.at = call.at /\ other.seen = call.seen

LEMMA GoesOnly ==
  ASSUME calls \in [Calls -> CallRow], NEW c \in Calls, NEW step \in CallSteps, Goes(c, step)
  PROVE  /\ calls' \in [Calls -> CallRow] /\ SameCalls(calls, calls') /\ \A d \in Calls : SameSeen(calls[d], calls'[d])
         /\ calls'[c].step = step /\ \A d \in Calls : d # c => calls'[d] = calls[d]
<1>1. PICK r : r = calls[c] OBVIOUS
<1>2. r \in CallRow BY <1>1
<1>3. PICK q : q = [r EXCEPT !.step = step] OBVIOUS
<1>4. /\ q \in CallRow /\ q.kind = r.kind /\ q.subject = r.subject /\ q.room = r.room /\ q.step = step
      /\ q.work = r.work /\ q.at = r.at /\ q.seen = r.seen
  BY <1>2, <1>3 DEF CallRow
<1>5. calls' = [calls EXCEPT ![c] = q] BY <1>1, <1>3 DEF Goes
<1>6. calls'[c] = q /\ \A d \in Calls : d # c => calls'[d] = calls[d] BY <1>5
<1>7. calls' \in [Calls -> CallRow] BY <1>4, <1>5
<1>8. SameCalls(calls, calls') BY <1>1, <1>4, <1>6 DEF SameCalls
<1>9. \A d \in Calls : SameSeen(calls[d], calls'[d]) BY <1>1, <1>4, <1>6 DEF SameSeen
<1> QED BY <1>4, <1>6, <1>7, <1>8, <1>9

LEMMA SeesOnly ==
  ASSUME calls \in [Calls -> CallRow], NEW c \in Calls, NEW step \in CallSteps, NEW t \in Nat, NEW bytes \in Nat,
         Sees(c, step, t, bytes)
  PROVE  /\ calls' \in [Calls -> CallRow] /\ SameCalls(calls, calls') /\ \A d \in Calls : d # c => calls'[d] = calls[d]
         /\ calls'[c].step = step /\ calls'[c].work = calls[c].work /\ calls'[c].at = t /\ calls'[c].seen = bytes
<1>1. PICK r : r = calls[c] OBVIOUS
<1>2. r \in CallRow BY <1>1
<1>3. PICK q : q = [r EXCEPT !.step = step, !.at = t, !.seen = bytes] OBVIOUS
<1>4. /\ q \in CallRow /\ q.kind = r.kind /\ q.subject = r.subject /\ q.room = r.room /\ q.step = step
      /\ q.work = r.work /\ q.at = t /\ q.seen = bytes
  BY <1>2, <1>3 DEF CallRow
<1>5. calls' = [calls EXCEPT ![c] = q] BY <1>1, <1>3 DEF Sees
<1>6. calls'[c] = q /\ \A d \in Calls : d # c => calls'[d] = calls[d] BY <1>5
<1>7. calls' \in [Calls -> CallRow] BY <1>4, <1>5
<1>8. SameCalls(calls, calls') BY <1>1, <1>4, <1>6 DEF SameCalls
<1> QED BY <1>1, <1>4, <1>6, <1>7, <1>8

LEMMA WorkedOnly ==
  ASSUME calls \in [Calls -> CallRow], clock \in Nat, NEW c \in Calls, NEW step \in CallSteps, NEW bytes \in Nat,
         WorkedAt(c, bytes, step)
  PROVE  /\ calls' \in [Calls -> CallRow] /\ SameCalls(calls, calls') /\ \A d \in Calls : d # c => calls'[d] = calls[d]
         /\ calls'[c].step = step /\ calls'[c].work = clock + 1 /\ calls'[c].at = clock + 1 /\ calls'[c].seen = bytes
<1>1. PICK r, t : r = calls[c] /\ t = clock + 1 OBVIOUS
<1>2. r \in CallRow /\ t \in Nat BY <1>1
<1>3. PICK q : q = [r EXCEPT !.step = step, !.work = t, !.at = t, !.seen = bytes] OBVIOUS
<1>4. /\ q \in CallRow /\ q.kind = r.kind /\ q.subject = r.subject /\ q.room = r.room /\ q.step = step
      /\ q.work = t /\ q.at = t /\ q.seen = bytes
  BY <1>2, <1>3 DEF CallRow
<1>5. calls' = [calls EXCEPT ![c] = q] BY <1>1, <1>3 DEF WorkedAt
<1>6. calls'[c] = q /\ \A d \in Calls : d # c => calls'[d] = calls[d] BY <1>5
<1>7. calls' \in [Calls -> CallRow] BY <1>4, <1>5
<1>8. SameCalls(calls, calls') BY <1>1, <1>4, <1>6 DEF SameCalls
<1> QED BY <1>1, <1>4, <1>6, <1>7, <1>8

LEMMA SameSets ==
  ASSUME NEW cs, NEW ds, SameCalls(cs, ds), NEW held, held \subseteq Calls
  PROVE  Writing(ds, held) = Writing(cs, held) /\ \A s : Users(ds, held, s) = Users(cs, held, s)
BY DEF SameCalls, Writing, Users

\* A reservation that ends: active no longer, whatever it becomes.
Ends(c, ss, ts) ==
  /\ ts \in [Calls -> SlotRow]
  /\ \A d \in Calls : ts[d].growth = ss[d].growth
  /\ \A d \in Calls : d # c => ts[d] = ss[d]
  /\ Active(ts) = Active(ss) \ {c}

\* release_reservation, release_mau_claim.
LEMMA ReleaseEnds ==
  ASSUME LedgerTyped, NEW c \in Calls, calls[c].subject \in Subjects, ReleaseSlot(c)
  PROVE  /\ Ends(c, slots, slots') /\ slots'[c].late = slots[c].late
         /\ slots'[c].status = (IF slots[c].status = "active" THEN "released" ELSE slots[c].status)
         /\ claims' \in [Subjects -> ClaimRow]
         /\ \A s \in Subjects : claims'[s] = IF s = calls[c].subject /\ slots[c].status = "active"
                                            THEN Dropped(claims[s], 1) ELSE claims[s]
<1>t. slots \in [Calls -> SlotRow] /\ claims \in [Subjects -> ClaimRow] BY DEF LedgerTyped
<1>1. CASE slots[c].status = "active"
  <2>1. c \in Held BY <1>1 DEF Held
  <2>2. PICK r, q : r = slots[c] /\ q = [r EXCEPT !.status = "released"] OBVIOUS
  <2>3. q \in SlotRow /\ q.growth = r.growth /\ q.late = r.late /\ q.status = "released"
    BY <2>2, <1>t DEF SlotRow
  <2>4. slots' = [slots EXCEPT ![c] = q] BY <2>1, <2>2 DEF ReleaseSlot
  <2>5. slots'[c] = q /\ \A d \in Calls : d # c => slots'[d] = slots[d] BY <1>t, <2>4
  <2>6. slots' \in [Calls -> SlotRow] BY <1>t, <2>3, <2>4
  <2>7. Active(slots') = Active(slots) \ {c} BY <2>3, <2>5 DEF Active
  <2>8. PICK s : s = calls[c].subject OBVIOUS
  <2>9. PICK d : d = Dropped(claims[s], 1) OBVIOUS
  <2>10. claims' = [claims EXCEPT ![s] = d] BY <2>1, <2>8, <2>9 DEF ReleaseSlot
  <2>11. d \in ClaimRow
    <3>1. PICK a : a = claims[s] OBVIOUS
    <3>2. a \in ClaimRow BY <3>1, <2>8, <1>t
    <3> QED BY <3>1, <3>2, <2>9 DEF Dropped, ClaimRow
  <2>12. claims' \in [Subjects -> ClaimRow] BY <2>10, <2>11, <1>t
  <2>13. \A x \in Subjects : claims'[x] = IF x = s THEN d ELSE claims[x] BY <2>10, <1>t
  <2>14. \A x \in Subjects : claims'[x] = IF x = calls[c].subject /\ slots[c].status = "active" THEN Dropped(claims[x], 1) ELSE claims[x]
    BY <2>13, <2>8, <2>9, <1>1
  <2>15. Ends(c, slots, slots') BY <2>2, <2>3, <2>5, <2>6, <2>7 DEF Ends
  <2> QED BY <2>2, <2>3, <2>5, <2>12, <2>14, <2>15, <1>1
<1>2. CASE slots[c].status # "active"
  <2>1. slots' = slots /\ claims' = claims BY <1>2 DEF ReleaseSlot, Held
  <2>2. Active(slots') = Active(slots) \ {c} BY <2>1, <1>2 DEF Active
  <2> QED BY <2>1, <2>2, <1>2, <1>t DEF Ends
<1> QED BY <1>1, <1>2

\* settle_reservation.
LEMMA SettleEnds ==
  ASSUME LedgerTyped, NEW c \in Calls, calls[c].subject \in Subjects, SettleReservation(c)
  PROVE  /\ Ends(c, slots, slots') /\ slots'[c].status = "settled"
         /\ slots'[c].late = (IF slots[c].status = "expired" THEN 1 ELSE 0)
         /\ claims' \in [Subjects -> ClaimRow]
         /\ \A s \in Subjects : claims'[s] = IF s = calls[c].subject THEN Activated(claims[s]) ELSE claims[s]
<1>t. slots \in [Calls -> SlotRow] /\ claims \in [Subjects -> ClaimRow] BY DEF LedgerTyped
<1>1. PICK r, late : r = slots[c] /\ late = (IF r.status = "expired" THEN 1 ELSE 0) OBVIOUS
<1>2. PICK q : q = [r EXCEPT !.status = "settled", !.late = late] OBVIOUS
<1>3. r \in SlotRow /\ late \in {0, 1} BY <1>1, <1>t
<1>4. q \in SlotRow /\ q.growth = r.growth /\ q.late = late /\ q.status = "settled"
  BY <1>2, <1>3 DEF SlotRow
<1>5. slots' = [slots EXCEPT ![c] = q] BY <1>1, <1>2 DEF SettleReservation
<1>6. slots'[c] = q /\ \A d \in Calls : d # c => slots'[d] = slots[d] BY <1>t, <1>5
<1>7. slots' \in [Calls -> SlotRow] BY <1>t, <1>4, <1>5
<1>8. Active(slots') = Active(slots) \ {c} BY <1>4, <1>6 DEF Active
<1>9. Ends(c, slots, slots') BY <1>1, <1>4, <1>6, <1>7, <1>8 DEF Ends
<1>10. PICK s, d : s = calls[c].subject /\ d = Activated(claims[s]) OBVIOUS
<1>11. claims' = [claims EXCEPT ![s] = d] BY <1>10 DEF SettleReservation
<1>12. d \in ClaimRow
  <2>1. PICK a, b : a = claims[s] /\ b = Dropped(a, 1) OBVIOUS
  <2>2. a \in ClaimRow BY <2>1, <1>10, <1>t
  <2>3. b \in ClaimRow BY <2>1, <2>2 DEF Dropped, ClaimRow
  <2>4. d = [b EXCEPT !.active = 1] BY <2>1, <1>10 DEF Activated
  <2> QED BY <2>3, <2>4 DEF ClaimRow
<1>13. claims' \in [Subjects -> ClaimRow] BY <1>11, <1>12, <1>t
<1>14. \A x \in Subjects : claims'[x] = IF x = s THEN d ELSE claims[x] BY <1>11, <1>t
<1>15. \A x \in Subjects : claims'[x] = IF x = calls[c].subject THEN Activated(claims[x]) ELSE claims[x]
  BY <1>14, <1>10
<1> QED BY <1>1, <1>4, <1>6, <1>9, <1>13, <1>15

\* Claims: reservations leave,
LEMMA ClaimDrops ==
  ASSUME NEW claim \in ClaimRow, NEW n \in Nat, NEW known, ClaimFits(claim, n, known), NEW k \in Nat, k <= n
  PROVE  Dropped(claim, k) \in ClaimRow /\ ClaimFits(Dropped(claim, k), n - k, known)
<1>1. PICK a, m : a = claim.active /\ m = claim.count OBVIOUS
<1>2. a \in {0, 1} /\ m \in Nat /\ m <= n /\ (a = 0 => m = n) /\ (a = 1 <=> known) BY <1>1 DEF ClaimRow, ClaimFits
<1>3. PICK l : l = IF m > k THEN m - k ELSE 0 OBVIOUS
<1>4. l \in Nat /\ l <= n - k /\ (a = 0 => l = n - k) BY <1>2, <1>3
<1>5. PICK d : d = Dropped(claim, k) OBVIOUS
<1>6. d = [claim EXCEPT !.count = l] BY <1>1, <1>3, <1>5 DEF Dropped
<1>7. d \in ClaimRow /\ d.count = l /\ d.active = a BY <1>1, <1>4, <1>6 DEF ClaimRow
<1> QED BY <1>2, <1>4, <1>5, <1>7 DEF ClaimFits

\* one is settled,
LEMMA ClaimActivates ==
  ASSUME NEW claim \in ClaimRow, NEW n \in Nat, NEW known, ClaimFits(claim, n, known), NEW m \in Nat, n - 1 <= m
  PROVE  ClaimFits(Activated(claim), m, TRUE)
<1>1. PICK l : l = claim.count OBVIOUS
<1>2. l \in Nat /\ l <= n BY <1>1 DEF ClaimRow, ClaimFits
<1>3. PICK k : k = IF l > 1 THEN l - 1 ELSE 0 OBVIOUS
<1>4. k \in Nat /\ k <= m BY <1>2, <1>3
<1>5. PICK d, e : d = Dropped(claim, 1) /\ e = Activated(claim) OBVIOUS
<1>6. d = [claim EXCEPT !.count = k] BY <1>1, <1>3, <1>5 DEF Dropped
<1>7. d \in ClaimRow /\ d.count = k BY <1>4, <1>6 DEF ClaimRow
<1>8. e = [d EXCEPT !.active = 1] BY <1>5 DEF Activated
<1>9. e.count = k /\ e.active = 1 BY <1>7, <1>8 DEF ClaimRow
<1> QED BY <1>4, <1>5, <1>9 DEF ClaimFits

\* or comes.
LEMMA ClaimGrows ==
  ASSUME NEW claim \in ClaimRow, NEW n \in Nat, NEW known, ClaimFits(claim, n, known),
         NEW d, d = [claim EXCEPT !.count = @ + 1]
  PROVE  d \in ClaimRow /\ ClaimFits(d, n + 1, known)
<1>1. PICK a, m : a = claim.active /\ m = claim.count OBVIOUS
<1>2. a \in {0, 1} /\ m \in Nat /\ m <= n /\ (a = 0 => m = n) /\ (a = 1 <=> known) BY <1>1 DEF ClaimRow, ClaimFits
<1>3. d \in ClaimRow /\ d.count = m + 1 /\ d.active = a BY <1>1, <1>2 DEF ClaimRow
<1> QED BY <1>2, <1>3 DEF ClaimFits

-----------------------------------------------------------------------------
(* The steps that end a reservation or none.                                 *)

LEMMA UsageRows ==
  ASSUME UsageLedgerAssumption, UsageInvariant
  PROVE  Rows(events, calls, ran, occupied, clock)
BY DEF UsageInvariant, LedgerTyped, Resources, Rows

LEMMA UsageAmounts ==
  ASSUME UsageLedgerAssumption, UsageInvariant
  PROVE  Amounts(occupied["database"], occupied["objects"], Recorded(events, "database"), Recorded(events, "objects"),
                 Active(slots), slots, calls)
<1>1. occupied["database"] \in Nat /\ occupied["objects"] \in Nat BY DEF UsageInvariant, LedgerTyped, Resources
<1>2. HasNewest(events, "database") /\ HasNewest(events, "objects") /\ events \in SUBSET EventRow
  BY DEF UsageInvariant, EventsFit, EventsGood, LedgerTyped, Resources
<1>3. Recorded(events, "database") \in Nat /\ Recorded(events, "objects") \in Nat BY <1>2, RecordedIs
<1>4. \A c \in Calls : slots[c].growth \in Nat /\ calls[c].room \in Nat
  BY DEF UsageInvariant, LedgerTyped, SlotRow, CallRow
<1> QED BY <1>1, <1>3, <1>4 DEF Amounts, Active

LEMMA HeldCalls ==
  ASSUME UsageInvariant, NEW c \in Calls
  PROVE  CallFits(calls[c], slots[c], c \in ran) /\ calls[c] \in CallRow /\ slots[c] \in SlotRow
BY DEF UsageInvariant, CallsFit, LedgerTyped

\* What was done had a reservation.
LEMMA RunHeld ==
  ASSUME NEW call, NEW slot \in SlotRow, NEW done, done, CallFits(call, slot, done)
  PROVE  slot.status \in {"active", "settled", "released", "expired"}
BY DEF CallFits, SlotRow

\* Writes: a reservation ends unsettled,
LEMMA WritesEnd ==
  ASSUME UsageLedgerAssumption, UsageInvariant, NEW c \in Calls, SameCalls(calls, calls'), Ends(c, slots, slots'),
         slots'[c].late = slots[c].late, metered' = metered
  PROVE  WritesCounted'
<1>1. LateOnes(slots') = LateOnes(slots) BY DEF LateOnes, Ends
<1>2. Writing(calls', Active(slots')) \subseteq Writing(calls, Active(slots)) /\ Writing(calls, Active(slots)) \subseteq Calls
  BY DEF Writing, Active, Ends, SameCalls
<1>3. PICK n, m, l : /\ n = Cardinality(Writing(calls, Active(slots))) /\ m = Cardinality(Writing(calls', Active(slots')))
                     /\ l = Cardinality(LateOnes(slots))
  OBVIOUS
<1>4. n \in Nat /\ m \in Nat /\ m <= n BY <1>2, <1>3, CallParts
<1>5. LateOnes(slots) \subseteq Calls BY DEF LateOnes
<1>6. l \in Nat BY <1>3, <1>5, CallSets
<1>7. metered \in Nat /\ WriteLimit \in Nat /\ metered + n <= WriteLimit + l
  BY <1>3 DEF UsageInvariant, LedgerTyped, WritesCounted, UsageLedgerAssumption
<1>8. metered + m <= WriteLimit + l BY <1>4, <1>6, <1>7
<1> QED BY <1>1, <1>3, <1>8 DEF WritesCounted

\* or is settled.
LEMMA WritesSettle ==
  ASSUME UsageLedgerAssumption, UsageInvariant, NEW c \in Calls, SameCalls(calls, calls'), Ends(c, slots, slots'),
         slots[c].status \in {"active", "expired"}, slots'[c].late = (IF slots[c].status = "expired" THEN 1 ELSE 0),
         metered' = metered + Units(calls[c].kind)
  PROVE  WritesCounted'
<1>0. slots[c].late = 0 BY HeldCalls DEF CallFits, SlotRow
<1>1. LateOnes(slots') = IF slots[c].status = "expired" THEN LateOnes(slots) \cup {c} ELSE LateOnes(slots)
  BY <1>0 DEF LateOnes, Ends
<1>2. Active(slots) \subseteq Calls /\ Active(slots') = Active(slots) \ {c} BY DEF Active, Ends
<1>3. Writing(calls', Active(slots')) = Writing(calls, Active(slots)) \ {c} /\ Writing(calls, Active(slots)) \subseteq Calls
  BY <1>2 DEF Writing, SameCalls
<1>4. PICK n, m, l, k : /\ n = Cardinality(Writing(calls, Active(slots))) /\ m = Cardinality(Writing(calls', Active(slots')))
                        /\ l = Cardinality(LateOnes(slots)) /\ k = Cardinality(LateOnes(slots'))
  OBVIOUS
<1>5. n \in Nat BY <1>3, <1>4, CallSets
<1>6. LateOnes(slots) \subseteq Calls /\ c \notin LateOnes(slots) BY <1>0 DEF LateOnes
<1>7. l \in Nat /\ k = (IF slots[c].status = "expired" THEN l + 1 ELSE l) BY <1>1, <1>4, <1>6, CallSets
<1>8. metered \in Nat /\ WriteLimit \in Nat /\ metered + n <= WriteLimit + l
  BY <1>4 DEF UsageInvariant, LedgerTyped, WritesCounted, UsageLedgerAssumption
<1>9. CASE c \in Writing(calls, Active(slots))
  <2>1. m = n - 1 /\ n > 0 BY <1>3, <1>4, <1>9, CallSets
  <2>2. k = l /\ metered' = metered + 1 BY <1>7, <1>9 DEF Writing, Active, Units
  <2>3. metered' + m <= WriteLimit + k BY <2>1, <2>2, <1>5, <1>7, <1>8
  <2> QED BY <2>3, <1>4 DEF WritesCounted
<1>10. CASE c \notin Writing(calls, Active(slots))
  <2>1. m = n BY <1>3, <1>4, <1>10
  <2>2. \/ metered' = metered /\ k \in {l, l + 1}
        \/ metered' = metered + 1 /\ k = l + 1
    BY <1>7, <1>8, <1>10 DEF Writing, Active, Units
  <2>3. metered' + m <= WriteLimit + k BY <2>1, <2>2, <1>5, <1>7, <1>8
  <2> QED BY <2>3, <1>4 DEF WritesCounted
<1> QED BY <1>9, <1>10

\* The users of the reservations that are left.
LEMMA UsersEnd ==
  ASSUME UsageLedgerAssumption, NEW c \in Calls, SameCalls(calls, calls'), Ends(c, slots, slots'), NEW s
  PROVE  LET n == Cardinality(Users(calls, Active(slots), s)) m == Cardinality(Users(calls', Active(slots'), s))
         IN  /\ n \in Nat /\ m \in Nat
             /\ IF c \in Active(slots) /\ calls[c].subject = s THEN n > 0 /\ m = n - 1 ELSE m = n
<1>1. Active(slots) \subseteq Calls /\ Active(slots') = Active(slots) \ {c} BY DEF Active, Ends
<1>2. Users(calls', Active(slots'), s) = Users(calls, Active(slots), s) \ {c} /\ Users(calls, Active(slots), s) \subseteq Calls
  BY <1>1 DEF Users, SameCalls
<1>3. c \in Users(calls, Active(slots), s) <=> c \in Active(slots) /\ calls[c].subject = s BY DEF Users
<1>4. CASE c \in Users(calls, Active(slots), s) BY <1>2, <1>3, <1>4, CallSets
<1>5. CASE c \notin Users(calls, Active(slots), s)
  <2>1. Users(calls', Active(slots'), s) = Users(calls, Active(slots), s) BY <1>2, <1>5
  <2> QED BY <2>1, <1>2, <1>3, <1>5, CallSets
<1> QED BY <1>4, <1>5

LEMMA ClaimsEnd ==
  ASSUME UsageLedgerAssumption, UsageInvariant, NEW c \in Calls, SameCalls(calls, calls'), Ends(c, slots, slots'), events' = events,
         \A s \in Subjects : claims'[s] = IF s = calls[c].subject /\ slots[c].status = "active"
                                         THEN Dropped(claims[s], 1) ELSE claims[s]
  PROVE  ClaimsFit'
<1> SUFFICES ASSUME NEW s \in Subjects
             PROVE  ClaimFits(claims'[s], Cardinality(Users(calls', Active(slots'), s)), \E e \in events' : e.subject = s)
  BY DEF ClaimsFit
<1>1. PICK n, m, known : /\ n = Cardinality(Users(calls, Active(slots), s)) /\ m = Cardinality(Users(calls', Active(slots'), s))
                         /\ known = (\E e \in events : e.subject = s)
  OBVIOUS
<1>2. /\ n \in Nat /\ m \in Nat
      /\ IF c \in Active(slots) /\ calls[c].subject = s THEN n > 0 /\ m = n - 1 ELSE m = n
  BY <1>1, UsersEnd
<1>3. ClaimFits(claims[s], n, known) /\ claims[s] \in ClaimRow BY <1>1 DEF UsageInvariant, ClaimsFit, LedgerTyped
<1>4. c \in Active(slots) <=> slots[c].status = "active" BY DEF Active
<1>5. CASE c \in Active(slots) /\ calls[c].subject = s
  <2>1. ClaimFits(Dropped(claims[s], 1), n - 1, known) BY <1>2, <1>3, <1>5, ClaimDrops
  <2> QED BY <2>1, <1>1, <1>2, <1>4, <1>5
<1>6. CASE ~(c \in Active(slots) /\ calls[c].subject = s) BY <1>1, <1>2, <1>3, <1>4, <1>6
<1> QED BY <1>5, <1>6

LEMMA ClaimsSettle ==
  ASSUME UsageLedgerAssumption, UsageInvariant, NEW c \in Calls, SameCalls(calls, calls'), Ends(c, slots, slots'),
         NEW e, e.subject = calls[c].subject, events' = events \cup {e},
         \A s \in Subjects : claims'[s] = IF s = calls[c].subject THEN Activated(claims[s]) ELSE claims[s]
  PROVE  ClaimsFit'
<1> SUFFICES ASSUME NEW s \in Subjects
             PROVE  ClaimFits(claims'[s], Cardinality(Users(calls', Active(slots'), s)), \E f \in events' : f.subject = s)
  BY DEF ClaimsFit
<1>1. PICK n, m, known : /\ n = Cardinality(Users(calls, Active(slots), s)) /\ m = Cardinality(Users(calls', Active(slots'), s))
                         /\ known = (\E f \in events : f.subject = s)
  OBVIOUS
<1>2. /\ n \in Nat /\ m \in Nat
      /\ IF c \in Active(slots) /\ calls[c].subject = s THEN n > 0 /\ m = n - 1 ELSE m = n
  BY <1>1, UsersEnd
<1>3. ClaimFits(claims[s], n, known) /\ claims[s] \in ClaimRow BY <1>1 DEF UsageInvariant, ClaimsFit, LedgerTyped
<1>4. CASE calls[c].subject = s
  <2>1. n - 1 <= m BY <1>2
  <2>2. ClaimFits(Activated(claims[s]), m, TRUE) BY <2>1, <1>2, <1>3, ClaimActivates
  <2>3. (\E f \in events' : f.subject = s) = TRUE BY <1>4
  <2> QED BY <2>2, <2>3, <1>1, <1>4
<1>5. CASE calls[c].subject # s
  <2>1. (\E f \in events' : f.subject = s) = known BY <1>1, <1>5
  <2>2. claims'[s] = claims[s] /\ m = n BY <1>2, <1>5
  <2> QED BY <2>1, <2>2, <1>1, <1>3
<1> QED BY <1>4, <1>5

\* A step that changes neither what is done nor when, or does one more thing.
KeepsWork(cs, ds, done, more, time) ==
  /\ done \subseteq more
  /\ \A d \in done : ds[d].kind = cs[d].kind /\ ds[d].subject = cs[d].subject /\ ds[d].room = cs[d].room
                     /\ ds[d].work = cs[d].work
  /\ \A d \in more \ done : ds[d].work = time + 1

LEMMA EarlierStays ==
  ASSUME NEW cs, NEW ds, NEW done, NEW more, NEW time \in Nat, KeepsWork(cs, ds, done, more, time), NEW t \in Nat, t <= time
  PROVE  Earlier(ds, more, t) = Earlier(cs, done, t)
<1>1. ~(time + 1 <= t) OBVIOUS
<1>2. \A d \in more \ done : d \notin Earlier(ds, more, t) BY <1>1 DEF KeepsWork, Earlier
<1>3. \A d \in done : d \in Earlier(ds, more, t) <=> d \in Earlier(cs, done, t) BY DEF KeepsWork, Earlier, Uploading
<1>4. \A d : d \in Earlier(ds, more, t) => d \in more BY DEF Earlier, Uploading
<1>5. \A d : d \in Earlier(cs, done, t) => d \in done BY DEF Earlier, Uploading
<1>6. \A d \in done : d \in more BY DEF KeepsWork
<1> QED BY <1>2, <1>3, <1>4, <1>5, <1>6

ShortsStay == \A e \in events : Short(e, calls, ran) => Short(e, calls', ran')

LEMMA ShortSame ==
  ASSUME NEW es \in SUBSET EventRow, NEW cs, NEW ds, NEW done, NEW more, NEW time \in Nat,
         KeepsWork(cs, ds, done, more, time), \A e \in Of(es, "objects") : e.at <= time
  PROVE  \A e \in es : Short(e, ds, more) <=> Short(e, cs, done)
<1> TAKE e \in es
<1>1. CASE e.resource # "objects" BY <1>1 DEF Short
<1>2. CASE e.resource = "objects"
  <2>1. e.at \in Nat /\ e.at <= time BY <1>2 DEF Of, EventRow
  <2>2. Earlier(ds, more, e.at) = Earlier(cs, done, e.at) BY <2>1, EarlierStays
  <2> QED BY <2>2 DEF Short
<1> QED BY <1>1, <1>2

LEMMA ShortsOn ==
  ASSUME UsageInvariant, KeepsWork(calls, calls', ran, ran', clock)
  PROVE  ShortsStay
BY ShortSame DEF UsageInvariant, LedgerTyped, EventsFit, EventsGood, ShortsStay

\* The events stay, and more may be settled that left something behind.
LEMMA EventsOn ==
  ASSUME NEW es \in SUBSET EventRow, NEW cs, NEW ds, NEW ss, NEW ts, NEW done, NEW more, NEW time \in Nat, NEW later \in Nat,
         time <= later, EventsGood(es, cs, ss, done, time), KeepsWork(cs, ds, done, more, time),
         \A w \in Writing(cs, done) : ds[w].seen = cs[w].seen,
         \A c \in more : ts[c].status = "settled" => (c \in done /\ ss[c].status = "settled") \/ Noted(es, ds, c)
  PROVE  EventsGood(es, ds, ts, more, later)
<1>1. \A e \in Of(es, "objects") : e.at \in Nat /\ e.at <= time BY DEF EventsGood, Of, EventRow
<1>2. \A e \in es : Short(e, ds, more) <=> Short(e, cs, done) BY <1>1, ShortSame
<1>3. \A w \in Writing(cs, done) : w \in Writing(ds, more) /\ ds[w].work = cs[w].work BY DEF Writing, KeepsWork
<1>4. \A e \in Of(es, "database") : \E w \in Writing(ds, more) : e.at = ds[w].work /\ e.bytes = ds[w].seen
  BY <1>3 DEF EventsGood
<1>5. \A e \in Of(es, "objects") : e.at <= later BY <1>1
<1>6. ASSUME NEW c \in done, ss[c].status = "settled" PROVE Noted(es, ds, c)
  <2>1. Noted(es, cs, c) BY <1>6 DEF EventsGood
  <2>2. ds[c].kind = cs[c].kind /\ ds[c].work = cs[c].work /\ ds[c].subject = cs[c].subject BY DEF KeepsWork
  <2>3. cs[c].kind = "write" => ds[c].seen = cs[c].seen BY DEF Writing
  <2> QED BY <2>1, <2>2, <2>3 DEF Noted
<1>7. \A c \in more : ts[c].status = "settled" => Noted(es, ds, c) BY <1>6
<1> QED BY <1>2, <1>4, <1>5, <1>7 DEF EventsGood

\* An event comes.
LEMMA EventsAdd ==
  ASSUME NEW es \in SUBSET EventRow, NEW cs, NEW ss, NEW done, NEW time, EventsGood(es, cs, ss, done, time),
         NEW e \in EventRow, \A f \in es : f.id # e.id,
         e.resource = "database" => \E w \in Writing(cs, done) : e.at = cs[w].work /\ e.bytes = cs[w].seen,
         e.resource = "objects" => e.at <= time,
         \A c \in Calls : e.id = EventId(c) => ~Short(e, cs, done)
  PROVE  EventsGood(es \cup {e}, cs, ss, done, time)
<1>1. \A r \in Resources : HasNewest(es \cup {e}, r) BY NewestAdds DEF EventsGood
<1>2. \A r : Of(es, r) \subseteq Of(es \cup {e}, r) BY DEF Of
<1>3. \A r : \A f \in Of(es \cup {e}, r) : f \in Of(es, r) \/ (f = e /\ e.resource = r) BY DEF Of
<1>4. \A c \in done : ss[c].status = "settled" => Noted(es \cup {e}, cs, c) BY <1>2 DEF EventsGood, Noted
<1>5. \A f, g \in es \cup {e} : f.id = g.id => f = g BY DEF EventsGood
<1>6. \A f \in Of(es \cup {e}, "database") : \E w \in Writing(cs, done) : f.at = cs[w].work /\ f.bytes = cs[w].seen
  BY <1>3 DEF EventsGood
<1>7. \A f \in Of(es \cup {e}, "objects") : f.at <= time BY <1>3 DEF EventsGood
<1>8. \A c \in Calls : \A f \in es \cup {e} : f.id = EventId(c) => ~Short(f, cs, done) BY DEF EventsGood
<1> QED BY <1>1, <1>4, <1>5, <1>6, <1>7, <1>8 DEF EventsGood

\* A call that only goes on, or sees the size of the objects.
SeesOn(call, other, size, time) ==
  \/ SameSeen(call, other) /\ (other.step = call.step \/ other.step # "measured")
  \/ /\ call.kind = "upload" /\ other.work <= other.at /\ other.at <= time
     /\ other.step = "measured" => other.seen = size

LEMMA WorkOn ==
  ASSUME NEW es, NEW cs, NEW ds, NEW done, NEW sz, NEW time, Rows(es, cs, done, sz, time), WorkGood(cs, done, sz, time),
         ds \in [Calls -> CallRow], NEW later \in Nat, time <= later, KeepsWork(cs, ds, done, done, time),
         \A d \in done : SeesOn(cs[d], ds[d], sz["objects"], later)
  PROVE  WorkGood(ds, done, sz, later)
<1>1. Rows(es, ds, done, sz, later) BY DEF Rows
<1>2. /\ \A c \in done : /\ cs[c].work \in Nat /\ cs[c].at \in Nat /\ cs[c].seen \in Nat
                          /\ ds[c].work \in Nat /\ ds[c].at \in Nat /\ ds[c].seen \in Nat
      /\ time \in Nat
  BY <1>1, CallNumbers DEF Rows
<1>3. Writing(ds, done) = Writing(cs, done) /\ Uploading(ds, done) = Uploading(cs, done)
  BY DEF Writing, Uploading, KeepsWork
<1>4. \A w \in Writing(cs, done) : SameSeen(cs[w], ds[w]) /\ ds[w].room = cs[w].room BY DEF Writing, SeesOn, KeepsWork
<1>5. ASSUME NEW c \in done PROVE ds[c].work <= ds[c].at /\ ds[c].at <= later
  <2>1. cs[c].work <= cs[c].at /\ cs[c].at <= time BY DEF WorkGood
  <2>2. CASE SameSeen(cs[c], ds[c])
    <3>1. ds[c].work <= ds[c].at /\ ds[c].at <= time BY <2>1, <2>2 DEF SameSeen
    <3> QED BY <3>1, <1>2
  <2>3. CASE ds[c].work <= ds[c].at /\ ds[c].at <= later BY <2>3
  <2> QED BY <2>2, <2>3 DEF SeesOn
<1>6. \A t : Earlier(ds, done, t) = Earlier(cs, done, t) BY <1>3 DEF Earlier, KeepsWork, Uploading
<1>7. ASSUME NEW c \in Uploading(ds, done), ds[c].step = "measured"
      PROVE  Cardinality(Earlier(ds, done, ds[c].at)) <= ds[c].seen
  <2>1. c \in Uploading(cs, done) /\ c \in done BY <1>3 DEF Uploading
  <2>2. CASE SameSeen(cs[c], ds[c]) /\ cs[c].step = "measured"
    <3>1. Cardinality(Earlier(cs, done, cs[c].at)) <= cs[c].seen BY <2>1, <2>2 DEF WorkGood
    <3> QED BY <3>1, <2>2, <1>6 DEF SameSeen
  <2>3. CASE ds[c].seen = sz["objects"]
    <3>1. Earlier(cs, done, ds[c].at) \subseteq Uploading(cs, done) /\ Uploading(cs, done) \subseteq Calls
      BY DEF Earlier, Uploading, Rows
    <3>2. Cardinality(Earlier(cs, done, ds[c].at)) <= Cardinality(Uploading(cs, done)) BY <3>1, CallParts DEF Rows
    <3> QED BY <3>2, <2>3, <1>6 DEF WorkGood
  <2> QED BY <1>7, <2>1, <2>2, <2>3 DEF SeesOn
<1>8. \A w \in Writing(cs, done) : ds[w].at = ds[w].work /\ ds[w].seen <= ds[w].room /\ ds[w].seen <= sz["database"]
  BY <1>4 DEF WorkGood, SameSeen
<1>9. \A v, w \in Writing(cs, done) : ds[v].work <= ds[w].work => ds[v].seen <= ds[w].seen BY <1>4 DEF WorkGood, SameSeen
<1>10. sz["database"] = 0 \/ \E w \in Writing(cs, done) : ds[w].seen = sz["database"] BY <1>4 DEF WorkGood, SameSeen
<1>11. sz["objects"] = Cardinality(Uploading(ds, done)) BY <1>3 DEF WorkGood
<1> QED BY <1>3, <1>5, <1>7, <1>8, <1>9, <1>10, <1>11 DEF WorkGood

\* What excuses stays.
LEMMA ExcusedStays ==
  ASSUME UsageInvariant, NEW c \in Calls, Ends(c, slots, slots'), Excused(slots, ran, events, calls), ran \subseteq ran',
         events \subseteq events', ShortsStay,
         \/ slots'[c].late = slots[c].late /\ slots'[c].status = (IF slots[c].status = "active" THEN "released" ELSE slots[c].status)
         \/ /\ slots[c].status \in {"active", "expired"}
            /\ slots'[c].late = (IF slots[c].status = "expired" THEN 1 ELSE 0)
  PROVE  Excused(slots', ran', events', calls')
<1>1. CASE \E d \in ran : slots[d].status \in {"released", "expired"}
  <2>1. PICK d \in ran : slots[d].status \in {"released", "expired"} BY <1>1
  <2>2. d \in Calls BY DEF UsageInvariant, LedgerTyped
  <2>3. CASE d # c BY <2>1, <2>2, <2>3 DEF Ends, Excused
  <2>4. CASE d = c BY <2>1, <2>4 DEF Excused
  <2> QED BY <2>3, <2>4
<1>2. CASE \E d \in Calls : slots[d].late = 1
  <2>1. PICK d \in Calls : slots[d].late = 1 BY <1>2
  <2>2. slots[d].status = "settled" BY <2>1, HeldCalls DEF CallFits
  <2>3. CASE d # c BY <2>1, <2>3 DEF Ends, Excused
  <2>4. CASE d = c BY <2>1, <2>2, <2>4 DEF Excused
  <2> QED BY <2>3, <2>4
<1>3. CASE \E e \in events : Short(e, calls, ran) BY <1>3 DEF ShortsStay, Excused
<1> QED BY <1>1, <1>2, <1>3 DEF Excused

\* The rows of a step that ends a reservation hold the same amounts.
LEMMA EndsSame ==
  ASSUME NEW c, SameCalls(calls, calls'), Ends(c, slots, slots'), NEW held, held \subseteq Calls
  PROVE  SameAmounts(held, slots, calls, slots', calls')
BY DEF SameCalls, Ends, SameAmounts

\* A reservation whose work was not done is released.
LEMMA StorageReleases ==
  ASSUME UsageLedgerAssumption, UsageInvariant, NEW c \in Calls, SameCalls(calls, calls'), Ends(c, slots, slots'),
         slots'[c].late = slots[c].late, slots'[c].status = (IF slots[c].status = "active" THEN "released" ELSE slots[c].status),
         c \notin ran, ran' = ran, occupied' = occupied, events' = events, ShortsStay
  PROVE  StorageFits'
<1>1. CASE Excused(slots, ran, events, calls) BY <1>1, ExcusedStays DEF StorageFits
<1>2. CASE ~Excused(slots, ran, events, calls)
  <2>1. Balance(occupied, events, Active(slots), ran, slots, calls) BY <1>2 DEF UsageInvariant, StorageFits
  <2>2. Active(slots') \subseteq Active(slots) /\ Active(slots) \cap ran \subseteq Active(slots') /\ Active(slots') \subseteq Calls
    BY DEF Ends, Active
  <2>3. Balance(occupied, events, Active(slots'), ran, slots, calls)
    BY <2>1, <2>2, UsageAmounts, BalancedFewer DEF Balance
  <2>4. SameAmounts(Active(slots'), slots, calls, slots', calls') BY <2>2, EndsSame
  <2>5. Balance(occupied, events, Active(slots'), ran, slots', calls') BY <2>3, <2>4, BalancedSame DEF Balance
  <2> QED BY <2>5 DEF StorageFits
<1> QED BY <1>1, <1>2

\* The work, in a millisecond of its own.
LEMMA WorkSizes ==
  ASSUME UsageLedgerAssumption, UsageInvariant, NEW c \in Calls, NEW bytes \in Nat, Work(c, bytes)
  PROVE  /\ occupied' \in [Resources -> Nat] /\ \A r \in Resources : occupied[r] <= occupied'[r]
         /\ ran' = ran \cup {c} /\ clock' = clock + 1 /\ c \notin ran
         /\ slots[c].status \in {"active", "expired"} /\ calls[c].kind \in Kinds /\ calls[c].subject \in Subjects
         /\ \/ calls[c].kind = "write" /\ occupied'["database"] = bytes /\ bytes <= calls[c].room /\ occupied'["objects"] = occupied["objects"]
            \/ calls[c].kind = "upload" /\ occupied'["objects"] = occupied["objects"] + 1 /\ occupied'["database"] = occupied["database"]
            \/ calls[c].kind = "register" /\ occupied' = occupied
<1>1. ran' = ran \cup {c} /\ clock' = clock + 1 /\ c \notin ran /\ calls[c].step = "prepared" BY DEF Work, CallAt
<1>2. slots[c].status \in {"active", "expired"} BY <1>1, HeldCalls DEF CallFits
<1>3. calls[c].kind # "none" BY <1>1, HeldCalls DEF CallFits
<1>4. calls[c].kind \in Kinds /\ calls[c].subject \in Subjects
  <2>1. calls[c].kind \in Kinds \cup {"none"} BY HeldCalls DEF CallRow
  <2> QED BY <2>1, <1>3, HeldCalls DEF CallFits
<1>5. occupied \in [Resources -> Nat] /\ occupied["database"] \in Nat /\ occupied["objects"] \in Nat
  BY DEF UsageInvariant, LedgerTyped, Resources
<1>6. CASE calls[c].kind = "write"
  <2>1. occupied' = [occupied EXCEPT !["database"] = bytes] BY <1>6 DEF Work, Resource
  <2>2. bytes \in {occupied["database"], occupied["database"] + 1} /\ bytes <= calls[c].room BY <1>6 DEF Work
  <2>3. occupied'["database"] = bytes /\ occupied'["objects"] = occupied["objects"] /\ occupied' \in [Resources -> Nat]
    BY <2>1, <1>5 DEF Resources
  <2>4. \A r \in Resources : occupied[r] <= occupied'[r] BY <2>2, <2>3, <1>5 DEF Resources
  <2> QED BY <2>2, <2>3, <2>4, <1>1, <1>2, <1>4, <1>6
<1>7. CASE calls[c].kind = "upload"
  <2>1. occupied' = [occupied EXCEPT !["objects"] = bytes] BY <1>7 DEF Work, Resource
  <2>2. bytes = occupied["objects"] + 1 BY <1>7 DEF Work
  <2>3. occupied'["objects"] = bytes /\ occupied'["database"] = occupied["database"] /\ occupied' \in [Resources -> Nat]
    BY <2>1, <1>5 DEF Resources
  <2>4. \A r \in Resources : occupied[r] <= occupied'[r] BY <2>2, <2>3, <1>5 DEF Resources
  <2> QED BY <2>2, <2>3, <2>4, <1>1, <1>2, <1>4, <1>7
<1>8. CASE calls[c].kind = "register"
  <2>1. occupied' = [occupied EXCEPT !["database"] = bytes] /\ bytes = occupied["database"] BY <1>8 DEF Work, Resource
  <2>2. occupied' = occupied BY <2>1, <1>5
  <2>3. \A r \in Resources : occupied[r] <= occupied'[r] BY <2>2, <1>5 DEF Resources
  <2> QED BY <2>2, <2>3, <1>1, <1>2, <1>4, <1>5, <1>8
<1> QED BY <1>4, <1>6, <1>7, <1>8 DEF Kinds

\* What was done is in the rows.
LEMMA WorkAdds ==
  ASSUME UsageLedgerAssumption, UsageInvariant, NEW c \in Calls, NEW bytes \in Nat, NEW step \in {"executed", "failed"},
         Work(c, bytes), WorkedAt(c, bytes, step)
  PROVE  KeepsWork(calls, calls', ran, ran', clock) /\ WorkFits'
<1>a. /\ calls' \in [Calls -> CallRow] /\ SameCalls(calls, calls') /\ \A d \in Calls : d # c => calls'[d] = calls[d]
      /\ calls'[c].step = step /\ calls'[c].work = clock + 1 /\ calls'[c].at = clock + 1 /\ calls'[c].seen = bytes
  <2>1. step \in CallSteps BY DEF CallSteps
  <2>2. calls \in [Calls -> CallRow] /\ clock \in Nat BY DEF UsageInvariant, LedgerTyped
  <2> QED BY <2>1, <2>2, WorkedOnly
<1>b. ran' = ran \cup {c} /\ c \notin ran /\ clock' = clock + 1 BY WorkSizes
<1>c. ran \subseteq Calls /\ clock \in Nat /\ calls'[c].kind = calls[c].kind /\ calls'[c].room = calls[c].room
  BY <1>a DEF UsageInvariant, LedgerTyped, SameCalls
<1>1. \A d \in ran : d # c /\ d \in Calls /\ calls'[d] = calls[d] BY <1>a, <1>b, <1>c
<1>2. KeepsWork(calls, calls', ran, ran', clock) BY <1>1, <1>a, <1>b DEF KeepsWork
<1>w. WorkGood(calls, ran, occupied, clock) BY DEF UsageInvariant, WorkFits
<1>n. \A d \in ran : calls[d].work \in Nat /\ calls[d].at \in Nat /\ calls[d].seen \in Nat BY UsageRows, CallNumbers
<1>o. occupied["database"] \in Nat /\ occupied["objects"] \in Nat BY DEF UsageInvariant, LedgerTyped, Resources
<1>3. ASSUME NEW d \in ran' PROVE calls'[d].work <= calls'[d].at /\ calls'[d].at <= clock'
  <2>1. CASE d = c BY <2>1, <1>a, <1>b, <1>c
  <2>2. CASE d # c
    <3>1. d \in ran /\ calls'[d] = calls[d] BY <2>2, <1>b, <1>1
    <3>2. calls[d].work <= calls[d].at /\ calls[d].at <= clock BY <3>1, <1>w DEF WorkGood
    <3>3. PICK m, t : m = calls[d].work /\ t = calls[d].at OBVIOUS
    <3>4. m \in Nat /\ t \in Nat /\ m <= t /\ t <= clock BY <3>1, <3>2, <3>3, <1>n
    <3>5. m <= t /\ t <= clock + 1 BY <3>4, <1>c
    <3> QED BY <3>1, <3>3, <3>5, <1>b
  <2> QED BY <2>1, <2>2
<1>4. /\ Uploading(calls', ran') = IF calls[c].kind = "upload" THEN Uploading(calls, ran) \cup {c} ELSE Uploading(calls, ran)
      /\ Writing(calls', ran') = IF calls[c].kind = "write" THEN Writing(calls, ran) \cup {c} ELSE Writing(calls, ran)
  BY <1>1, <1>b, <1>c DEF Uploading, Writing
<1>5. occupied'["objects"] = Cardinality(Uploading(calls', ran'))
  <2>1. occupied["objects"] = Cardinality(Uploading(calls, ran)) BY <1>w DEF WorkGood
  <2>2. Uploading(calls, ran) \subseteq Calls /\ c \notin Uploading(calls, ran) BY <1>b, <1>c DEF Uploading
  <2>3. CASE calls[c].kind = "upload"
    <3>1. occupied'["objects"] = occupied["objects"] + 1 BY <2>3, WorkSizes
    <3>2. Cardinality(Uploading(calls, ran) \cup {c}) = Cardinality(Uploading(calls, ran)) + 1 BY <2>2, CallSets
    <3> QED BY <3>1, <3>2, <2>1, <2>3, <1>4
  <2>4. CASE calls[c].kind # "upload"
    <3>1. occupied'["objects"] = occupied["objects"] BY <2>4, WorkSizes
    <3> QED BY <3>1, <2>1, <2>4, <1>4
  <2> QED BY <2>3, <2>4
<1>6. ASSUME NEW d \in Uploading(calls', ran'), calls'[d].step = "measured"
      PROVE  Cardinality(Earlier(calls', ran', calls'[d].at)) <= calls'[d].seen
  <2>1. d # c BY <1>6, <1>a
  <2>2. d \in ran /\ calls'[d] = calls[d] BY <1>6, <2>1, <1>1, <1>b DEF Uploading
  <2>3. d \in Uploading(calls, ran) BY <1>6, <2>2 DEF Uploading
  <2>4. Cardinality(Earlier(calls, ran, calls[d].at)) <= calls[d].seen BY <1>6, <2>2, <2>3, <1>w DEF WorkGood
  <2>5. calls[d].at \in Nat /\ calls[d].at <= clock BY <2>2, <1>n, <1>w DEF WorkGood
  <2>6. Earlier(calls', ran', calls[d].at) = Earlier(calls, ran, calls[d].at) BY <2>5, <1>2, <1>c, EarlierStays
  <2> QED BY <2>2, <2>4, <2>6
<1>7. \A w \in Writing(calls, ran) : /\ w \in ran /\ calls'[w] = calls[w] /\ calls[w].at = calls[w].work
                                     /\ calls[w].seen <= calls[w].room /\ calls[w].seen <= occupied["database"]
  BY <1>1, <1>w DEF Writing, WorkGood
<1>8. /\ occupied'["database"] \in Nat /\ occupied["database"] <= occupied'["database"]
      /\ calls[c].kind = "write" => occupied'["database"] = bytes /\ bytes <= calls[c].room
      /\ calls[c].kind # "write" => occupied'["database"] = occupied["database"]
  BY WorkSizes DEF Resources
<1>9. ASSUME NEW w \in Writing(calls', ran')
      PROVE  /\ calls'[w].at = calls'[w].work /\ calls'[w].seen <= calls'[w].room /\ calls'[w].seen <= occupied'["database"]
  <2>1. CASE w = c
    <3>1. calls[c].kind = "write" BY <2>1, <1>9, <1>c DEF Writing
    <3>2. bytes <= bytes OBVIOUS
    <3> QED BY <2>1, <3>1, <3>2, <1>8, <1>a, <1>c
  <2>2. CASE w # c
    <3>1. w \in Writing(calls, ran) BY <2>2, <1>4
    <3>2. PICK n : n = calls[w].seen OBVIOUS
    <3>3. n \in Nat /\ n <= occupied["database"] BY <3>1, <3>2, <1>7, <1>n
    <3>4. n <= occupied'["database"] BY <3>3, <1>8, <1>o
    <3> QED BY <3>1, <3>2, <3>4, <1>7
  <2> QED BY <2>1, <2>2
<1>10. ASSUME NEW v \in Writing(calls', ran'), NEW w \in Writing(calls', ran'), calls'[v].work <= calls'[w].work
       PROVE  calls'[v].seen <= calls'[w].seen
  <2>1. CASE w = c
    <3>1. calls'[w].seen = occupied'["database"]
      <4>1. calls[c].kind = "write" BY <2>1, <1>10, <1>c DEF Writing
      <4> QED BY <4>1, <2>1, <1>8, <1>a
    <3> QED BY <3>1, <1>9
  <2>2. CASE w # c /\ v # c
    <3>1. v \in Writing(calls, ran) /\ w \in Writing(calls, ran) BY <2>2, <1>4
    <3>2. calls[v].work <= calls[w].work BY <3>1, <1>7, <1>10
    <3>3. calls[v].seen <= calls[w].seen BY <3>1, <3>2, <1>w DEF WorkGood
    <3> QED BY <3>1, <3>3, <1>7
  <2>3. CASE w # c /\ v = c
    <3>1. w \in Writing(calls, ran) BY <2>3, <1>4
    <3>2. w \in ran /\ calls'[w] = calls[w] BY <3>1, <1>7
    <3>3. calls[w].work <= calls[w].at /\ calls[w].at <= clock BY <3>2, <1>w DEF WorkGood
    <3>4. PICK m, t : m = calls[w].work /\ t = calls[w].at OBVIOUS
    <3>5. m \in Nat /\ t \in Nat /\ m <= t /\ t <= clock BY <3>2, <3>3, <3>4, <1>n
    <3>6. clock + 1 <= m BY <2>3, <3>2, <3>4, <1>10, <1>a
    <3> QED BY <3>5, <3>6, <1>c
  <2> QED BY <2>1, <2>2, <2>3
<1>11. occupied'["database"] = 0 \/ \E w \in Writing(calls', ran') : calls'[w].seen = occupied'["database"]
  <2>1. CASE calls[c].kind = "write" BY <2>1, <1>4, <1>8, <1>a
  <2>2. CASE calls[c].kind # "write"
    <3>1. occupied["database"] = 0 \/ \E w \in Writing(calls, ran) : calls[w].seen = occupied["database"]
      BY <1>w DEF WorkGood
    <3> QED BY <2>2, <3>1, <1>4, <1>7, <1>8
  <2> QED BY <2>1, <2>2
<1>12. WorkFits' BY <1>3, <1>5, <1>6, <1>9, <1>10, <1>11 DEF WorkFits, WorkGood
<1> QED BY <1>2, <1>12

\* Work whose answer arrives.
LEMMA StorageWorks ==
  ASSUME UsageLedgerAssumption, UsageInvariant, NEW c \in Calls, NEW bytes \in Nat, Work(c, bytes),
         SameCalls(calls, calls'), slots' = slots, events' = events, ShortsStay
  PROVE  StorageFits'
<1>1. CASE Excused(slots, ran, events, calls) \/ slots[c].status = "expired"
  BY <1>1, WorkSizes DEF StorageFits, Excused, ShortsStay
<1>2. CASE ~Excused(slots, ran, events, calls) /\ slots[c].status # "expired"
  <2>1. Balance(occupied, events, Active(slots), ran, slots, calls) BY <1>2 DEF UsageInvariant, StorageFits
  <2>2. c \in Active(slots) \ ran BY <1>2, WorkSizes DEF Active
  <2>3. Balance(occupied', events, Active(slots), ran', slots, calls)
    <3>a. PICK db, obj, cd, co : /\ db = occupied["database"] /\ obj = occupied["objects"]
                                 /\ cd = Recorded(events, "database") /\ co = Recorded(events, "objects")
      OBVIOUS
    <3>b. Amounts(db, obj, cd, co, Active(slots), slots, calls) BY <3>a, UsageAmounts
    <3>c. Balanced(db, obj, cd, co, Active(slots), ran, slots, calls) BY <3>a, <2>1 DEF Balance
    <3>d. ran' = ran \cup {c} BY WorkSizes
    <3>1. CASE calls[c].kind = "write"
      <4>1. bytes <= calls[c].room /\ occupied'["database"] = bytes /\ occupied'["objects"] = obj BY <3>1, <3>a, WorkSizes
      <4>2. Balanced(bytes, obj, cd, co, Active(slots), ran \cup {c}, slots, calls)
        BY <3>1, <3>b, <3>c, <4>1, <2>2, BalancedWrite
      <4> QED BY <4>1, <4>2, <3>a, <3>d DEF Balance
    <3>2. CASE calls[c].kind = "upload"
      <4>1. occupied'["database"] = db /\ occupied'["objects"] = obj + 1 BY <3>2, <3>a, WorkSizes
      <4>2. Balanced(db, obj + 1, cd, co, Active(slots), ran \cup {c}, slots, calls)
        BY <3>2, <3>b, <3>c, <2>2, BalancedUpload
      <4> QED BY <4>1, <4>2, <3>a, <3>d DEF Balance
    <3>3. CASE calls[c].kind = "register"
      <4>1. Balance(occupied, events, Active(slots), ran \cup {c}, slots, calls) BY <3>3, <2>1, BalancedOther DEF Balance
      <4>2. occupied' = occupied /\ ran' = ran \cup {c} BY <3>3, WorkSizes
      <4> QED BY <4>1, <4>2
    <3> QED BY <3>1, <3>2, <3>3, WorkSizes
  <2>4. SameAmounts(Active(slots), slots, calls, slots', calls') BY DEF SameCalls, SameAmounts, Active
  <2>5. Balance(occupied', events, Active(slots), ran', slots', calls') BY <2>3, <2>4, BalancedSame DEF Balance
  <2> QED BY <2>5 DEF StorageFits
<1> QED BY <1>1, <1>2

\* A new event, of what was seen of a call that was done.
LEMMA EventComes ==
  ASSUME UsageLedgerAssumption, UsageInvariant, NEW c \in Calls, c \in ran, NEW id \in Nat, NEW t \in Nat, t <= clock,
         IngestEvent(c, id, t), calls[c].kind = "write" => t = calls[c].at,
         \A d \in Calls : id = EventId(d) /\ calls[c].kind = "upload" =>
            Cardinality(Earlier(calls, ran, t)) <= calls[c].seen
  PROVE  \E e \in EventRow :
           /\ e.subject = calls[c].subject /\ events' = events \cup {e} /\ e.at = t /\ e.bytes = calls[c].seen
           /\ calls[c].kind = "write" => e.resource = "database"
           /\ calls[c].kind = "upload" => e.resource = "objects"
           /\ calls[c].kind = "register" => e.resource = "none"
           /\ EventsGood(events', calls, slots, ran, clock)
<1>0. calls[c].kind \in Kinds /\ calls[c].subject \in Subjects
  <2>1. calls[c].kind \in Kinds \cup {"none"} BY HeldCalls DEF CallRow
  <2> QED BY <2>1, HeldCalls DEF CallFits
<1>1. PICK res, bytes, sub : /\ res = (IF calls[c].kind = "register" THEN "none" ELSE Resource(calls[c].kind))
                             /\ bytes = calls[c].seen /\ sub = calls[c].subject
  OBVIOUS
<1>2. /\ calls[c].kind = "write" => res = "database"
      /\ calls[c].kind = "upload" => res = "objects"
      /\ calls[c].kind = "register" => res = "none"
      /\ res \in Resources \cup {"none"}
  BY <1>1 DEF Resource, Resources
<1>3. bytes \in Nat BY <1>1, HeldCalls DEF CallRow
<1>4. PICK e : e = [id |-> id, subject |-> sub, at |-> t, resource |-> res, bytes |-> bytes] OBVIOUS
<1>5. events' = events \cup {e} BY <1>1, <1>4 DEF IngestEvent
<1>6. e \in EventRow /\ e.id = id /\ e.subject = sub /\ e.at = t /\ e.resource = res /\ e.bytes = bytes
  BY <1>0, <1>1, <1>2, <1>3, <1>4 DEF EventRow
<1>7. \A f \in events : f.id # e.id BY <1>6 DEF IngestEvent
<1>8. events \in SUBSET EventRow /\ EventsGood(events, calls, slots, ran, clock) BY DEF UsageInvariant, LedgerTyped, EventsFit
<1>9. e.resource = "database" => \E w \in Writing(calls, ran) : e.at = calls[w].work /\ e.bytes = calls[w].seen
  <2> SUFFICES ASSUME e.resource = "database" PROVE \E w \in Writing(calls, ran) : e.at = calls[w].work /\ e.bytes = calls[w].seen
    OBVIOUS
  <2>1. calls[c].kind = "write" BY <1>0, <1>2, <1>6 DEF Kinds
  <2>2. c \in Writing(calls, ran) BY <2>1 DEF Writing
  <2>3. calls[c].at = calls[c].work BY <2>2 DEF UsageInvariant, WorkFits, WorkGood
  <2> QED BY <2>1, <2>2, <2>3, <1>1, <1>6
<1>10. \A d \in Calls : e.id = EventId(d) => ~Short(e, calls, ran)
  <2> SUFFICES ASSUME NEW d \in Calls, e.id = EventId(d), Short(e, calls, ran) PROVE FALSE OBVIOUS
  <2>1. calls[c].kind = "upload" BY <1>0, <1>2, <1>6 DEF Short, Kinds
  <2>2. PICK n : n = Cardinality(Earlier(calls, ran, t)) OBVIOUS
  <2>3. n <= bytes BY <2>1, <2>2, <1>1, <1>6
  <2>4. bytes < n BY <2>2, <1>6 DEF Short
  <2>5. Earlier(calls, ran, t) \subseteq Calls BY DEF Earlier, Uploading, UsageInvariant, LedgerTyped
  <2>6. n \in Nat BY <2>2, <2>5, CallSets
  <2> QED BY <2>3, <2>4, <2>6, <1>3
<1>11. EventsGood(events \cup {e}, calls, slots, ran, clock) BY <1>6, <1>7, <1>8, <1>9, <1>10, EventsAdd
<1> QED BY <1>1, <1>2, <1>5, <1>6, <1>11

\* Events come and reservations whose work was done are settled.
LEMMA StorageRecords ==
  ASSUME UsageLedgerAssumption, UsageInvariant, SameCalls(calls, calls'), calls' \in [Calls -> CallRow],
         slots' \in [Calls -> SlotRow], \A d \in Calls : slots'[d].growth = slots[d].growth,
         Active(slots') \subseteq Active(slots), Active(slots') \ ran = Active(slots) \ ran,
         Excused(slots, ran, events, calls) => Excused(slots', ran, events', calls'),
         \A d \in ran : slots'[d].status \in {"active", "settled", "released", "expired"},
         events \subseteq events', events' \subseteq EventRow, ran' = ran, occupied' = occupied, clock' = clock, EventsFit', WorkFits'
  PROVE  StorageFits'
<1>1. CASE Excused(slots, ran, events, calls) BY <1>1 DEF StorageFits
<1>2. CASE Excused(slots', ran, events', calls') BY <1>2 DEF StorageFits
<1>3. CASE ~Excused(slots, ran, events, calls) /\ ~Excused(slots', ran, events', calls')
  <2>1. Balance(occupied, events, Active(slots), ran, slots, calls) BY <1>3 DEF UsageInvariant, StorageFits
  <2>2. PICK db, obj, cd, co, ce, cn :
          /\ db = occupied["database"] /\ obj = occupied["objects"]
          /\ cd = Recorded(events, "database") /\ co = Recorded(events, "objects")
          /\ ce = Recorded(events', "database") /\ cn = Recorded(events', "objects")
    OBVIOUS
  <2>3. PICK rest : rest = Active(slots') OBVIOUS
  <2>4. Amounts(db, obj, cd, co, Active(slots), slots, calls) BY <2>2, UsageAmounts
  <2>5. Balanced(db, obj, cd, co, Active(slots), ran, slots, calls) BY <2>1, <2>2 DEF Balance
  <2>6. Rows(events', calls', ran, occupied, clock) BY UsageRows DEF Rows
  <2>7. EventsGood(events', calls', slots', ran, clock) /\ WorkGood(calls', ran, occupied, clock)
    BY DEF EventsFit, WorkFits
  <2>8. (\A d \in ran : slots'[d].status \in {"active", "settled"}) /\ \A e \in events' : ~Short(e, calls', ran)
    BY <1>3 DEF Excused
  <2>9. cn \in Nat /\ obj <= cn + Cardinality(Uploading(calls', rest \cap ran))
    BY <2>2, <2>3, <2>6, <2>7, <2>8, ObjectsBacked
  <2>10. db <= ce \/ \E w \in Writing(calls', rest \cap ran) : db <= calls'[w].room
    BY <2>2, <2>3, <2>6, <2>7, <2>8, DatabaseBacked
  <2>11. ce \in Nat /\ \A f \in Of(events', "database") : f.bytes <= ce BY <2>2, <2>6, <2>7, DatabaseCovers
  <2>12. cd <= ce
    <3>1. HasNewest(events, "database") /\ events \in SUBSET EventRow
      BY DEF UsageInvariant, EventsFit, EventsGood, LedgerTyped, Resources
    <3>2. CASE Of(events, "database") = {}
      <4>1. cd = 0 BY <3>1, <3>2, <2>2, RecordedIs
      <4> QED BY <4>1, <2>11
    <3>3. CASE Of(events, "database") # {}
      <4>1. PICK x \in Of(events, "database") : cd = x.bytes BY <3>1, <3>3, <2>2, RecordedIs
      <4>2. x \in Of(events', "database") BY DEF Of
      <4> QED BY <4>1, <4>2, <2>11
    <3> QED BY <3>2, <3>3
  <2>13. rest \subseteq Calls /\ rest \subseteq Active(slots) /\ rest \ ran = Active(slots) \ ran BY <2>3 DEF Active
  <2>14. Uploading(calls', rest \cap ran) = Uploading(calls, rest \cap ran) /\ Writing(calls', rest \cap ran) = Writing(calls, rest \cap ran)
    BY <2>13 DEF SameCalls, Uploading, Writing
  <2>15. \A w \in Writing(calls, rest \cap ran) : calls'[w].room = calls[w].room BY <2>13 DEF SameCalls, Writing
  <2>16. Balanced(db, obj, ce, cn, rest, ran, slots, calls)
    BY <2>4, <2>5, <2>9, <2>10, <2>11, <2>12, <2>13, <2>14, <2>15, BalancedRecords
  <2>17. SameAmounts(rest, slots, calls, slots', calls') BY <2>13 DEF SameCalls, SameAmounts
  <2>18. Balanced(db, obj, ce, cn, rest, ran, slots', calls') BY <2>16, <2>17, BalancedSame
  <2>19. Balance(occupied', events', Active(slots'), ran', slots', calls') BY <2>2, <2>3, <2>18 DEF Balance
  <2> QED BY <2>19 DEF StorageFits
<1> QED BY <1>1, <1>2, <1>3

-----------------------------------------------------------------------------
(* A reservation.                                                            *)

LEMMA StoredNumbers ==
  ASSUME UsageLedgerAssumption, UsageInvariant
  PROVE  /\ Current("database") = Recorded(events, "database") /\ Current("objects") = Recorded(events, "objects")
         /\ Current("database") \in Nat /\ Current("objects") \in Nat /\ Remaining \in Nat
         /\ Stored = Recorded(events, "database") + Recorded(events, "objects")
<1>1. /\ Current("database") = Recorded(events, "database") /\ Current("objects") = Recorded(events, "objects")
      /\ Recorded(events, "database") \in Nat /\ Recorded(events, "objects") \in Nat /\ StorageLimit \in Nat
  BY CurrentRecorded, UsageAmounts DEF Amounts, UsageLedgerAssumption
<1>2. PICK a, b : a = Current("database") /\ b = Current("objects") OBVIOUS
<1>3. Stored = a + b /\ a \in Nat /\ b \in Nat BY <1>1, <1>2 DEF Stored
<1>4. Remaining \in Nat BY <1>1, <1>3 DEF Remaining
<1> QED BY <1>1, <1>4 DEF Stored

\* A reservation of c, with the lapsed ones expired first.
Admitted(c, kind, s, growth) ==
  /\ c \in Calls /\ kind \in Kinds /\ s \in Subjects /\ growth \in Nat
  /\ calls[c] = NoCall /\ ReserveUsage(c, kind, s, growth)
  /\ kind = "write" => growth = Remaining
  /\ kind = "upload" => growth = 1
  /\ UNCHANGED <<events, metered, occupied, ran, clock>>

LEMMA LapsedSets ==
  /\ Held = Active(slots) /\ Lapsed \subseteq Active(slots) /\ Unlapsed = Active(slots) \ Lapsed /\ Active(slots) \subseteq Calls
BY DEF Held, Active, Lapsed, Unlapsed

LEMMA AdmittedCalls ==
  ASSUME UsageLedgerAssumption, UsageInvariant, NEW c, NEW kind, NEW s, NEW growth, Admitted(c, kind, s, growth)
  PROVE  /\ calls' \in [Calls -> CallRow] /\ \A d \in Calls : d # c => calls'[d] = calls[d]
         /\ calls'[c].kind = kind /\ calls'[c].subject = s /\ calls'[c].step = "prepared"
         /\ calls'[c].room = Recorded(events, "database") + Remaining
         /\ c \in Calls /\ calls[c].kind = "none" /\ slots[c].status = "none" /\ slots[c].late = 0 /\ c \notin ran
<1>1. c \in Calls /\ calls[c].kind = "none" BY DEF Admitted, NoCall
<1>2. slots[c].status = "none" /\ slots[c].late = 0 /\ c \notin ran BY <1>1, HeldCalls DEF CallFits
<1>3. PICK room : room = Recorded(events, "database") + Remaining OBVIOUS
<1>4. room \in Nat /\ room = Current("database") + Remaining BY <1>3, StoredNumbers
<1>5. PICK r : r = [kind |-> kind, subject |-> s, step |-> "prepared", room |-> room, work |-> 0, at |-> 0, seen |-> 0] OBVIOUS
<1>6. calls' = [calls EXCEPT ![c] = r] BY <1>4, <1>5 DEF Admitted, ReserveUsage
<1>7. r \in CallRow /\ r.kind = kind /\ r.subject = s /\ r.step = "prepared" /\ r.room = room
  BY <1>4, <1>5 DEF Admitted, CallRow, CallSteps
<1>8. calls \in [Calls -> CallRow] BY DEF UsageInvariant, LedgerTyped
<1>9. calls' \in [Calls -> CallRow] /\ calls'[c] = r /\ \A d \in Calls : d # c => calls'[d] = calls[d]
  BY <1>1, <1>6, <1>7, <1>8
<1> QED BY <1>1, <1>2, <1>3, <1>7, <1>9

LEMMA AdmittedWork ==
  ASSUME UsageLedgerAssumption, UsageInvariant, NEW c, NEW kind, NEW s, NEW growth, Admitted(c, kind, s, growth)
  PROVE  KeepsWork(calls, calls', ran, ran', clock) /\ WorkFits' /\ \A d \in ran : calls'[d] = calls[d]
<1>1. ran' = ran /\ occupied' = occupied /\ clock' = clock BY DEF Admitted
<1>2. \A d \in ran : calls'[d] = calls[d]
  <2>1. ran \subseteq Calls BY DEF UsageInvariant, LedgerTyped
  <2> QED BY <2>1, AdmittedCalls
<1>3. KeepsWork(calls, calls', ran, ran, clock) BY <1>2 DEF KeepsWork
<1>4. \A d \in ran : SeesOn(calls[d], calls'[d], occupied["objects"], clock) BY <1>2 DEF SeesOn, SameSeen
<1>5. WorkGood(calls, ran, occupied, clock) /\ clock \in Nat BY DEF UsageInvariant, WorkFits, LedgerTyped
<1>6. clock <= clock BY <1>5
<1>7. WorkGood(calls', ran, occupied, clock) BY <1>3, <1>4, <1>5, <1>6, UsageRows, AdmittedCalls, WorkOn
<1> QED BY <1>1, <1>2, <1>3, <1>7 DEF WorkFits

LEMMA AdmittedSlots ==
  ASSUME UsageLedgerAssumption, UsageInvariant, NEW c, NEW kind, NEW s, NEW growth, Admitted(c, kind, s, growth)
  PROVE  /\ slots' \in [Calls -> SlotRow]
         /\ slots'[c].status = "active" /\ slots'[c].growth = growth /\ slots'[c].late = 0
         /\ \A d \in Calls : d # c =>
              /\ slots'[d].growth = slots[d].growth /\ slots'[d].late = slots[d].late
              /\ slots'[d].status = IF d \in Lapsed THEN "expired" ELSE slots[d].status
         /\ Active(slots') = Unlapsed \cup {c} /\ c \notin Active(slots)
<1>1. c \in Calls /\ slots[c].status = "none" /\ slots[c].late = 0 BY AdmittedCalls
<1>2. slots \in [Calls -> SlotRow] BY DEF UsageInvariant, LedgerTyped
<1>3. PICK until : until = clock + Ttl OBVIOUS
<1>4. until \in Nat BY <1>3 DEF UsageInvariant, LedgerTyped, UsageLedgerAssumption
<1>5. PICK r : r = [status |-> "active", until |-> until, growth |-> growth, late |-> 0] OBVIOUS
<1>6. r \in SlotRow /\ r.status = "active" /\ r.growth = growth /\ r.late = 0 BY <1>4, <1>5 DEF Admitted, SlotRow
<1>7. slots' = [ExpiredSlots EXCEPT ![c] = r] BY <1>3, <1>5 DEF Admitted, ReserveUsage
<1>8. ASSUME NEW d \in Calls
      PROVE  /\ ExpiredSlots[d] \in SlotRow
             /\ ExpiredSlots[d].growth = slots[d].growth /\ ExpiredSlots[d].late = slots[d].late
             /\ ExpiredSlots[d].status = IF d \in Lapsed THEN "expired" ELSE slots[d].status
  <2>1. PICK q, p : q = slots[d] /\ p = [q EXCEPT !.status = "expired"] OBVIOUS
  <2>2. q \in SlotRow BY <2>1, <1>2
  <2>3. p \in SlotRow /\ p.growth = q.growth /\ p.late = q.late /\ p.status = "expired" BY <2>1, <2>2 DEF SlotRow
  <2>4. ExpiredSlots[d] = IF d \in Lapsed THEN p ELSE q BY <2>1 DEF ExpiredSlots
  <2> QED BY <2>1, <2>2, <2>3, <2>4
<1>9. ExpiredSlots \in [Calls -> SlotRow] BY <1>8 DEF ExpiredSlots
<1>10. slots' \in [Calls -> SlotRow] /\ slots'[c] = r /\ \A d \in Calls : d # c => slots'[d] = ExpiredSlots[d]
  BY <1>1, <1>6, <1>7, <1>9
<1>11. \A d \in Calls : d # c => slots'[d].status = IF d \in Lapsed THEN "expired" ELSE slots[d].status BY <1>8, <1>10
<1>12. c \notin Active(slots) BY <1>1 DEF Active
<1>13. Active(slots') = (Active(slots) \ Lapsed) \cup {c} BY <1>1, <1>6, <1>10, <1>11 DEF Active
<1> QED BY <1>6, <1>8, <1>10, <1>11, <1>12, <1>13, LapsedSets

LEMMA AdmittedWrites ==
  ASSUME UsageLedgerAssumption, UsageInvariant, NEW c, NEW kind, NEW s, NEW growth, Admitted(c, kind, s, growth)
  PROVE  WritesCounted'
<1>a. c \in Calls /\ slots[c].late = 0 /\ calls'[c].kind = kind /\ \A d \in Calls : d # c => calls'[d] = calls[d] BY AdmittedCalls
<1>b. slots'[c].late = 0 /\ (\A d \in Calls : d # c => slots'[d].late = slots[d].late) /\ Active(slots') = Unlapsed \cup {c}
  BY AdmittedSlots
<1>1. LateOnes(slots') = LateOnes(slots) BY <1>a, <1>b DEF LateOnes
<1>2. c \notin Unlapsed /\ Unlapsed \subseteq Calls BY AdmittedSlots, LapsedSets
<1>3. Writing(calls, Unlapsed) \subseteq Writing(calls, Active(slots)) /\ Writing(calls, Active(slots)) \subseteq Calls
  BY LapsedSets DEF Writing
<1>4. Writing(calls', Active(slots')) = IF kind = "write" THEN Writing(calls, Unlapsed) \cup {c} ELSE Writing(calls, Unlapsed)
  BY <1>a, <1>b, <1>2 DEF Writing
<1>5. PICK n, m, k, l : /\ n = Cardinality(Writing(calls, Active(slots))) /\ m = Cardinality(Writing(calls', Active(slots')))
                        /\ k = Cardinality(Writing(calls, Unlapsed)) /\ l = Cardinality(LateOnes(slots))
  OBVIOUS
<1>6. n \in Nat /\ k \in Nat /\ k <= n BY <1>3, <1>5, CallParts
<1>7. LateOnes(slots) \subseteq Calls BY DEF LateOnes
<1>8. l \in Nat BY <1>5, <1>7, CallSets
<1>9. metered \in Nat /\ WriteLimit \in Nat /\ metered + n <= WriteLimit + l /\ metered' = metered
  BY <1>5 DEF UsageInvariant, LedgerTyped, WritesCounted, UsageLedgerAssumption, Admitted
<1>10. CASE kind = "write"
  <2>1. Writing(calls, Unlapsed) \subseteq Calls /\ c \notin Writing(calls, Unlapsed) BY <1>2 DEF Writing
  <2>2. m = k + 1 BY <2>1, <1>4, <1>5, <1>10, CallSets
  <2>3. metered + k + 1 <= WriteLimit BY <1>5, <1>10 DEF Admitted, ReserveUsage, Admits, Writing
  <2>4. metered' + m <= WriteLimit + l BY <2>2, <2>3, <1>6, <1>8, <1>9
  <2> QED BY <2>4, <1>1, <1>5 DEF WritesCounted
<1>11. CASE kind # "write"
  <2>1. m = k BY <1>4, <1>5, <1>11
  <2>2. metered' + m <= WriteLimit + l BY <2>1, <1>6, <1>8, <1>9
  <2> QED BY <2>2, <1>1, <1>5 DEF WritesCounted
<1> QED BY <1>10, <1>11

LEMMA AdmittedClaims ==
  ASSUME UsageLedgerAssumption, UsageInvariant, NEW c, NEW kind, NEW s, NEW growth, Admitted(c, kind, s, growth)
  PROVE  ClaimsFit' /\ claims' \in [Subjects -> ClaimRow]
<1>0. c \notin Unlapsed /\ Unlapsed \subseteq Calls /\ s \in Subjects BY AdmittedSlots, LapsedSets DEF Admitted
<1>a. c \in Calls /\ calls'[c].subject = s /\ \A d \in Calls : d # c => calls'[d] = calls[d] BY AdmittedCalls
<1>b. Active(slots') = Unlapsed \cup {c} BY AdmittedSlots
<1>1. ASSUME NEW x \in Subjects
      PROVE  /\ ExpiredClaims[x] \in ClaimRow /\ Cardinality(Users(calls, Unlapsed, x)) \in Nat
             /\ ClaimFits(ExpiredClaims[x], Cardinality(Users(calls, Unlapsed, x)), \E e \in events : e.subject = x)
  <2>1. PICK n, k, m, known : /\ n = Cardinality(Users(calls, Active(slots), x)) /\ k = Cardinality(Users(calls, Lapsed, x))
                              /\ m = Cardinality(Users(calls, Unlapsed, x)) /\ known = (\E e \in events : e.subject = x)
    OBVIOUS
  <2>2. /\ Users(calls, Lapsed, x) \subseteq Users(calls, Active(slots), x) /\ Users(calls, Active(slots), x) \subseteq Calls
        /\ Users(calls, Unlapsed, x) = Users(calls, Active(slots), x) \ Users(calls, Lapsed, x)
    BY LapsedSets DEF Users
  <2>3. n \in Nat /\ k \in Nat /\ k <= n /\ m = n - k BY <2>1, <2>2, CallParts
  <2>4. ClaimFits(claims[x], n, known) /\ claims[x] \in ClaimRow BY <2>1 DEF UsageInvariant, ClaimsFit, LedgerTyped
  <2>5. Dropped(claims[x], k) \in ClaimRow /\ ClaimFits(Dropped(claims[x], k), n - k, known) BY <2>3, <2>4, ClaimDrops
  <2>6. ExpiredClaims[x] = Dropped(claims[x], k) BY <2>1 DEF ExpiredClaims, ClaimedBy, Users
  <2>7. m \in Nat BY <2>3
  <2>8. ExpiredClaims[x] \in ClaimRow /\ ClaimFits(ExpiredClaims[x], m, known) BY <2>3, <2>5, <2>6
  <2> QED BY <2>1, <2>7, <2>8
<1>2. ExpiredClaims \in [Subjects -> ClaimRow] BY <1>1 DEF ExpiredClaims
<1>3. PICK a, b : a = ExpiredClaims[s] /\ b = [a EXCEPT !.count = @ + 1] OBVIOUS
<1>4. claims' = [ExpiredClaims EXCEPT ![s] = b] BY <1>3 DEF Admitted, ReserveUsage
<1>5. a \in ClaimRow BY <1>0, <1>2, <1>3
<1>6. ASSUME NEW x \in Subjects
      PROVE  /\ claims'[x] \in ClaimRow
             /\ ClaimFits(claims'[x], Cardinality(Users(calls', Active(slots'), x)), \E e \in events' : e.subject = x)
  <2>1. PICK m, known : m = Cardinality(Users(calls, Unlapsed, x)) /\ known = (\E e \in events : e.subject = x) OBVIOUS
  <2>2. m \in Nat /\ ClaimFits(ExpiredClaims[x], m, known) /\ ExpiredClaims[x] \in ClaimRow BY <2>1, <1>1
  <2>3. (\E e \in events' : e.subject = x) = known BY <2>1 DEF Admitted
  <2>4. CASE x = s
    <3>1. Users(calls', Active(slots'), x) = Users(calls, Unlapsed, x) \cup {c}
      BY <2>4, <1>0, <1>a, <1>b DEF Users
    <3>2. Users(calls, Unlapsed, x) \subseteq Calls /\ c \notin Users(calls, Unlapsed, x) BY <1>0 DEF Users
    <3>3. Cardinality(Users(calls', Active(slots'), x)) = m + 1 BY <2>1, <3>1, <3>2, CallSets
    <3>4. claims'[x] = b BY <2>4, <1>2, <1>4
    <3>5. b \in ClaimRow /\ ClaimFits(b, m + 1, known) BY <2>2, <2>4, <1>3, <1>5, ClaimGrows
    <3> QED BY <2>3, <3>3, <3>4, <3>5
  <2>5. CASE x # s
    <3>1. Users(calls', Active(slots'), x) = Users(calls, Unlapsed, x)
      BY <2>5, <1>0, <1>a, <1>b DEF Users
    <3>2. claims'[x] = ExpiredClaims[x] BY <2>5, <1>2, <1>4
    <3> QED BY <2>1, <2>2, <2>3, <3>1, <3>2
  <2> QED BY <2>4, <2>5
<1>7. claims' \in [Subjects -> ClaimRow] BY <1>0, <1>2, <1>3, <1>4, <1>6
<1> QED BY <1>6, <1>7 DEF ClaimsFit

LEMMA AdmittedStorage ==
  ASSUME UsageLedgerAssumption, UsageInvariant, NEW c, NEW kind, NEW s, NEW growth, Admitted(c, kind, s, growth)
  PROVE  StorageFits'
<1>0. c \notin Unlapsed /\ Unlapsed \subseteq Calls /\ c \in Calls /\ c \notin ran /\ ran' = ran /\ occupied' = occupied /\ events' = events
  BY AdmittedCalls, AdmittedSlots, LapsedSets DEF Admitted
<1>1. CASE Excused(slots, ran, events, calls)
  <2>1. CASE \E d \in ran : slots[d].status \in {"released", "expired"}
    <3>1. PICK d \in ran : slots[d].status \in {"released", "expired"} BY <2>1
    <3>2. d \in Calls /\ d # c BY <1>0 DEF UsageInvariant, LedgerTyped
    <3>3. slots[d].status \in {"released", "expired"} => slots'[d].status \in {"released", "expired"}
      <4>1. slots'[d].status = IF d \in Lapsed THEN "expired" ELSE slots[d].status BY <3>2, AdmittedSlots
      <4> QED BY <4>1
    <3> QED BY <3>1, <3>3, <1>0 DEF StorageFits, Excused
  <2>2. CASE \E d \in Calls : slots[d].late = 1
    <3>1. PICK d \in Calls : slots[d].late = 1 BY <2>2
    <3>2. d # c BY <3>1, AdmittedCalls
    <3>3. slots'[d].late = 1 BY <3>1, <3>2, AdmittedSlots
    <3> QED BY <3>3 DEF StorageFits, Excused
  <2>3. CASE \E e \in events : Short(e, calls, ran)
    BY <2>3, <1>0, AdmittedWork, ShortsOn DEF StorageFits, Excused, ShortsStay
  <2> QED BY <2>1, <2>2, <2>3, <1>1 DEF Excused
<1>2. CASE \E d \in ran : d \in Lapsed
  <2>1. PICK d \in ran : d \in Lapsed BY <1>2
  <2>2. d \in Calls /\ d # c BY <2>1, <1>0 DEF UsageInvariant, LedgerTyped
  <2>3. slots'[d].status = "expired" BY <2>1, <2>2, AdmittedSlots
  <2> QED BY <2>1, <2>3, <1>0 DEF StorageFits, Excused
<1>3. CASE ~Excused(slots, ran, events, calls) /\ \A d \in ran : d \notin Lapsed
  <2>1. Balance(occupied, events, Active(slots), ran, slots, calls) BY <1>3 DEF UsageInvariant, StorageFits
  <2>2. Unlapsed \subseteq Active(slots) /\ Active(slots) \cap ran \subseteq Unlapsed BY <1>3, LapsedSets
  <2>3. PICK db, obj, cd, co : /\ db = occupied["database"] /\ obj = occupied["objects"]
                               /\ cd = Recorded(events, "database") /\ co = Recorded(events, "objects")
    OBVIOUS
  <2>4. Amounts(db, obj, cd, co, Active(slots), slots, calls) BY <2>3, UsageAmounts
  <2>5. Balanced(db, obj, cd, co, Unlapsed, ran, slots, calls) BY <2>1, <2>2, <2>3, <2>4, BalancedFewer DEF Balance
  <2>6. Amounts(db, obj, cd, co, Unlapsed, slots, calls) BY <2>4, <1>0 DEF Amounts
  <2>7. \A d \in Uploading(calls, Unlapsed) : slots[d].growth = 1 BY <1>0, HeldCalls DEF Uploading, CallFits
  <2>8. SameAmounts(Unlapsed, slots, calls, slots', calls') BY <1>0, AdmittedCalls, AdmittedSlots DEF SameAmounts
  <2>9. /\ calls'[c].kind = kind /\ slots'[c].growth = growth /\ growth \in Nat
        /\ calls'[c].room = cd + growth \/ kind # "write"
        /\ kind = "upload" => growth = 1
    BY <2>3, AdmittedCalls, AdmittedSlots DEF Admitted
  <2>10. kind \in {"write", "upload"} => cd + co + GrowthSum(slots, Unlapsed) + growth <= StorageLimit
    BY <2>3, StoredNumbers DEF Admitted, ReserveUsage, Admits
  <2>11. Balanced(db, obj, cd, co, Unlapsed \cup {c}, ran, slots', calls')
    BY <2>5, <2>6, <2>7, <2>8, <2>9, <2>10, <1>0, BalancedReserved
  <2>12. Active(slots') = Unlapsed \cup {c} BY AdmittedSlots
  <2> QED BY <2>3, <2>11, <2>12, <1>0 DEF StorageFits, Balance
<1> QED BY <1>1, <1>2, <1>3

\* reserve, with expire_reservations.
LEMMA AdmittedKeeps ==
  ASSUME UsageLedgerAssumption, UsageInvariant, NEW c, NEW kind, NEW s, NEW growth, Admitted(c, kind, s, growth)
  PROVE  UsageInvariant'
<1>1. UNCHANGED <<events, metered, occupied, ran, clock>> BY DEF Admitted
<1>2. LedgerTyped' BY <1>1, AdmittedCalls, AdmittedSlots, AdmittedClaims DEF UsageInvariant, LedgerTyped
<1>3. EventsFit'
  <2>1. EventsGood(events, calls, slots, ran, clock) /\ clock \in Nat /\ events \in SUBSET EventRow /\ ran \subseteq Calls
    BY DEF UsageInvariant, EventsFit, LedgerTyped
  <2>2. clock <= clock BY <2>1
  <2>3. KeepsWork(calls, calls', ran, ran, clock) /\ \A w \in Writing(calls, ran) : calls'[w].seen = calls[w].seen
    BY <1>1, AdmittedWork DEF Writing
  <2>4. ASSUME NEW d \in ran, slots'[d].status = "settled" PROVE slots[d].status = "settled"
    <3>1. d \in Calls /\ d # c BY <2>1, AdmittedCalls
    <3>2. slots'[d].status = IF d \in Lapsed THEN "expired" ELSE slots[d].status BY <3>1, AdmittedSlots
    <3> QED BY <3>2, <2>4
  <2>5. \A d \in ran : slots'[d].status = "settled" => (d \in ran /\ slots[d].status = "settled") \/ Noted(events, calls', d)
    BY <2>4
  <2>6. EventsGood(events, calls', slots', ran, clock) BY <2>1, <2>2, <2>3, <2>5, EventsOn
  <2> QED BY <2>6, <1>1 DEF EventsFit
<1>4. CallsFit'
  <2> SUFFICES ASSUME NEW d \in Calls PROVE CallFits(calls'[d], slots'[d], d \in ran') BY DEF CallsFit
  <2>1. CASE d = c
    <3>1. kind \in Kinds /\ s \in Subjects /\ (kind = "upload" => growth = 1) BY DEF Admitted
    <3> QED BY <2>1, <3>1, AdmittedCalls, AdmittedSlots DEF CallFits, Kinds
  <2>2. CASE d # c
    <3>1. calls'[d] = calls[d] /\ ran' = ran BY <2>2, <1>1, AdmittedCalls
    <3>2. /\ slots'[d].growth = slots[d].growth /\ slots'[d].late = slots[d].late
          /\ slots'[d].status = IF d \in Lapsed THEN "expired" ELSE slots[d].status
      BY <2>2, AdmittedSlots
    <3>3. d \in Lapsed => slots[d].status = "active" BY DEF Lapsed, Held
    <3> QED BY <3>1, <3>2, <3>3, HeldCalls DEF CallFits
  <2> QED BY <2>1, <2>2
<1> QED BY <1>2, <1>3, <1>4, AdmittedWork, AdmittedWrites, AdmittedClaims, AdmittedStorage DEF UsageInvariant

-----------------------------------------------------------------------------
(* The specification.                                                        *)

\* A step that does no work and records nothing.
LEMMA QuietRows ==
  ASSUME UsageLedgerAssumption, UsageInvariant, calls' \in [Calls -> CallRow], SameCalls(calls, calls'),
         \A d \in Calls : calls'[d].work = calls[d].work,
         \A d \in ran : SeesOn(calls[d], calls'[d], occupied["objects"], clock'),
         \A d \in ran : slots'[d].status = "settled" => slots[d].status = "settled",
         UNCHANGED <<events, occupied, ran>>, clock' \in Nat, clock <= clock'
  PROVE  EventsFit' /\ WorkFits' /\ ShortsStay
<1>1. /\ EventsGood(events, calls, slots, ran, clock) /\ WorkGood(calls, ran, occupied, clock) /\ clock \in Nat
      /\ events \in SUBSET EventRow /\ ran \subseteq Calls
  BY DEF UsageInvariant, EventsFit, WorkFits, LedgerTyped
<1>2. KeepsWork(calls, calls', ran, ran, clock) BY <1>1 DEF KeepsWork, SameCalls
<1>3. \A w \in Writing(calls, ran) : calls'[w].seen = calls[w].seen BY DEF Writing, SeesOn, SameSeen
<1>4. WorkGood(calls', ran, occupied, clock') BY <1>1, <1>2, UsageRows, WorkOn
<1>5. EventsGood(events, calls', slots', ran, clock')
  <2>1. \A d \in ran : slots'[d].status = "settled" => (d \in ran /\ slots[d].status = "settled") \/ Noted(events, calls', d)
    OBVIOUS
  <2> QED BY <2>1, <1>1, <1>2, <1>3, EventsOn
<1>6. ShortsStay BY <1>2, ShortsOn
<1> QED BY <1>4, <1>5, <1>6 DEF EventsFit, WorkFits

\* A step that only moves a call.
LEMMA CallMoves ==
  ASSUME UsageLedgerAssumption, UsageInvariant, NEW c \in Calls, calls' \in [Calls -> CallRow], SameCalls(calls, calls'),
         calls'[c].work = calls[c].work, \A d \in Calls : d # c => calls'[d] = calls[d],
         c \in ran => SeesOn(calls[c], calls'[c], occupied["objects"], clock),
         CallFits(calls'[c], slots[c], c \in ran), UNCHANGED <<slots, claims, events, metered, occupied, ran, clock>>
  PROVE  UsageInvariant'
<1>2. LedgerTyped' BY DEF UsageInvariant, LedgerTyped
<1>3. CallsFit'
  <2> SUFFICES ASSUME NEW d \in Calls PROVE CallFits(calls'[d], slots'[d], d \in ran') BY DEF CallsFit
  <2>1. CASE d = c BY <2>1
  <2>2. CASE d # c BY <2>2, HeldCalls
  <2> QED BY <2>1, <2>2
<1>4. Active(slots) \subseteq Calls BY DEF Active
<1>5. Writing(calls', Active(slots)) = Writing(calls, Active(slots)) /\ \A s : Users(calls', Active(slots), s) = Users(calls, Active(slots), s)
  BY <1>4, SameSets
<1>6. WritesCounted' BY <1>5 DEF UsageInvariant, WritesCounted
<1>7. ClaimsFit' BY <1>5 DEF UsageInvariant, ClaimsFit
<1>8. EventsFit' /\ WorkFits' /\ ShortsStay
  <2>1. clock \in Nat /\ ran \subseteq Calls BY DEF UsageInvariant, LedgerTyped
  <2>2. clock <= clock' /\ clock' \in Nat BY <2>1
  <2>3. \A d \in ran : SeesOn(calls[d], calls'[d], occupied["objects"], clock') BY <2>1 DEF SeesOn, SameSeen
  <2>4. \A d \in Calls : calls'[d].work = calls[d].work OBVIOUS
  <2> QED BY <2>2, <2>3, <2>4, QuietRows
<1>9. StorageFits'
  <2>1. SameAmounts(Active(slots), slots, calls, slots, calls') BY <1>4 DEF SameCalls, SameAmounts
  <2>2. Balance(occupied, events, Active(slots), ran, slots, calls) => Balance(occupied, events, Active(slots), ran, slots, calls')
    BY <2>1, BalancedSame DEF Balance
  <2>3. Excused(slots, ran, events, calls) => Excused(slots, ran, events, calls')
    BY <1>8 DEF Excused, ShortsStay
  <2> QED BY <2>2, <2>3 DEF UsageInvariant, StorageFits
<1> QED BY <1>2, <1>3, <1>6, <1>7, <1>8, <1>9 DEF UsageInvariant

LEMMA GoesKeeps ==
  ASSUME UsageLedgerAssumption, UsageInvariant, NEW c \in Calls, NEW step \in {"failed", "conflict"}, Goes(c, step),
         calls[c].step # "idle", UNCHANGED <<slots, claims, events, metered, occupied, ran, clock>>
  PROVE  UsageInvariant'
<1>1. /\ calls' \in [Calls -> CallRow] /\ SameCalls(calls, calls') /\ \A d \in Calls : SameSeen(calls[d], calls'[d])
      /\ calls'[c].step = step /\ \A d \in Calls : d # c => calls'[d] = calls[d]
  BY GoesOnly DEF UsageInvariant, LedgerTyped, CallSteps
<1>2. CallFits(calls'[c], slots[c], c \in ran) BY <1>1, HeldCalls DEF CallFits, SameCalls
<1>3. SeesOn(calls[c], calls'[c], occupied["objects"], clock) BY <1>1 DEF SeesOn
<1>4. calls'[c].work = calls[c].work BY <1>1 DEF SameSeen
<1> QED BY <1>1, <1>2, <1>3, <1>4, CallMoves

\* A call that sees the size of the objects, or is sent again.
LEMMA SeesKeeps ==
  ASSUME UsageLedgerAssumption, UsageInvariant, NEW c \in Calls, c \in ran, calls[c].kind = "upload",
         NEW step \in {"executed", "measured", "read"}, NEW t \in Nat, calls[c].at <= t, t <= clock, NEW bytes \in Nat,
         step = "measured" => bytes = occupied["objects"], step = "read" => calls[c].step = "settled",
         Sees(c, step, t, bytes), UNCHANGED <<slots, claims, events, metered, occupied, ran, clock>>
  PROVE  UsageInvariant'
<1>1. /\ calls' \in [Calls -> CallRow] /\ SameCalls(calls, calls') /\ \A d \in Calls : d # c => calls'[d] = calls[d]
      /\ calls'[c].step = step /\ calls'[c].work = calls[c].work /\ calls'[c].at = t /\ calls'[c].seen = bytes
  <2>1. step \in CallSteps BY DEF CallSteps
  <2>2. calls \in [Calls -> CallRow] BY DEF UsageInvariant, LedgerTyped
  <2>3. c \in Calls /\ t \in Nat /\ bytes \in Nat /\ Sees(c, step, t, bytes) OBVIOUS
  <2> QED BY ONLY <2>1, <2>2, <2>3, SeesOnly
<1>2. CallFits(calls'[c], slots[c], c \in ran) BY <1>1, HeldCalls DEF CallFits, SameCalls
<1>3. calls[c].work <= t
  <2>1. PICK m, a : m = calls[c].work /\ a = calls[c].at OBVIOUS
  <2>2. m \in Nat /\ a \in Nat BY <2>1, HeldCalls DEF CallRow
  <2>3. m <= a /\ a <= t BY <2>1 DEF UsageInvariant, WorkFits, WorkGood
  <2>4. m <= t BY <2>2, <2>3
  <2> QED BY <2>1, <2>4
<1>4. SeesOn(calls[c], calls'[c], occupied["objects"], clock) BY <1>1, <1>3 DEF SeesOn
<1> QED BY <1>1, <1>2, <1>4, CallMoves

\* settle_storage_metering up to the ledger,
LEMMA MeasureKeeps ==
  ASSUME UsageLedgerAssumption, UsageInvariant, NEW c \in Calls, NEW t \in Nat, Measure(c, t)
  PROVE  UsageInvariant'
<1>1. calls[c].step = "executed" /\ calls[c].kind = "upload" /\ t \in calls[c].at..clock BY DEF Measure, CallAt
<1>2. c \in ran BY <1>1, HeldCalls DEF CallFits
<1>3. calls[c].at \in Nat /\ clock \in Nat /\ occupied["objects"] \in Nat
  BY HeldCalls DEF CallRow, UsageInvariant, LedgerTyped, Resources
<1>4. calls[c].at <= t /\ t <= clock BY <1>1, <1>3
<1> QED BY <1>1, <1>2, <1>3, <1>4, SeesKeeps DEF Measure

\* current_bytes of the handler,
LEMMA ReadBytesKeeps ==
  ASSUME UsageLedgerAssumption, UsageInvariant, NEW c \in Calls, ReadBytes(c)
  PROVE  UsageInvariant'
<1>1. calls[c].step = "settled" /\ calls[c].kind = "upload" BY DEF ReadBytes, CallAt
<1>2. c \in ran BY <1>1, HeldCalls DEF CallFits
<1>3. clock \in Nat /\ occupied["objects"] \in Nat BY DEF UsageInvariant, LedgerTyped, Resources
<1>4. clock <= clock BY <1>3
<1>5. calls[c].at <= clock BY <1>2 DEF UsageInvariant, WorkFits, WorkGood
<1> QED BY <1>1, <1>2, <1>3, <1>4, <1>5, SeesKeeps DEF ReadBytes

\* and a commit that is sent again.
LEMMA ReplayKeeps ==
  ASSUME UsageLedgerAssumption, UsageInvariant, NEW c \in Calls, ReplayUpload(c)
  PROVE  UsageInvariant'
<1>1. /\ calls[c].kind = "upload" /\ c \in ran /\ calls[c].step # "idle"
      /\ UNCHANGED <<slots, claims, events, metered, occupied, ran, clock>>
  BY DEF ReplayUpload
<1>2. CASE Sees(c, "executed", clock, calls[c].seen)
  <2>1. clock \in Nat /\ calls[c].seen \in Nat BY HeldCalls DEF UsageInvariant, LedgerTyped, CallRow
  <2>2. calls[c].at <= clock /\ clock <= clock BY <1>1, <2>1 DEF UsageInvariant, WorkFits, WorkGood
  <2> QED BY <1>1, <1>2, <2>1, <2>2, SeesKeeps
<1>3. CASE Goes(c, "conflict") BY <1>1, <1>3, GoesKeeps
<1> QED BY <1>2, <1>3 DEF ReplayUpload

LEMMA TickKeeps ==
  ASSUME UsageLedgerAssumption, UsageInvariant, Tick
  PROVE  UsageInvariant'
<1>1. clock' = clock + 1 /\ UNCHANGED <<calls, slots, claims, events, metered, occupied, ran>> BY DEF Tick
<1>2. LedgerTyped' BY <1>1 DEF UsageInvariant, LedgerTyped
<1>3. calls' \in [Calls -> CallRow] /\ clock \in Nat /\ ran \subseteq Calls BY <1>1 DEF UsageInvariant, LedgerTyped
<1>4. EventsFit' /\ WorkFits' /\ ShortsStay
  <2>1. clock' \in Nat /\ clock <= clock' BY <1>1, <1>3
  <2>2. SameCalls(calls, calls') BY <1>1 DEF SameCalls
  <2>3. \A d \in ran : SeesOn(calls[d], calls'[d], occupied["objects"], clock') BY <1>1 DEF SeesOn, SameSeen
  <2> QED BY <1>1, <1>3, <2>1, <2>2, <2>3, QuietRows
<1>5. CallsFit' /\ WritesCounted' /\ ClaimsFit' /\ StorageFits'
  BY <1>1 DEF UsageInvariant, CallsFit, WritesCounted, ClaimsFit, StorageFits
<1> QED BY <1>2, <1>4, <1>5 DEF UsageInvariant

LEMMA WorkEvents ==
  ASSUME UsageLedgerAssumption, UsageInvariant, NEW c \in Calls, KeepsWork(calls, calls', ran, ran', clock),
         ran' = ran \cup {c}, c \notin ran, clock' = clock + 1, events' = events, slots'[c].status # "settled",
         \A d \in Calls : d # c => calls'[d] = calls[d] /\ slots'[d] = slots[d]
  PROVE  EventsFit'
<1>1. /\ EventsGood(events, calls, slots, ran, clock) /\ clock \in Nat /\ events \in SUBSET EventRow /\ ran \subseteq Calls
  BY DEF UsageInvariant, EventsFit, LedgerTyped
<1>2. clock' \in Nat /\ clock <= clock' BY <1>1
<1>3. \A w \in Writing(calls, ran) : calls'[w].seen = calls[w].seen BY <1>1 DEF Writing
<1>4. ASSUME NEW d \in ran', slots'[d].status = "settled" PROVE (d \in ran /\ slots[d].status = "settled") \/ Noted(events, calls', d)
  <2>1. d # c /\ d \in ran BY <1>4
  <2> QED BY <2>1, <1>1, <1>4
<1>5. EventsGood(events, calls', slots', ran', clock') BY <1>1, <1>2, <1>3, <1>4, EventsOn
<1> QED BY <1>5 DEF EventsFit

\* execute, whose answer arrives,
LEMMA ExecuteKeeps ==
  ASSUME UsageLedgerAssumption, UsageInvariant, NEW c \in Calls, NEW bytes \in Nat, Execute(c, bytes)
  PROVE  UsageInvariant'
<1>1. Work(c, bytes) /\ WorkedAt(c, bytes, "executed") /\ UNCHANGED <<slots, claims, events, metered>> BY DEF Execute
<1>2. /\ calls' \in [Calls -> CallRow] /\ SameCalls(calls, calls')
      /\ calls'[c].step = "executed" /\ \A d \in Calls : d # c => calls'[d] = calls[d]
  BY <1>1, WorkedOnly DEF UsageInvariant, LedgerTyped, CallSteps
<1>3. /\ occupied' \in [Resources -> Nat] /\ \A r \in Resources : occupied[r] <= occupied'[r]
      /\ ran' = ran \cup {c} /\ clock' = clock + 1 /\ calls[c].kind \in Kinds
  BY <1>1, WorkSizes
<1>t. clock \in Nat /\ ran \subseteq Calls BY DEF UsageInvariant, LedgerTyped
<1>u. clock' \in Nat BY <1>t, <1>3
<1>v. ran' \subseteq Calls BY <1>t, <1>3
<1>4. LedgerTyped' BY <1>1, <1>2, <1>3, <1>u, <1>v DEF UsageInvariant, LedgerTyped
<1>5. CallsFit'
  <2> SUFFICES ASSUME NEW d \in Calls PROVE CallFits(calls'[d], slots'[d], d \in ran') BY DEF CallsFit
  <2>0. CallFits(calls[d], slots[d], d \in ran) /\ slots'[d] = slots[d] BY <1>1, HeldCalls
  <2>1. CASE d = c
    <3>1. /\ calls'[c].kind = calls[c].kind /\ calls'[c].subject = calls[c].subject
          /\ calls'[c].step = "executed" /\ c \in ran' /\ calls[c].kind # "none"
      BY <1>2, <1>3 DEF SameCalls, Kinds
    <3> QED BY <2>0, <2>1, <3>1 DEF CallFits
  <2>2. CASE d # c
    <3>1. calls'[d] = calls[d] /\ (d \in ran') = (d \in ran) BY <2>2, <1>2, <1>3
    <3> QED BY <2>0, <3>1
  <2> QED BY <2>1, <2>2
<1>6. Active(slots) \subseteq Calls BY DEF Active
<1>7. Writing(calls', Active(slots)) = Writing(calls, Active(slots)) /\ \A s : Users(calls', Active(slots), s) = Users(calls, Active(slots), s)
  BY <1>2, <1>6, SameSets
<1>8. WritesCounted' BY <1>1, <1>7 DEF UsageInvariant, WritesCounted
<1>9. ClaimsFit' BY <1>1, <1>7 DEF UsageInvariant, ClaimsFit
<1>10. KeepsWork(calls, calls', ran, ran', clock) /\ WorkFits' BY <1>1, WorkAdds
<1>11. EventsFit'
  <2>1. c \notin ran /\ slots[c].status # "settled" BY <1>1, WorkSizes
  <2>2. slots'[c].status # "settled" /\ \A d \in Calls : d # c => calls'[d] = calls[d] /\ slots'[d] = slots[d]
    BY <2>1, <1>1, <1>2
  <2> QED BY <2>1, <2>2, <1>1, <1>3, <1>10, WorkEvents
<1>12. StorageFits' BY <1>1, <1>2, <1>10, ShortsOn, StorageWorks
<1> QED BY <1>4, <1>5, <1>8, <1>9, <1>10, <1>11, <1>12 DEF UsageInvariant

\* or is lost.
LEMMA AnswerLostKeeps ==
  ASSUME UsageLedgerAssumption, UsageInvariant, NEW c \in Calls, NEW bytes \in Nat, AnswerLost(c, bytes)
  PROVE  UsageInvariant'
<1>1. Work(c, bytes) /\ WorkedAt(c, bytes, "failed") /\ ReleaseSlot(c) /\ UNCHANGED <<events, metered>> BY DEF AnswerLost
<1>2. /\ calls' \in [Calls -> CallRow] /\ SameCalls(calls, calls')
      /\ calls'[c].step = "failed" /\ \A d \in Calls : d # c => calls'[d] = calls[d]
  BY <1>1, WorkedOnly DEF UsageInvariant, LedgerTyped, CallSteps
<1>3. /\ occupied' \in [Resources -> Nat] /\ \A r \in Resources : occupied[r] <= occupied'[r]
      /\ ran' = ran \cup {c} /\ clock' = clock + 1 /\ calls[c].kind \in Kinds /\ calls[c].subject \in Subjects
      /\ slots[c].status \in {"active", "expired"}
  BY <1>1, WorkSizes
<1>4. /\ Ends(c, slots, slots') /\ slots'[c].late = slots[c].late
      /\ slots'[c].status = (IF slots[c].status = "active" THEN "released" ELSE slots[c].status)
      /\ claims' \in [Subjects -> ClaimRow]
      /\ \A s \in Subjects : claims'[s] = IF s = calls[c].subject /\ slots[c].status = "active"
                                         THEN Dropped(claims[s], 1) ELSE claims[s]
  BY <1>1, <1>3, ReleaseEnds DEF UsageInvariant
<1>t. clock \in Nat /\ ran \subseteq Calls BY DEF UsageInvariant, LedgerTyped
<1>u. clock' \in Nat BY <1>t, <1>3
<1>v. ran' \subseteq Calls BY <1>t, <1>3
<1>a. ran' \subseteq Calls /\ clock' \in Nat BY <1>u, <1>v
<1>b. events' \subseteq EventRow /\ metered' \in Nat /\ slots' \in [Calls -> SlotRow]
  BY <1>1, <1>4 DEF UsageInvariant, LedgerTyped, Ends
<1>5. LedgerTyped' BY <1>a, <1>b, <1>2, <1>3, <1>4 DEF LedgerTyped
<1>6. CallsFit'
  <2> SUFFICES ASSUME NEW d \in Calls PROVE CallFits(calls'[d], slots'[d], d \in ran') BY DEF CallsFit
  <2>1. CASE d = c
    <3>1. slots'[c].growth = slots[c].growth BY <1>4 DEF Ends
    <3>2. calls[c].kind # "none" BY <1>3 DEF Kinds
    <3>3. CallFits(calls[c], slots[c], c \in ran) BY HeldCalls
    <3>4. calls'[c].kind = calls[c].kind /\ calls'[c].subject = calls[c].subject /\ calls'[c].step = "failed" BY <1>2 DEF SameCalls
    <3>5. slots'[c].late = slots[c].late /\ slots'[c].status \in {"released", "expired"} /\ slots[c].status # "settled"
      BY <1>3, <1>4
    <3>6. c \in ran' BY <1>3
    <3>7. CallFits(calls'[c], slots'[c], c \in ran') BY <3>1, <3>2, <3>3, <3>4, <3>5, <3>6 DEF CallFits
    <3> QED BY <2>1, <3>7
  <2>2. CASE d # c
    <3>1. calls'[d] = calls[d] /\ slots'[d] = slots[d] BY <2>2, <1>2, <1>4 DEF Ends
    <3>2. d \in ran' <=> d \in ran BY <2>2, <1>3
    <3>3. CallFits(calls[d], slots[d], d \in ran) BY HeldCalls
    <3> QED BY <3>1, <3>2, <3>3 DEF CallFits
  <2> QED BY <2>1, <2>2
<1>7. WritesCounted' BY <1>1, <1>2, <1>4, WritesEnd
<1>8. ClaimsFit' BY <1>1, <1>2, <1>4, ClaimsEnd
<1>9. KeepsWork(calls, calls', ran, ran', clock) /\ WorkFits' BY <1>1, WorkAdds
<1>10. EventsFit'
  <2>1. c \notin ran /\ slots'[c].status # "settled" BY <1>1, <1>3, <1>4, WorkSizes
  <2>2. \A d \in Calls : d # c => slots'[d] = slots[d] BY <1>4 DEF Ends
  <2> QED BY <2>1, <2>2, <1>1, <1>2, <1>3, <1>9, WorkEvents
<1>11. StorageFits' BY <1>3, <1>4 DEF StorageFits, Excused
<1> QED BY <1>5, <1>6, <1>7, <1>8, <1>9, <1>10, <1>11 DEF UsageInvariant

LEMMA ExecuteFailsKeeps ==
  ASSUME UsageLedgerAssumption, UsageInvariant, NEW c \in Calls, ExecuteFails(c)
  PROVE  UsageInvariant'
<1>1. /\ calls[c].step = "prepared" /\ c \notin ran /\ Goes(c, "failed") /\ ReleaseSlot(c)
      /\ UNCHANGED <<events, metered, occupied, ran, clock>>
  BY DEF ExecuteFails, CallAt
<1>2. /\ calls' \in [Calls -> CallRow] /\ SameCalls(calls, calls') /\ \A d \in Calls : SameSeen(calls[d], calls'[d])
      /\ calls'[c].step = "failed" /\ \A d \in Calls : d # c => calls'[d] = calls[d]
  BY <1>1, GoesOnly DEF UsageInvariant, LedgerTyped, CallSteps
<1>3. calls[c].kind # "none" /\ calls[c].subject \in Subjects BY <1>1, HeldCalls DEF CallFits
<1>4. /\ Ends(c, slots, slots') /\ slots'[c].late = slots[c].late
      /\ slots'[c].status = (IF slots[c].status = "active" THEN "released" ELSE slots[c].status)
      /\ claims' \in [Subjects -> ClaimRow]
      /\ \A s \in Subjects : claims'[s] = IF s = calls[c].subject /\ slots[c].status = "active"
                                         THEN Dropped(claims[s], 1) ELSE claims[s]
  BY <1>1, <1>3, ReleaseEnds DEF UsageInvariant
<1>5. LedgerTyped' BY <1>1, <1>2, <1>4 DEF UsageInvariant, LedgerTyped, Ends
<1>6. CallsFit'
  <2> SUFFICES ASSUME NEW d \in Calls PROVE CallFits(calls'[d], slots'[d], d \in ran') BY DEF CallsFit
  <2>1. CASE d = c
    <3>1. /\ slots'[c].growth = slots[c].growth /\ calls'[c].kind = calls[c].kind
          /\ calls'[c].subject = calls[c].subject /\ (c \in ran') = (c \in ran)
      BY <1>1, <1>2, <1>4 DEF Ends, SameCalls
    <3>2. CallFits(calls[c], slots[c], c \in ran) BY HeldCalls
    <3> QED BY <2>1, <3>1, <3>2, <1>1, <1>2, <1>3, <1>4 DEF CallFits
  <2>2. CASE d # c BY <2>2, <1>1, <1>2, <1>4, HeldCalls DEF Ends
  <2> QED BY <2>1, <2>2
<1>7. WritesCounted' BY <1>1, <1>2, <1>4, WritesEnd
<1>8. ClaimsFit' BY <1>1, <1>2, <1>4, ClaimsEnd
<1>9. EventsFit' /\ WorkFits' /\ ShortsStay
  <2>1. clock \in Nat /\ ran \subseteq Calls BY DEF UsageInvariant, LedgerTyped
  <2>2. clock' \in Nat /\ clock <= clock' BY <1>1, <2>1
  <2>3. \A d \in ran : SeesOn(calls[d], calls'[d], occupied["objects"], clock') BY <1>1, <1>2, <2>1 DEF SeesOn, SameSeen
  <2>4. \A d \in ran : slots'[d].status = "settled" => slots[d].status = "settled" BY <1>1, <1>4, <2>1 DEF Ends
  <2>5. \A d \in Calls : calls'[d].work = calls[d].work BY <1>2 DEF SameSeen
  <2> QED BY <1>1, <1>2, <2>2, <2>3, <2>4, <2>5, QuietRows
<1>10. StorageFits' BY <1>1, <1>2, <1>4, <1>9, StorageReleases
<1> QED BY <1>5, <1>6, <1>7, <1>8, <1>9, <1>10 DEF UsageInvariant

\* Settling a call or recording what its handler read leaves the rows behind it.
LEMMA RecordsRows ==
  ASSUME UsageLedgerAssumption, UsageInvariant, calls' \in [Calls -> CallRow], SameCalls(calls, calls'),
         \A d \in Calls : SameSeen(calls[d], calls'[d]), \A d \in ran : calls'[d].step = calls[d].step \/ calls'[d].step # "measured",
         EventsGood(events', calls, slots, ran, clock), events \subseteq events', events' \subseteq EventRow,
         UNCHANGED <<occupied, ran, clock>>,
         \A d \in ran : slots'[d].status = "settled" => slots[d].status = "settled" \/ Noted(events', calls', d)
  PROVE  EventsFit' /\ WorkFits' /\ ShortsStay
<1>1. WorkGood(calls, ran, occupied, clock) /\ clock \in Nat /\ events' \in SUBSET EventRow /\ ran \subseteq Calls
  BY DEF UsageInvariant, WorkFits, LedgerTyped
<1>2. clock <= clock BY <1>1
<1>3. KeepsWork(calls, calls', ran, ran, clock) BY <1>1 DEF KeepsWork, SameCalls, SameSeen
<1>4. \A d \in ran : SeesOn(calls[d], calls'[d], occupied["objects"], clock) BY <1>1 DEF SeesOn
<1>5. \A w \in Writing(calls, ran) : calls'[w].seen = calls[w].seen BY <1>1 DEF Writing, SameSeen
<1>6. WorkGood(calls', ran, occupied, clock) BY <1>1, <1>2, <1>3, <1>4, UsageRows, WorkOn
<1>7. EventsGood(events', calls', slots', ran, clock) BY <1>1, <1>2, <1>3, <1>5, EventsOn
<1>8. ShortsStay BY <1>3, ShortsOn
<1> QED BY <1>6, <1>7, <1>8 DEF EventsFit, WorkFits

\* settle_reservation, of a call that was done.
LEMMA SettlesKeeps ==
  ASSUME UsageLedgerAssumption, UsageInvariant, NEW c \in Calls, Settle(c)
  PROVE  UsageInvariant'
<1>0. /\ SettleReservation(c) /\ Goes(c, "settled") /\ UNCHANGED <<occupied, ran, clock>>
      /\ calls[c].step = IF calls[c].kind = "upload" THEN "measured" ELSE "executed"
  BY DEF Settle, Counted, CallAt
<1>c. c \in ran BY <1>0, HeldCalls DEF CallFits
<1>1. /\ slots[c].status \in {"active", "expired"} /\ IngestEvent(c, EventId(c), calls[c].at)
      /\ metered' = metered + Units(calls[c].kind)
  BY <1>0 DEF SettleReservation
<1>2. /\ calls' \in [Calls -> CallRow] /\ SameCalls(calls, calls') /\ \A d \in Calls : SameSeen(calls[d], calls'[d])
      /\ calls'[c].step = "settled" /\ \A d \in Calls : d # c => calls'[d] = calls[d]
  BY <1>0, GoesOnly DEF UsageInvariant, LedgerTyped, CallSteps
<1>3. calls[c].kind # "none" /\ calls[c].subject \in Subjects BY <1>1, HeldCalls DEF CallFits
<1>4. /\ Ends(c, slots, slots') /\ slots'[c].status = "settled"
      /\ slots'[c].late = (IF slots[c].status = "expired" THEN 1 ELSE 0)
      /\ claims' \in [Subjects -> ClaimRow]
      /\ \A s \in Subjects : claims'[s] = IF s = calls[c].subject THEN Activated(claims[s]) ELSE claims[s]
  BY <1>0, <1>3, SettleEnds DEF UsageInvariant
<1>t. /\ calls[c].at \in Nat /\ calls[c].work <= calls[c].at /\ calls[c].at <= clock /\ EventId(c) \in Nat /\ ran \subseteq Calls
  <2>1. calls[c].at \in Nat BY HeldCalls DEF CallRow
  <2>2. calls[c].work <= calls[c].at /\ calls[c].at <= clock BY <1>c DEF UsageInvariant, WorkFits, WorkGood
  <2>3. c \in Nat BY DEF UsageLedgerAssumption
  <2>4. EventId(c) \in Nat BY <2>3 DEF EventId
  <2> QED BY <2>1, <2>2, <2>4 DEF UsageInvariant, LedgerTyped
<1>s. calls[c].kind = "upload" => Cardinality(Earlier(calls, ran, calls[c].at)) <= calls[c].seen
  BY <1>0, <1>c DEF Uploading, UsageInvariant, WorkFits, WorkGood
<1>5. PICK e \in EventRow :
        /\ e.subject = calls[c].subject /\ events' = events \cup {e} /\ e.at = calls[c].at /\ e.bytes = calls[c].seen
        /\ calls[c].kind = "write" => e.resource = "database"
        /\ calls[c].kind = "upload" => e.resource = "objects"
        /\ EventsGood(events', calls, slots, ran, clock)
  BY <1>1, <1>c, <1>t, <1>s, EventComes
<1>7. metered' \in Nat BY <1>1 DEF UsageInvariant, LedgerTyped, Units
<1>8. LedgerTyped' BY <1>0, <1>2, <1>4, <1>5, <1>7 DEF UsageInvariant, LedgerTyped, Ends
<1>9. CallsFit'
  <2> SUFFICES ASSUME NEW d \in Calls PROVE CallFits(calls'[d], slots'[d], d \in ran') BY DEF CallsFit
  <2>1. CASE d = c
    <3>1. slots'[c].growth = slots[c].growth /\ c \in ran' BY <1>0, <1>c, <1>4 DEF Ends
    <3>2. CallFits(calls[c], slots[c], c \in ran) BY HeldCalls
    <3>3. calls'[c].kind = calls[c].kind /\ calls'[c].subject = calls[c].subject BY <1>2 DEF SameCalls
    <3>4. CallFits(calls'[c], slots'[c], c \in ran') BY <3>1, <3>2, <3>3, <1>2, <1>3, <1>4 DEF CallFits
    <3> QED BY <2>1, <3>4
  <2>2. CASE d # c BY <2>2, <1>0, <1>2, <1>4, HeldCalls DEF Ends
  <2> QED BY <2>1, <2>2
<1>10. WritesCounted' BY <1>1, <1>2, <1>4, WritesSettle
<1>11. ClaimsFit' BY <1>2, <1>4, <1>5, ClaimsSettle
<1>12. Noted(events', calls', c)
  <2>1. /\ calls'[c].kind = calls[c].kind /\ calls'[c].subject = calls[c].subject
        /\ calls'[c].seen = calls[c].seen /\ calls'[c].work = calls[c].work
    BY <1>2 DEF SameCalls, SameSeen
  <2>2. calls[c].kind = "write" => e \in Of(events', "database") BY <1>5 DEF Of
  <2>3. calls[c].kind = "upload" => e \in Of(events', "objects") BY <1>5 DEF Of
  <2> QED BY <2>1, <2>2, <2>3, <1>5, <1>t DEF Noted
<1>13. events \subseteq events' /\ events' \subseteq EventRow BY <1>5 DEF UsageInvariant, LedgerTyped
<1>14. EventsFit' /\ WorkFits' /\ ShortsStay
  <2>1. \A d \in ran : slots'[d].status = "settled" => slots[d].status = "settled" \/ Noted(events', calls', d)
    BY <1>4, <1>12, <1>t DEF Ends
  <2>2. \A d \in ran : calls'[d].step = calls[d].step \/ calls'[d].step # "measured" BY <1>2, <1>t
  <2> QED BY <2>1, <2>2, <1>0, <1>2, <1>5, <1>13, RecordsRows
<1>15. StorageFits'
  <2>1. Excused(slots, ran, events, calls) => Excused(slots', ran, events', calls') BY <1>0, <1>1, <1>4, <1>13, <1>14, ExcusedStays
  <2>2. /\ slots' \in [Calls -> SlotRow] /\ \A d \in Calls : slots'[d].growth = slots[d].growth
        /\ Active(slots') \subseteq Active(slots) /\ Active(slots') \ ran = Active(slots) \ ran
    BY <1>4, <1>c DEF Ends
  <2>3. ASSUME NEW d \in ran PROVE slots'[d].status \in {"active", "settled", "released", "expired"}
    <3>1. d \in Calls /\ CallFits(calls'[d], slots'[d], d \in ran') /\ slots'[d] \in SlotRow BY <1>9, <2>2, <1>t DEF CallsFit
    <3>2. d \in ran' BY <1>0
    <3> QED BY <3>1, <3>2, RunHeld
  <2> QED BY <2>1, <2>2, <2>3, <1>0, <1>2, <1>13, <1>14, StorageRecords
<1> QED BY <1>8, <1>9, <1>10, <1>11, <1>14, <1>15 DEF UsageInvariant

\* record_object_storage.
LEMMA RecordKeeps ==
  ASSUME UsageLedgerAssumption, UsageInvariant, NEW c \in Calls, NEW t \in Nat, RecordObjectStorage(c, t)
  PROVE  UsageInvariant'
<1>0. /\ calls[c].step = "read" /\ t \in calls[c].at..clock /\ IngestEvent(c, RecordId(c), t) /\ Goes(c, "recorded")
      /\ UNCHANGED <<slots, claims, metered, occupied, ran, clock>>
  BY DEF RecordObjectStorage, CallAt
<1>1. c \in ran /\ calls[c].kind = "upload" /\ calls[c].subject \in Subjects BY <1>0, HeldCalls DEF CallFits
<1>2. /\ calls' \in [Calls -> CallRow] /\ SameCalls(calls, calls') /\ \A d \in Calls : SameSeen(calls[d], calls'[d])
      /\ calls'[c].step = "recorded" /\ \A d \in Calls : d # c => calls'[d] = calls[d]
  BY <1>0, GoesOnly DEF UsageInvariant, LedgerTyped, CallSteps
<1>3. t <= clock /\ RecordId(c) \in Nat /\ ran \subseteq Calls
  <2>1. calls[c].at \in Nat /\ clock \in Nat /\ c \in Nat
    BY HeldCalls DEF CallRow, UsageInvariant, LedgerTyped, UsageLedgerAssumption
  <2> QED BY <2>1, <1>0 DEF RecordId, UsageInvariant, LedgerTyped
<1>4. \A d \in Calls : RecordId(c) # EventId(d)
  <2>1. c \in Nat /\ \A d \in Calls : d \in Nat BY DEF UsageLedgerAssumption
  <2>2. \A d \in Nat : 2 * c + 1 # 2 * d BY <2>1
  <2> QED BY <2>1, <2>2 DEF RecordId, EventId
<1>5. PICK e \in EventRow :
        e.subject = calls[c].subject /\ events' = events \cup {e} /\ EventsGood(events', calls, slots, ran, clock)
  BY <1>0, <1>1, <1>3, <1>4, EventComes
<1>6. LedgerTyped' BY <1>0, <1>2, <1>5 DEF UsageInvariant, LedgerTyped
<1>7. CallsFit'
  <2> SUFFICES ASSUME NEW d \in Calls PROVE CallFits(calls'[d], slots'[d], d \in ran') BY DEF CallsFit
  <2>1. CASE d = c BY <2>1, <1>0, <1>1, <1>2, HeldCalls DEF CallFits, SameCalls
  <2>2. CASE d # c BY <2>2, <1>0, <1>2, HeldCalls
  <2> QED BY <2>1, <2>2
<1>8. Active(slots) \subseteq Calls BY DEF Active
<1>9. Writing(calls', Active(slots)) = Writing(calls, Active(slots)) /\ \A s : Users(calls', Active(slots), s) = Users(calls, Active(slots), s)
  BY <1>2, <1>8, SameSets
<1>10. WritesCounted' BY <1>0, <1>9 DEF UsageInvariant, WritesCounted
<1>11. ClaimsFit'
  <2>1. \A s \in Subjects : (\E f \in events' : f.subject = s) <=> (\E f \in events : f.subject = s)
    <3>1. slots[c].status = "settled" BY <1>0, HeldCalls DEF CallFits
    <3>2. \E f \in events : f.subject = calls[c].subject
      BY <3>1, <1>1 DEF UsageInvariant, EventsFit, EventsGood, Noted
    <3> QED BY <3>2, <1>5
  <2> QED BY <2>1, <1>0, <1>9 DEF UsageInvariant, ClaimsFit, ClaimFits
<1>12. events \subseteq events' /\ events' \subseteq EventRow BY <1>5 DEF UsageInvariant, LedgerTyped
<1>13. EventsFit' /\ WorkFits' /\ ShortsStay
  <2>1. \A d \in ran : calls'[d].step = calls[d].step \/ calls'[d].step # "measured" BY <1>2, <1>3
  <2> QED BY <2>1, <1>0, <1>2, <1>5, <1>12, RecordsRows
<1>14. StorageFits'
  <2>1. Excused(slots, ran, events, calls) => Excused(slots', ran, events', calls') BY <1>0, <1>12, <1>13 DEF Excused, ShortsStay
  <2>2. slots' \in [Calls -> SlotRow] /\ slots' = slots BY <1>0 DEF UsageInvariant, LedgerTyped
  <2>3. ASSUME NEW d \in ran PROVE slots'[d].status \in {"active", "settled", "released", "expired"}
    <3>1. d \in Calls /\ CallFits(calls'[d], slots'[d], d \in ran') /\ slots'[d] \in SlotRow BY <1>7, <2>2, <1>3 DEF CallsFit
    <3>2. d \in ran' BY <1>0
    <3> QED BY <3>1, <3>2, RunHeld
  <2> QED BY <2>1, <2>2, <2>3, <1>0, <1>2, <1>12, <1>13, StorageRecords
<1> QED BY <1>6, <1>7, <1>10, <1>11, <1>13, <1>14 DEF UsageInvariant

LEMMA UsageStarts ==
  ASSUME UsageLedgerAssumption, UsageInit
  PROVE  UsageInvariant
<1>1. /\ \A c \in Calls : calls[c] = NoCall /\ slots[c] = NoSlot
      /\ \A s \in Subjects : claims[s] = NoClaim
      /\ events = {} /\ metered = 0 /\ ran = {} /\ clock = 0 /\ occupied["database"] = 0 /\ occupied["objects"] = 0
  BY DEF UsageInit, Resources
<1>2. NoCall \in CallRow /\ NoSlot \in SlotRow /\ NoClaim \in ClaimRow
  BY DEF NoCall, NoSlot, NoClaim, CallRow, SlotRow, ClaimRow, Kinds, CallSteps
<1>3. LedgerTyped BY <1>2 DEF UsageInit, LedgerTyped, Resources
<1>4. CallsFit
  <2>0. NoCall.kind = "none" /\ NoCall.step = "idle" /\ NoSlot.status = "none" /\ NoSlot.late = 0 BY DEF NoCall, NoSlot
  <2>1. CallFits(NoCall, NoSlot, FALSE) BY <2>0 DEF CallFits
  <2>2. \A c : (c \in ran) = FALSE BY <1>1
  <2> QED BY <2>1, <2>2, <1>1 DEF CallsFit
<1>5. Active(slots) = {} /\ LateOnes(slots) = {}
  <2>1. \A c \in Calls : slots[c].status = "none" /\ slots[c].late = 0 BY <1>1 DEF NoSlot
  <2>2. Active(slots) = {} BY <2>1 DEF Active
  <2>3. 0 # 1 OBVIOUS
  <2>4. \A c \in Calls : slots[c].late # 1 BY <2>1, <2>3
  <2>5. LateOnes(slots) = {} BY <2>4 DEF LateOnes
  <2> QED BY <2>2, <2>5
<1>6. \A X : Writing(calls, {}) = {} /\ Users(calls, {}, X) = {} /\ Uploading(calls, {}) = {}
  BY DEF Writing, Users, Uploading
<1>7. Cardinality({}) = 0 BY FS_EmptySet
<1>8. WritesCounted
  <2>1. 0 + 0 <= WriteLimit + 0 BY DEF UsageLedgerAssumption
  <2> QED BY <2>1, <1>1, <1>5, <1>6, <1>7 DEF WritesCounted
<1>9. ClaimsFit
  <2>1. \A s \in Subjects : ClaimFits(NoClaim, 0, \E e \in events : e.subject = s) BY <1>1 DEF ClaimFits, NoClaim
  <2> QED BY <2>1, <1>1, <1>5, <1>6, <1>7 DEF ClaimsFit
<1>10. EventsFit
  <2>1. \A x : Of(events, x) = {} BY <1>1 DEF Of
  <2> QED BY <2>1, <1>1 DEF EventsFit, EventsGood, HasNewest
<1>12. WorkFits
  <2>1. Writing(calls, ran) = {} /\ Uploading(calls, ran) = {} BY <1>1, <1>6
  <2> QED BY <2>1, <1>1, <1>7 DEF WorkFits, WorkGood
<1>11. StorageFits
  <2>1. Recorded(events, "database") = 0 /\ Recorded(events, "objects") = 0 BY <1>1 DEF Recorded, RecordedIn, Of
  <2>2. {} \ ran = {} /\ {} \cap ran = {} OBVIOUS
  <2>3. StorageLimit \in Nat BY DEF UsageLedgerAssumption
  <2>4. Balanced(0, 0, 0, 0, {}, ran, slots, calls) BY <2>2, <2>3, <1>6, <1>7 DEF Balanced
  <2> QED BY <2>1, <2>4, <1>1, <1>5 DEF StorageFits, Balance
<1> QED BY <1>3, <1>4, <1>8, <1>9, <1>10, <1>11, <1>12 DEF UsageInvariant

LEMMA UsageSteps ==
  ASSUME UsageLedgerAssumption, UsageInvariant, [UsageNext]_usageVars
  PROVE  UsageInvariant'
<1>1. CASE usageVars' = usageVars
  <2>1. UNCHANGED <<calls, slots, claims, events, metered, occupied, ran, clock>> BY <1>1 DEF usageVars
  <2> QED BY <2>1 DEF UsageInvariant, LedgerTyped, CallsFit, WritesCounted, ClaimsFit, WorkFits, EventsFit, StorageFits
<1>2. ASSUME NEW c \in Calls, NEW s \in Subjects, PrepareWrite(c, s) PROVE UsageInvariant'
  <2>1. Admitted(c, "write", s, Remaining) BY <1>2, StoredNumbers DEF PrepareWrite, Admitted, Kinds
  <2> QED BY <2>1, AdmittedKeeps
<1>3. ASSUME NEW c \in Calls, NEW s \in Subjects, PrepareRegistration(c, s) PROVE UsageInvariant'
  <2>1. Admitted(c, "register", s, 0) BY <1>3 DEF PrepareRegistration, Admitted, Kinds
  <2> QED BY <2>1, AdmittedKeeps
<1>4. ASSUME NEW c \in Calls, NEW s \in Subjects, ReserveObjectStorage(c, s) PROVE UsageInvariant'
  <2>1. Admitted(c, "upload", s, 1) BY <1>4 DEF ReserveObjectStorage, Admitted, Kinds
  <2> QED BY <2>1, AdmittedKeeps
<1>5. ASSUME NEW c \in Calls, NEW bytes \in 0..(StorageLimit + 1), Execute(c, bytes) \/ AnswerLost(c, bytes) PROVE UsageInvariant'
  <2>1. bytes \in Nat BY DEF UsageLedgerAssumption
  <2> QED BY <2>1, <1>5, ExecuteKeeps, AnswerLostKeeps
<1>6. ASSUME NEW c \in Calls, ExecuteFails(c) PROVE UsageInvariant' BY <1>6, ExecuteFailsKeeps
<1>7. ASSUME NEW c \in Calls, Settle(c) PROVE UsageInvariant' BY <1>7, SettlesKeeps
<1>8. ASSUME NEW c \in Calls, SettleFails(c) \/ Stop(c) \/ RetryWrite(c) PROVE UsageInvariant'
  <2>1. calls[c].step # "idle" BY <1>8 DEF SettleFails, Counted, Stop, RetryWrite, CallAt
  <2> QED BY <2>1, <1>8, GoesKeeps DEF SettleFails, Stop, RetryWrite
<1>9. ASSUME NEW c \in Calls, ReadBytes(c) \/ ReplayUpload(c) PROVE UsageInvariant' BY <1>9, ReadBytesKeeps, ReplayKeeps
<1>11. ASSUME NEW c \in Calls, NEW t \in 1..clock, Measure(c, t) \/ RecordObjectStorage(c, t) PROVE UsageInvariant'
  <2>1. t \in Nat BY DEF UsageInvariant, LedgerTyped
  <2> QED BY <2>1, <1>11, MeasureKeeps, RecordKeeps
<1>10. CASE Tick BY <1>10, TickKeeps
<1> QED BY <1>1, <1>2, <1>3, <1>4, <1>5, <1>6, <1>7, <1>8, <1>9, <1>10, <1>11 DEF UsageNext

LEMMA UsageShows ==
  ASSUME UsageLedgerAssumption, UsageInvariant
  PROVE  AllowancesHold
<1>1. UsageTypeOK
  <2>1. \A c \in Calls : /\ slots[c].status \in {"none", "active", "expired", "released", "settled"}
                         /\ calls[c].step \in CallSteps
    BY HeldCalls DEF CallRow, SlotRow
  <2>2. ASSUME NEW s \in Subjects PROVE claims[s] \in [active : {0, 1}, count : 0..Cardinality(Calls)]
    <3>1. PICK n : n = Cardinality(Users(calls, Active(slots), s)) OBVIOUS
    <3>2. Users(calls, Active(slots), s) \subseteq Calls BY DEF Users, Active
    <3>3. n \in Nat /\ Cardinality(Calls) \in Nat /\ n <= Cardinality(Calls) BY <3>1, <3>2, CallParts
    <3>4. claims[s] \in ClaimRow /\ claims[s].count <= n BY <3>1 DEF UsageInvariant, LedgerTyped, ClaimsFit, ClaimFits
    <3>5. claims[s].count \in Nat BY <3>4 DEF ClaimRow
    <3>6. claims[s].count \in 0..Cardinality(Calls) BY <3>3, <3>4, <3>5
    <3> QED BY <3>4, <3>6 DEF ClaimRow
  <2>3. metered \in Nat /\ ran \subseteq Calls /\ occupied \in [Resources -> Nat] BY DEF UsageInvariant, LedgerTyped
  <2> QED BY <2>1, <2>2, <2>3 DEF UsageTypeOK
<1>2. WritesWithinAllowance
  <2>1. PICK n, m, l : /\ n = Cardinality(Writing(calls, Active(slots))) /\ m = Cardinality(Writing(calls, Unlapsed))
                       /\ l = Cardinality(LateOnes(slots))
    OBVIOUS
  <2>2. Writing(calls, Unlapsed) \subseteq Writing(calls, Active(slots)) /\ Writing(calls, Active(slots)) \subseteq Calls
    BY LapsedSets DEF Writing
  <2>3. n \in Nat /\ m \in Nat /\ m <= n BY <2>1, <2>2, CallParts
  <2>4. LateOnes(slots) \subseteq Calls BY DEF LateOnes
  <2>5. l \in Nat BY <2>1, <2>4, CallSets
  <2>6. metered \in Nat /\ WriteLimit \in Nat /\ metered + n <= WriteLimit + l
    BY <2>1 DEF UsageInvariant, LedgerTyped, WritesCounted, UsageLedgerAssumption
  <2>7. metered + m <= WriteLimit + l BY <2>3, <2>5, <2>6
  <2> QED BY <2>1, <2>7 DEF WritesWithinAllowance, Writing, LateOnes
<1>3. StorageWithinAllowance
  <2>0. \A e \in events : Understated(e) <=> Short(e, calls, ran)
    <3>1. \A t : WorkedBy(t) = Earlier(calls, ran, t) BY DEF WorkedBy, Earlier, Uploading
    <3> QED BY <3>1 DEF Understated, Short
  <2>1. CASE Excused(slots, ran, events, calls)
    <3>1. Uncounted # {} \/ (\E c \in Calls : slots[c].late = 1) \/ \E e \in events : Understated(e)
      BY <2>0, <2>1 DEF Excused, Uncounted
    <3> QED BY <3>1, <2>0 DEF StorageWithinAllowance, UsageInvariant, EventsFit, EventsGood
  <2>2. CASE ~Excused(slots, ran, events, calls)
    <3>1. Balance(occupied, events, Active(slots), ran, slots, calls) BY <2>2 DEF UsageInvariant, StorageFits
    <3>2. PICK n : n = Cardinality(Uploading(calls, Active(slots) \ ran)) OBVIOUS
    <3>3. Uploading(calls, Active(slots) \ ran) \subseteq Calls BY DEF Uploading, Active
    <3>4. n \in Nat BY <3>2, <3>3, CallSets
    <3>5. occupied["database"] + occupied["objects"] + n <= StorageLimit BY <3>1, <3>2 DEF Balance, Balanced
    <3>6. occupied["database"] \in Nat /\ occupied["objects"] \in Nat /\ StorageLimit \in Nat
      BY DEF UsageInvariant, LedgerTyped, Resources, UsageLedgerAssumption
    <3>7. occupied["database"] + occupied["objects"] <= StorageLimit BY <3>4, <3>5, <3>6
    <3> QED BY <3>7, <2>0 DEF StorageWithinAllowance, UsageInvariant, EventsFit, EventsGood
  <2> QED BY <2>1, <2>2
<1>4. ClaimsBacked
  <2> SUFFICES ASSUME NEW s \in Subjects
               PROVE  (claims[s] # NoClaim) <=> ((\E c \in Held : calls[c].subject = s) \/ (\E e \in events : e.subject = s))
    BY DEF ClaimsBacked
  <2>1. PICK U, n, a, m : U = Users(calls, Active(slots), s) /\ n = Cardinality(U) /\ a = claims[s].active /\ m = claims[s].count
    OBVIOUS
  <2>2. U \subseteq Calls /\ (U # {} <=> \E c \in Held : calls[c].subject = s) BY <2>1, LapsedSets DEF Users
  <2>3. n \in Nat /\ (n = 0 <=> U = {})
    <3>1. IsFiniteSet(U) /\ n \in Nat BY <2>1, <2>2, CallSets
    <3> QED BY <3>1, <2>1, FS_EmptySet
  <2>4. /\ claims[s] \in ClaimRow /\ a \in {0, 1} /\ m \in Nat /\ m <= n /\ (a = 0 => m = n)
        /\ (a = 1 <=> \E e \in events : e.subject = s)
    BY <2>1 DEF UsageInvariant, LedgerTyped, ClaimsFit, ClaimFits, ClaimRow
  <2>5. claims[s] = NoClaim <=> a = 0 /\ m = 0
    <3>1. claims[s] = [active |-> a, count |-> m] BY <2>1, <2>4 DEF ClaimRow
    <3> QED BY <3>1, <2>1 DEF NoClaim
  <2>6. PICK held, known : /\ held = (\E c \in Held : calls[c].subject = s) /\ known = (\E e \in events : e.subject = s)
    OBVIOUS
  <2>7. (n # 0 <=> held) /\ (a = 1 <=> known) BY <2>2, <2>3, <2>4, <2>6
  <2>8. ~(a = 0 /\ m = 0) <=> (n # 0 \/ a = 1) BY <2>3, <2>4
  <2> QED BY <2>5, <2>6, <2>7, <2>8
<1> QED BY <1>1, <1>2, <1>3, <1>4 DEF AllowancesHold

\* For any number of calls and users, however reservations, their expiry,
\* retries and late settlements interleave: an organization on the free tier
\* writes no more than its allowance beyond what is settled late; it stores no
\* more unless something done is not counted or counted late, or a handler
\* recorded a size that other uploads had overtaken, which no settlement
\* does; and a user has a claim exactly while a reservation or an event is
\* behind it (reserve, ingest_event, settle_reservation, record_object_storage,
\* expire_reservations).
THEOREM AllowancesAreKept == UsageSpec => []AllowancesHold
<1>1. UsageInit => UsageInvariant BY UsageLedgerAssumption, UsageStarts
<1>2. UsageInvariant /\ [UsageNext]_usageVars => UsageInvariant' BY UsageLedgerAssumption, UsageSteps
<1>3. UsageInvariant => AllowancesHold BY UsageLedgerAssumption, UsageShows
<1> QED BY <1>1, <1>2, <1>3, PTL DEF UsageSpec

-----------------------------------------------------------------------------
(* Usage reports.  A report is known by what Claim and Deliver leave alone.  *)

ReportStates == {"pending", "in_flight", "failed", "acknowledged"}
ReportRow ==
  [dim : Dimensions, total : Nat, through : Nat, quantity : Nat \ {0}, state : ReportStates, next : Nat, lease : Nat]
IdentRow == [dim : Dimensions, total : Nat, through : Nat, quantity : Nat \ {0}]
CycleRow ==
  [at : {"idle", "read", "enqueue", "send", "compare"}, now : Nat, sealed : {0, 1}, local : [Dimensions -> Nat],
   todo : SUBSET Dimensions, claims : SUBSET ReportRow, rejected : {0, 1}]
HealthRow == [state : {"healthy", "degraded", "reconciling", "blocked"}, cut : {0, 1}]

Ident(e) == [dim |-> e.dim, total |-> e.total, through |-> e.through, quantity |-> e.quantity]
Idents(es) == {Ident(e) : e \in es}
OneEach(es) == \A e, f \in es : Same(e, f) => e = f
Ledger(es) == es \subseteq ReportRow /\ IsFiniteSet(es) /\ OneEach(es)

QuantityOf == [i \in IdentRow |-> i.quantity]
Weight(is) == SumOver(QuantityOf, is)
For(is, d) == {i \in is : i.dim = d}
BookedFor(es, d) == Quantity({e \in es : e.dim = d})

\* The image of a finite set.
LEMMA FiniteImage ==
  ASSUME NEW S, IsFiniteSet(S), NEW f
  PROVE  IsFiniteSet({f[x] : x \in S})
<1> DEFINE T == {f[x] : x \in S}
<1> DEFINE g == [x \in S |-> f[x]]
<1>1. g \in Surjection(S, T) BY DEF Surjection
<1> QED BY <1>1, FS_Surjection

LEMMA IdentType ==
  ASSUME NEW e \in ReportRow
  PROVE  Ident(e) \in IdentRow /\ Ident(e).dim = e.dim /\ Ident(e).quantity = e.quantity
BY DEF ReportRow, IdentRow, Ident

LEMMA IdentSame ==
  ASSUME NEW e \in ReportRow, NEW f \in ReportRow, Ident(e) = Ident(f)
  PROVE  Same(e, f)
<1>1. Ident(e).dim = e.dim /\ Ident(e).total = e.total /\ Ident(e).through = e.through BY DEF Ident
<1>2. Ident(f).dim = f.dim /\ Ident(f).total = f.total /\ Ident(f).through = f.through BY DEF Ident
<1> QED BY <1>1, <1>2 DEF Same

LEMMA IdentsFinite ==
  ASSUME NEW es, es \subseteq ReportRow, IsFiniteSet(es)
  PROVE  IsFiniteSet(Idents(es)) /\ Idents(es) \subseteq IdentRow
<1> DEFINE f == [e \in es |-> Ident(e)]
<1>1. Idents(es) = {f[e] : e \in es} BY DEF Idents
<1>2. IsFiniteSet({f[e] : e \in es}) BY FiniteImage
<1>3. Idents(es) \subseteq IdentRow BY IdentType DEF Idents
<1> QED BY <1>1, <1>2, <1>3

\* The quantity of some reports is a sum over them,
LEMMA QuantityIs ==
  ASSUME NEW es, es \subseteq ReportRow, IsFiniteSet(es), NEW f, \A e \in es : f[e] = e.quantity
  PROVE  Quantity(es) = SumOver(f, es)
<1> DEFINE A(a) == a = [s \in SUBSET es |-> IF s = {} THEN 0 ELSE First(s).quantity + a[s \ {First(s)}]]
<1>1. \E a : Quantity(es) = a[es] /\ ((\E h : A(h)) => A(a))
  BY DEF Quantity, MapThenSumSet, MapThenFoldSet, First
<1>2. \A s \in SUBSET es : s # {} => First(s).quantity = f[First(s)]
  <2>1. \A s : s # {} => First(s) \in s BY DEF First
  <2> QED BY <2>1
<1>3. \A a : A(a) <=> Adds(f, SUBSET es, a)
  BY <1>2 DEF Adds
<1>4. PICK a : Quantity(es) = a[es] /\ Adds(f, SUBSET es, a)
  BY <1>1, <1>3, AddsExists
<1>5. PICK h : SumOver(f, es) = h[es] /\ Adds(f, SUBSET es, h)
  BY SumAdds
<1> QED BY <1>4, <1>5, AddsOn

\* and over what they are known by, when each is there once.
LEMMA QuantityWeight ==
  ASSUME NEW es, Ledger(es)
  PROVE  Quantity(es) = Weight(Idents(es))
<1> DEFINE f == [e \in ReportRow |-> e.quantity]
           T == {n \in Nat : \E s \in SUBSET es : SumOver(f, s) # Weight(Idents(s)) /\ Cardinality(s) = n}
<1>0. es \subseteq ReportRow /\ IsFiniteSet(es) /\ OneEach(es) BY DEF Ledger
<1>q. \A e \in es : f[e] = e.quantity /\ f[e] \in Nat BY <1>0 DEF ReportRow
<1>i. \A i \in IdentRow : QuantityOf[i] = i.quantity /\ QuantityOf[i] \in Nat BY DEF QuantityOf, IdentRow
<1> HIDE DEF f
<1>f. \A s \in SUBSET es : IsFiniteSet(s) /\ Cardinality(s) \in Nat BY <1>0, FS_Subset, FS_CardinalityType
<1>s. Quantity(es) = SumOver(f, es) BY <1>0, <1>q, QuantityIs
<1> SUFFICES ASSUME SumOver(f, es) # Weight(Idents(es)) PROVE FALSE BY <1>s
<1>1. T # {} /\ T \subseteq Nat BY <1>f
<1>2. PICK m \in T : \A y \in T : m <= y BY <1>1, LeastNat
<1>3. PICK s \in SUBSET es : SumOver(f, s) # Weight(Idents(s)) /\ Cardinality(s) = m BY <1>2
<1>4. s # {}
  <2>1. Idents({}) = {} BY DEF Idents
  <2> QED BY <2>1, <1>3, SumEmpty DEF Weight
<1>5. PICK a : a \in s BY <1>4
<1>6. PICK R : R = s \ {a} OBVIOUS
<1>7. R \in SUBSET es /\ IsFiniteSet(R) /\ R \subseteq ReportRow /\ a \in ReportRow BY <1>0, <1>5, <1>6, <1>f
<1>8. SumOver(f, s) = f[a] + SumOver(f, R)
  <2>1. IsFiniteSet(s) /\ \A x \in s : f[x] \in Nat BY <1>f, <1>q
  <2> QED BY <2>1, <1>5, <1>6, SumTake
<1>9. Idents(s) = Idents(R) \cup {Ident(a)} BY <1>5, <1>6 DEF Idents
<1>10. Ident(a) \notin Idents(R)
  <2> SUFFICES ASSUME NEW e \in R, Ident(e) = Ident(a) PROVE FALSE BY DEF Idents
  <2>1. Same(e, a) BY <1>7, IdentSame
  <2>2. e = a BY <2>1, <1>0, <1>5, <1>7 DEF OneEach
  <2> QED BY <2>2, <1>6
<1>11. Weight(Idents(s)) = QuantityOf[Ident(a)] + Weight(Idents(R))
  <2>1. IsFiniteSet(Idents(R)) /\ Idents(R) \subseteq IdentRow BY <1>7, IdentsFinite
  <2>2. Ident(a) \in IdentRow BY <1>7, IdentType
  <2>3. \A i \in Idents(R) : QuantityOf[i] \in Nat BY <2>1, <1>i
  <2>4. QuantityOf[Ident(a)] \in Nat BY <2>2, <1>i
  <2>5. SumOver(QuantityOf, Idents(R) \cup {Ident(a)}) = QuantityOf[Ident(a)] + SumOver(QuantityOf, Idents(R))
    BY <2>1, <2>3, <2>4, <1>10, SumPut
  <2> QED BY <2>5, <1>9 DEF Weight
<1>12. QuantityOf[Ident(a)] = f[a]
  <2>1. Ident(a) \in IdentRow /\ Ident(a).quantity = a.quantity BY <1>7, IdentType
  <2>2. f[a] = a.quantity BY <1>5, <1>q
  <2> QED BY <2>1, <2>2, <1>i
<1>13. SumOver(f, R) # Weight(Idents(R)) BY <1>3, <1>8, <1>11, <1>12
<1>14. Cardinality(R) = m - 1 /\ Cardinality(R) \in Nat
  <2>1. IsFiniteSet(s) BY <1>f
  <2>2. Cardinality(R) = m - 1 BY <2>1, <1>3, <1>5, <1>6, FS_RemoveElement
  <2> QED BY <2>2, <1>7, <1>f
<1>15. m - 1 \in T BY <1>7, <1>13, <1>14
<1> QED BY <1>2, <1>15

\* What is booked for a dimension is the weight of its reports.
LEMMA BookedWeight ==
  ASSUME NEW es, Ledger(es), NEW d
  PROVE  BookedFor(es, d) = Weight(For(Idents(es), d))
<1> DEFINE s == {e \in es : e.dim = d}
<1>1. es \subseteq ReportRow /\ IsFiniteSet(es) /\ OneEach(es) BY DEF Ledger
<1>2. s \subseteq es OBVIOUS
<1>3. IsFiniteSet(s) BY <1>1, <1>2, FS_Subset
<1>4. Ledger(s) BY <1>1, <1>3 DEF Ledger, OneEach
<1>5. Idents(s) = For(Idents(es), d)
  <2>1. \A e \in es : Ident(e).dim = e.dim BY <1>1, IdentType
  <2> QED BY <2>1 DEF Idents, For
<1>6. Quantity(s) = Weight(Idents(s)) BY <1>4, QuantityWeight
<1> QED BY <1>5, <1>6 DEF BookedFor

LEMMA WeightNat ==
  ASSUME NEW is, is \subseteq IdentRow, IsFiniteSet(is)
  PROVE  Weight(is) \in Nat
<1>1. \A i \in is : QuantityOf[i] \in Nat BY DEF QuantityOf, IdentRow
<1> QED BY <1>1, SumNat DEF Weight

LEMMA BookedNat ==
  ASSUME NEW es, Ledger(es), NEW d
  PROVE  BookedFor(es, d) \in Nat
<1>1. IsFiniteSet(Idents(es)) /\ Idents(es) \subseteq IdentRow BY IdentsFinite DEF Ledger
<1>2. For(Idents(es), d) \in SUBSET Idents(es) BY DEF For
<1>3. IsFiniteSet(For(Idents(es), d)) BY <1>1, <1>2, FS_Subset
<1>4. For(Idents(es), d) \subseteq IdentRow BY <1>1, <1>2
<1>5. Weight(For(Idents(es), d)) \in Nat BY <1>3, <1>4, WeightNat
<1> QED BY <1>5, BookedWeight

\* What is known of fewer reports weighs no more.
LEMMA BookedPart ==
  ASSUME NEW es, Ledger(es), NEW fs, Ledger(fs), Idents(fs) \subseteq Idents(es), NEW d
  PROVE  BookedFor(fs, d) <= BookedFor(es, d)
<1>1. IsFiniteSet(Idents(es)) /\ Idents(es) \subseteq IdentRow BY IdentsFinite DEF Ledger
<1>2. PICK a, b : a = For(Idents(fs), d) /\ b = For(Idents(es), d) OBVIOUS
<1>3. b \in SUBSET Idents(es) /\ a \in SUBSET b BY <1>2 DEF For
<1>4. IsFiniteSet(b) BY <1>1, <1>3, FS_Subset
<1>5. \A i \in b : QuantityOf[i] \in Nat BY <1>1, <1>3 DEF QuantityOf, IdentRow
<1>6. SumOver(QuantityOf, a) <= SumOver(QuantityOf, b) BY <1>3, <1>4, <1>5, SumPart
<1>7. BookedFor(fs, d) = Weight(a) /\ BookedFor(es, d) = Weight(b) BY <1>2, BookedWeight
<1> QED BY <1>6, <1>7 DEF Weight

LEMMA BookedSame ==
  ASSUME NEW es, Ledger(es), NEW fs, Ledger(fs), Idents(fs) = Idents(es), NEW d
  PROVE  BookedFor(fs, d) = BookedFor(es, d)
BY BookedWeight

\* A report that is new adds its quantity to its dimension.
LEMMA BookedMore ==
  ASSUME NEW es, Ledger(es), NEW e \in ReportRow, \A f \in es : ~Same(f, e), NEW d
  PROVE  /\ Ledger(es \cup {e})
         /\ Idents(es \cup {e}) = Idents(es) \cup {Ident(e)}
         /\ BookedFor(es \cup {e}, d) = BookedFor(es, d) + (IF e.dim = d THEN e.quantity ELSE 0)
<1>1. es \subseteq ReportRow /\ IsFiniteSet(es) /\ OneEach(es) BY DEF Ledger
<1>2. IsFiniteSet(es \cup {e}) BY <1>1, FS_AddElement
<1>3. OneEach(es \cup {e})
  <2>1. \A f \in es : ~Same(e, f) BY DEF Same
  <2> QED BY <1>1, <2>1 DEF OneEach
<1>4. Ledger(es \cup {e}) BY <1>1, <1>2, <1>3 DEF Ledger
<1>5. Idents(es \cup {e}) = Idents(es) \cup {Ident(e)} BY DEF Idents
<1>6. Ident(e) \notin Idents(es)
  <2> SUFFICES ASSUME NEW f \in es, Ident(f) = Ident(e) PROVE FALSE BY DEF Idents
  <2>1. Same(f, e) BY <1>1, IdentSame
  <2> QED BY <2>1
<1>7. IsFiniteSet(Idents(es)) /\ Idents(es) \subseteq IdentRow BY <1>1, IdentsFinite
<1>8. Ident(e) \in IdentRow /\ Ident(e).dim = e.dim /\ Ident(e).quantity = e.quantity BY IdentType
<1>9. PICK i, is : i = Ident(e) /\ is = For(Idents(es), d) OBVIOUS
<1>10. is \subseteq Idents(es) /\ i \notin is BY <1>6, <1>9 DEF For
<1>11. IsFiniteSet(is) /\ is \subseteq IdentRow BY <1>7, <1>10, FS_Subset
<1>12. BookedFor(es, d) = Weight(is) BY <1>9, BookedWeight
<1>13. BookedFor(es, d) \in Nat BY BookedNat
<1>14. BookedFor(es \cup {e}, d) = Weight(For(Idents(es) \cup {i}, d)) BY <1>4, <1>5, <1>9, BookedWeight
<1>15. ASSUME e.dim = d PROVE BookedFor(es \cup {e}, d) = BookedFor(es, d) + e.quantity
  <2>1. For(Idents(es) \cup {i}, d) = is \cup {i} BY <1>8, <1>9, <1>15 DEF For
  <2>2. \A j \in is : QuantityOf[j] \in Nat BY <1>11 DEF QuantityOf, IdentRow
  <2>3. QuantityOf[i] = e.quantity /\ QuantityOf[i] \in Nat BY <1>8, <1>9 DEF QuantityOf, IdentRow
  <2>4. SumOver(QuantityOf, is \cup {i}) = QuantityOf[i] + SumOver(QuantityOf, is)
    BY <2>2, <2>3, <1>10, <1>11, SumPut
  <2>5. BookedFor(es \cup {e}, d) = e.quantity + BookedFor(es, d) BY <2>1, <2>3, <2>4, <1>12, <1>14 DEF Weight
  <2> QED BY <2>3, <2>5, <1>13
<1>16. ASSUME e.dim # d PROVE BookedFor(es \cup {e}, d) = BookedFor(es, d)
  <2>1. For(Idents(es) \cup {i}, d) = is BY <1>8, <1>9, <1>16 DEF For
  <2> QED BY <2>1, <1>12, <1>14
<1>17. BookedFor(es \cup {e}, d) = BookedFor(es, d) + (IF e.dim = d THEN e.quantity ELSE 0)
  BY <1>13, <1>15, <1>16
<1> QED BY <1>4, <1>5, <1>17

\* Reports are replaced, each by one that is known by the same.
LEMMA Replaced ==
  ASSUME NEW es, Ledger(es), NEW due, due \subseteq es, NEW f,
         \A e \in due : f[e] \in ReportRow /\ Ident(f[e]) = Ident(e)
  PROVE  LET new == (es \ due) \cup {f[e] : e \in due} IN Ledger(new) /\ Idents(new) = Idents(es)
<1> DEFINE taken == {f[e] : e \in due}
           new == (es \ due) \cup taken
<1>1. es \subseteq ReportRow /\ IsFiniteSet(es) /\ OneEach(es) BY DEF Ledger
<1>2. IsFiniteSet(due) /\ IsFiniteSet(es \ due) BY <1>1, FS_Subset
<1>3. IsFiniteSet(taken) BY <1>2, FiniteImage
<1>4. IsFiniteSet(new) BY <1>2, <1>3, FS_Union
<1>5. new \subseteq ReportRow BY <1>1
<1>6. \A x \in new : \E e \in es : Ident(x) = Ident(e) /\ x = IF e \in due THEN f[e] ELSE e
  <2> SUFFICES ASSUME NEW x \in new PROVE \E e \in es : Ident(x) = Ident(e) /\ x = IF e \in due THEN f[e] ELSE e
    OBVIOUS
  <2>1. CASE x \in es \ due BY <2>1
  <2>2. CASE x \in taken
    <3>1. PICK e \in due : x = f[e] BY <2>2
    <3> QED BY <3>1
  <2> QED BY <2>1, <2>2
<1>7. OneEach(new)
  <2> SUFFICES ASSUME NEW x \in new, NEW y \in new, Same(x, y) PROVE x = y BY DEF OneEach
  <2>1. PICK e \in es : Ident(x) = Ident(e) /\ x = IF e \in due THEN f[e] ELSE e BY <1>6
  <2>2. PICK g \in es : Ident(y) = Ident(g) /\ y = IF g \in due THEN f[g] ELSE g BY <1>6
  <2>3. x \in ReportRow /\ y \in ReportRow /\ e \in ReportRow /\ g \in ReportRow BY <1>1, <1>5
  <2>4. Same(x, e) /\ Same(y, g) BY <2>1, <2>2, <2>3, IdentSame
  <2>5. Same(e, g) BY <2>4 DEF Same
  <2>6. e = g BY <2>5, <1>1 DEF OneEach
  <2> QED BY <2>1, <2>2, <2>6
<1>8. Idents(new) = Idents(es)
  <2>1. \A x \in new : Ident(x) \in Idents(es) BY <1>6 DEF Idents
  <2>2. \A e \in es : \E x \in new : Ident(x) = Ident(e)
    <3> SUFFICES ASSUME NEW e \in es PROVE \E x \in new : Ident(x) = Ident(e) OBVIOUS
    <3>1. CASE e \in due
      <4>1. f[e] \in new /\ Ident(f[e]) = Ident(e) BY <3>1
      <4> QED BY <4>1
    <3>2. CASE e \notin due BY <3>2
    <3> QED BY <3>1, <3>2
  <2> QED BY <2>1, <2>2 DEF Idents
<1> QED BY <1>1, <1>4, <1>5, <1>7, <1>8 DEF Ledger

-----------------------------------------------------------------------------
(* The totals of a period.                                                   *)

HourlyUnits == [Hours -> 0..MaxUnits]
Snapshots == [Hours -> 0..2]
HourOf(u, s, d) == [h \in Hours |-> IF d = "writes" THEN u[h] ELSE Level(s, h)]

LEMMA ReportNumbers ==
  ASSUME UsageReportingAssumption
  PROVE  /\ End \in Nat /\ Grace \in Nat /\ Lag \in Nat /\ Delay \in Nat /\ Lease \in Nat
         /\ MaxHour \in Nat /\ MaxUnits \in Nat /\ MaxFaults \in Nat /\ End > 0
BY DEF UsageReportingAssumption

LEMMA LargestUpto ==
  ASSUME NEW h \in Nat, NEW S, S \subseteq 0..h, S # {}
  PROVE  Max(S) \in S
<1> DEFINE T == {h - x : x \in S}
<1>1. T \subseteq Nat /\ T # {} OBVIOUS
<1>2. PICK t \in T : \A y \in T : t <= y BY <1>1, LeastNat
<1>3. PICK x \in S : t = h - x OBVIOUS
<1>4. \A y \in S : x >= y
  <2> SUFFICES ASSUME NEW y \in S PROVE x >= y OBVIOUS
  <2>1. h - y \in T OBVIOUS
  <2>2. h - x <= h - y BY <2>1, <1>2, <1>3
  <2> QED BY <2>2
<1>5. \E z \in S : \A y \in S : z >= y BY <1>4
<1> QED BY <1>5 DEF Max

LEMMA LevelNat ==
  ASSUME UsageReportingAssumption, NEW s \in Snapshots, NEW h \in Hours
  PROVE  Level(s, h) \in Nat
<1> DEFINE seen == {k \in 0..h : s[k] > 0}
<1>1. h \in Nat /\ 0..h \subseteq Hours BY ReportNumbers DEF Hours
<1>2. CASE seen = {} BY <1>2 DEF Level
<1>3. CASE seen # {}
  <2>1. PICK k : k = Max(seen) OBVIOUS
  <2>2. k \in seen BY <2>1, <1>1, <1>3, LargestUpto
  <2>3. s[k] \in 0..2 /\ s[k] > 0 BY <2>2, <1>1 DEF Snapshots
  <2>4. Level(s, h) = s[k] - 1 BY <2>1, <1>3 DEF Level
  <2> QED BY <2>3, <2>4
<1> QED BY <1>2, <1>3

LEMMA HourNat ==
  ASSUME UsageReportingAssumption, NEW u \in HourlyUnits, NEW s \in Snapshots, NEW d, NEW h \in Hours
  PROVE  HourOf(u, s, d)[h] \in Nat
<1>1. u[h] \in Nat BY ReportNumbers DEF HourlyUnits
<1>2. Level(s, h) \in Nat BY LevelNat
<1> QED BY <1>1, <1>2 DEF HourOf

LEMMA HoursUpto ==
  ASSUME UsageReportingAssumption, NEW t \in 0..End
  PROVE  0..(t - 1) \subseteq Hours /\ IsFiniteSet(0..(t - 1))
<1>1. End \in Nat /\ t \in Nat BY ReportNumbers
<1>2. 0 \in Int /\ t - 1 \in Int BY <1>1
<1>3. IsFiniteSet(0..(t - 1)) BY <1>2, FS_Interval
<1>4. 0..(t - 1) \subseteq 0..(End - 1) BY <1>1
<1> QED BY <1>3, <1>4 DEF Hours

\* A total is a sum over hours.
LEMMA TotalIs ==
  ASSUME UsageReportingAssumption, NEW u, NEW s, NEW d, NEW t \in 0..End
  PROVE  UsageTotal(u, s, d, t) = SumOver(HourOf(u, s, d), 0..(t - 1))
<1> DEFINE H == 0..(t - 1)
<1>f. H \subseteq Hours /\ IsFiniteSet(H) BY HoursUpto
<1> DEFINE V(h) == IF d = "writes" THEN u[h] ELSE Level(s, h)
           A(a) == a = [x \in SUBSET H |-> IF x = {} THEN 0 ELSE V(First(x)) + a[x \ {First(x)}]]
<1>1. \E a : UsageTotal(u, s, d, t) = a[H] /\ ((\E h : A(h)) => A(a))
  BY DEF UsageTotal, MapThenSumSet, MapThenFoldSet, First
<1>2. \A x \in SUBSET H : x # {} => V(First(x)) = HourOf(u, s, d)[First(x)]
  <2>1. \A x : x # {} => First(x) \in x BY DEF First
  <2>2. \A x \in SUBSET H : x # {} => First(x) \in Hours BY <2>1, <1>f
  <2>3. \A h \in Hours : V(h) = HourOf(u, s, d)[h] BY DEF HourOf
  <2> QED BY <2>2, <2>3
<1> HIDE DEF V, H
<1>3. \A a : A(a) <=> Adds(HourOf(u, s, d), SUBSET H, a)
  BY <1>2 DEF Adds
<1>4. PICK a : UsageTotal(u, s, d, t) = a[H] /\ Adds(HourOf(u, s, d), SUBSET H, a)
  BY <1>1, <1>3, <1>f, AddsExists
<1>5. PICK h : SumOver(HourOf(u, s, d), H) = h[H] /\ Adds(HourOf(u, s, d), SUBSET H, h)
  BY <1>f, SumAdds
<1>6. a[H] = h[H] BY <1>4, <1>5, <1>f, AddsOn
<1> QED BY <1>4, <1>5, <1>6 DEF H

\* It is a number that grows with the hours it covers.
LEMMA TotalUpto ==
  ASSUME UsageReportingAssumption, NEW u \in HourlyUnits, NEW s \in Snapshots, NEW d, NEW t \in 0..End
  PROVE  /\ UsageTotal(u, s, d, t) \in Nat /\ UsageTotal(u, s, d, End) \in Nat
         /\ UsageTotal(u, s, d, t) <= UsageTotal(u, s, d, End)
<1>1. End \in 0..End BY ReportNumbers
<1>2. PICK A, B, f : A = 0..(t - 1) /\ B = 0..(End - 1) /\ f = HourOf(u, s, d) OBVIOUS
<1>3. UsageTotal(u, s, d, t) = SumOver(f, A) /\ UsageTotal(u, s, d, End) = SumOver(f, B) BY <1>1, <1>2, TotalIs
<1>4. A \subseteq B /\ B = Hours /\ IsFiniteSet(A) /\ IsFiniteSet(B) BY <1>1, <1>2, HoursUpto DEF Hours
<1>5. \A h \in B : f[h] \in Nat BY <1>2, <1>4, HourNat
<1>6. SumOver(f, A) <= SumOver(f, B) BY <1>4, <1>5, SumPart
<1>7. SumOver(f, A) \in Nat BY <1>4, <1>5, SumNat
<1>8. SumOver(f, B) \in Nat BY <1>4, <1>5, SumNat
<1> QED BY <1>3, <1>6, <1>7, <1>8

\* The writes do not depend on the snapshots, nor the storage on the writes.
LEMMA TotalApart ==
  ASSUME UsageReportingAssumption, NEW u \in HourlyUnits, NEW v \in HourlyUnits, NEW s \in Snapshots, NEW q \in Snapshots
  PROVE  /\ UsageTotal(u, s, "writes", End) = UsageTotal(u, q, "writes", End)
         /\ UsageTotal(u, s, "storage", End) = UsageTotal(v, s, "storage", End)
<1>1. End \in 0..End BY ReportNumbers
<1>2. HourOf(u, s, "writes") = HourOf(u, q, "writes") BY DEF HourOf
<1>3. HourOf(u, s, "storage") = HourOf(v, s, "storage") BY DEF HourOf
<1> QED BY <1>1, <1>2, <1>3, TotalIs

\* One more write in an hour is one more in the total.
LEMMA TotalMore ==
  ASSUME UsageReportingAssumption, NEW u \in HourlyUnits, NEW v \in HourlyUnits, NEW s \in Snapshots, NEW h \in Hours,
         v[h] = u[h] + 1, \A k \in Hours \ {h} : v[k] = u[k]
  PROVE  UsageTotal(u, s, "writes", End) <= UsageTotal(v, s, "writes", End)
<1>1. End \in 0..End BY ReportNumbers
<1>2. PICK f, g : f = HourOf(u, s, "writes") /\ g = HourOf(v, s, "writes") OBVIOUS
<1>3. UsageTotal(u, s, "writes", End) = SumOver(f, Hours) /\ UsageTotal(v, s, "writes", End) = SumOver(g, Hours)
  BY <1>1, <1>2, TotalIs DEF Hours
<1>4. \A k \in Hours : f[k] = u[k] /\ g[k] = v[k] BY <1>2 DEF HourOf
<1>5. \A k \in Hours : u[k] \in Nat /\ v[k] \in Nat BY ReportNumbers DEF HourlyUnits
<1>6. IsFiniteSet(Hours) BY <1>1, HoursUpto DEF Hours
<1>7. SumOver(g, Hours) + f[h] = SumOver(f, Hours) + g[h] BY <1>4, <1>5, <1>6, SumChange
<1>8. SumOver(f, Hours) \in Nat BY <1>4, <1>5, <1>6, SumNat
<1>9. SumOver(g, Hours) \in Nat BY <1>4, <1>5, <1>6, SumNat
<1> QED BY <1>3, <1>4, <1>5, <1>7, <1>8, <1>9

-----------------------------------------------------------------------------
(* The invariant of the reports.  Everything the provider or a cycle holds   *)
(* is known to the outbox, and neither the outbox nor what a cycle has read  *)
(* exceeds what was used.                                                    *)

Booked(o, m, cs) ==
  /\ Ledger(o) /\ Ledger(m) /\ Idents(m) \subseteq Idents(o)
  /\ \A r \in Reporters : Idents(cs[r].claims) \subseteq Idents(o)

\* Storage can go down when a late snapshot arrives.
Tight(d, lo) == d = "storage" => lo = 0
UnderTotal(o, u, s, lo, cs) ==
  \A d \in Dimensions : Tight(d, lo) =>
    /\ BookedFor(o, d) <= UsageTotal(u, s, d, End)
    /\ \A r \in Reporters : cs[r].local[d] <= UsageTotal(u, s, d, End)

ReportTyped ==
  /\ hour \in 0..MaxHour /\ status \in {"open", "sealed", "finalized"}
  /\ writes \in HourlyUnits /\ levels \in Snapshots
  /\ matched \in [Dimensions -> {"none", "matched", "mismatched"}]
  /\ health \in HealthRow /\ cycle \in [Reporters -> CycleRow]

ReportInv == ReportTyped /\ Booked(outbox, meter, cycle) /\ UnderTotal(outbox, writes, levels, lowered, cycle)

\* A cycle that compares does so with the final totals of a sealed period, and
\* what it has found to match still does; after the end no cycle runs.
Closing(st, u, s, m, ma, c) ==
  /\ c.sealed = 1 => st # "open"
  /\ c.at = "compare" =>
       /\ c.sealed = 1
       /\ \A d \in Dimensions :
            /\ c.local[d] = UsageTotal(u, s, d, End)
            /\ d \notin c.todo /\ ma[d] = "matched" => BookedFor(m, d) = c.local[d]
  /\ st = "finalized" => c = NoCycle

CloseInv ==
  /\ \A r \in Reporters : Closing(status, writes, levels, meter, matched, cycle[r])
  /\ status = "finalized" =>
       Outstanding = {} /\ \A d \in Dimensions : BookedFor(meter, d) = UsageTotal(writes, levels, d, End)

OneReporter == \A p, q \in Reporters : p = q

ReportStays == ReportInv' /\ (OneReporter /\ CloseInv => CloseInv')

LEMMA NoCycleRow ==
  /\ NoCycle \in CycleRow /\ NoCycle.at = "idle" /\ NoCycle.sealed = 0 /\ Idents(NoCycle.claims) = {}
  /\ \A d \in Dimensions : NoCycle.local[d] = 0
<1>1. NoTotals \in [Dimensions -> Nat] /\ \A d \in Dimensions : NoTotals[d] = 0 BY DEF NoTotals
<1>2. Idents({}) = {} BY DEF Idents
<1> QED BY <1>1, <1>2 DEF NoCycle, CycleRow

LEMMA Turned ==
  ASSUME ReportInv, NEW r \in Reporters, NEW c \in CycleRow, cycle' = [cycle EXCEPT ![r] = c]
  PROVE  /\ cycle' \in [Reporters -> CycleRow] /\ cycle'[r] = c
         /\ \A q \in Reporters : q # r => cycle'[q] = cycle[q]
BY DEF ReportInv, ReportTyped

LEMMA ReportGiven ==
  ASSUME ReportInv
  PROVE  /\ hour \in 0..MaxHour /\ status \in {"open", "sealed", "finalized"} /\ writes \in HourlyUnits /\ levels \in Snapshots
         /\ matched \in [Dimensions -> {"none", "matched", "mismatched"}]
         /\ health \in HealthRow /\ cycle \in [Reporters -> CycleRow]
         /\ Ledger(outbox) /\ Ledger(meter) /\ Idents(meter) \subseteq Idents(outbox)
         /\ \A r \in Reporters : cycle[r] \in CycleRow /\ Idents(cycle[r].claims) \subseteq Idents(outbox)
BY DEF ReportInv, ReportTyped, Booked

TotalNow(d) == UsageTotal(writes, levels, d, End)

LEMMA TotalNowNat ==
  ASSUME UsageReportingAssumption, ReportInv, NEW d
  PROVE  TotalNow(d) \in Nat
<1>1. 0 \in 0..End BY ReportNumbers
<1> QED BY <1>1, ReportGiven, TotalUpto DEF TotalNow

LEMMA LocalUnder ==
  ASSUME ReportInv, NEW r \in Reporters, NEW d \in Dimensions, Tight(d, lowered)
  PROVE  cycle[r].local[d] <= TotalNow(d) /\ BookedFor(outbox, d) <= TotalNow(d)
BY DEF ReportInv, UnderTotal, TotalNow

\* A step of one cycle that leaves the usage alone.
LEMMA CycleKeeps ==
  ASSUME UsageReportingAssumption, ReportInv, NEW r \in Reporters, NEW c \in CycleRow, cycle' = [cycle EXCEPT ![r] = c],
         Ledger(outbox'), Ledger(meter'), Idents(outbox) \subseteq Idents(outbox'), Idents(meter') \subseteq Idents(outbox'),
         Idents(c.claims) \subseteq Idents(outbox'),
         writes' = writes, levels' = levels, lowered' = lowered,
         \A d \in Dimensions : Tight(d, lowered) => BookedFor(outbox', d) <= TotalNow(d) /\ c.local[d] <= TotalNow(d),
         hour' \in 0..MaxHour, status' \in {"open", "sealed", "finalized"},
         matched' \in [Dimensions -> {"none", "matched", "mismatched"}], health' \in HealthRow
  PROVE  ReportInv'
<1>1. /\ cycle' \in [Reporters -> CycleRow] /\ cycle'[r] = c
      /\ \A q \in Reporters : q # r => cycle'[q] = cycle[q]
  BY Turned
<1>2. ReportTyped' BY <1>1, ReportGiven DEF ReportTyped
<1>3. \A q \in Reporters : Idents(cycle'[q].claims) \subseteq Idents(outbox') BY <1>1, ReportGiven
<1>4. Booked(outbox', meter', cycle') BY <1>3 DEF Booked
<1>5. UnderTotal(outbox', writes, levels, lowered, cycle')
  <2> SUFFICES ASSUME NEW d \in Dimensions, Tight(d, lowered), NEW q \in Reporters
               PROVE  BookedFor(outbox', d) <= TotalNow(d) /\ cycle'[q].local[d] <= TotalNow(d)
    BY DEF UnderTotal, TotalNow
  <2> QED BY <1>1, LocalUnder
<1> QED BY <1>2, <1>4, <1>5 DEF ReportInv

\* The same, of a cycle that also leaves the outbox alone.
LEMMA CycleOnly ==
  ASSUME UsageReportingAssumption, ReportInv, NEW r \in Reporters, NEW c \in CycleRow, cycle' = [cycle EXCEPT ![r] = c],
         outbox' = outbox, meter' = meter, Idents(c.claims) \subseteq Idents(outbox),
         writes' = writes, levels' = levels, lowered' = lowered,
         \A d \in Dimensions : Tight(d, lowered) => c.local[d] <= TotalNow(d),
         hour' \in 0..MaxHour, status' \in {"open", "sealed", "finalized"},
         matched' \in [Dimensions -> {"none", "matched", "mismatched"}], health' \in HealthRow
  PROVE  ReportInv'
<1>1. \A d \in Dimensions : Tight(d, lowered) => BookedFor(outbox', d) <= TotalNow(d) /\ c.local[d] <= TotalNow(d)
  BY LocalUnder
<1>2. /\ Ledger(outbox') /\ Ledger(meter') /\ Idents(outbox) \subseteq Idents(outbox')
      /\ Idents(meter') \subseteq Idents(outbox') /\ Idents(c.claims) \subseteq Idents(outbox')
  BY ReportGiven
<1> QED BY <1>1, <1>2, CycleKeeps

LEMMA CloseKeeps ==
  ASSUME ReportInv, OneReporter, CloseInv, NEW r \in Reporters, NEW c \in CycleRow, cycle' = [cycle EXCEPT ![r] = c],
         Closing(status', writes', levels', meter', matched', c),
         status' = "finalized" =>
           Outstanding' = {} /\ \A d \in Dimensions : BookedFor(meter', d) = UsageTotal(writes', levels', d, End)
  PROVE  CloseInv'
<1>1. cycle'[r] = c BY Turned
<1>2. \A q \in Reporters : q = r BY DEF OneReporter
<1>3. \A q \in Reporters : Closing(status', writes', levels', meter', matched', cycle'[q]) BY <1>1, <1>2
<1> QED BY <1>3 DEF CloseInv

\* A cycle that goes on without comparing, or ends.
LEMMA CycleGoesOn ==
  ASSUME ReportInv, OneReporter, CloseInv, NEW r \in Reporters, NEW c \in CycleRow, cycle' = [cycle EXCEPT ![r] = c],
         cycle[r].at # "idle", status' = status, c.at # "compare", c.sealed \in {0, cycle[r].sealed}
  PROVE  CloseInv'
<1>1. Closing(status, writes, levels, meter, matched, cycle[r]) BY DEF CloseInv
<1>2. status # "finalized" BY <1>1, NoCycleRow DEF Closing
<1>3. c.sealed = 1 => status # "open" BY <1>1 DEF Closing
<1>4. Closing(status', writes', levels', meter', matched', c) BY <1>2, <1>3 DEF Closing
<1> QED BY <1>2, <1>4, CloseKeeps

\* Done: the cycle ends with a state of health.
LEMMA DoneFacts ==
  ASSUME ReportInv, NEW r, NEW s \in {"healthy", "degraded", "reconciling", "blocked"}, Done(r, s)
  PROVE  cycle' = [cycle EXCEPT ![r] = NoCycle] /\ health' \in HealthRow
<1>1. health.cut \in {0, 1} BY ReportGiven DEF HealthRow
<1>2. Healthy(s) \in HealthRow BY <1>1 DEF Healthy, HealthRow
<1> QED BY <1>2 DEF Done

LEMMA FallbackState == \A r : Fallback(r) \in {"degraded", "blocked"}
BY DEF Fallback

LEMMA CycleEnds ==
  ASSUME UsageReportingAssumption, ReportInv, NEW r \in Reporters,
         NEW s \in {"healthy", "degraded", "reconciling", "blocked"}, Done(r, s), cycle[r].at # "idle",
         UNCHANGED <<hour, status, writes, levels, outbox, meter, matched, lowered>>
  PROVE  ReportStays
<1>1. cycle' = [cycle EXCEPT ![r] = NoCycle] /\ health' \in HealthRow BY DoneFacts
<1>2. \A d \in Dimensions : NoCycle.local[d] <= TotalNow(d) BY NoCycleRow, TotalNowNat
<1>3. ReportInv' BY <1>1, <1>2, NoCycleRow, ReportGiven, CycleOnly
<1>4. OneReporter /\ CloseInv => CloseInv' BY <1>1, NoCycleRow, CycleGoesOn
<1> QED BY <1>3, <1>4 DEF ReportStays

-----------------------------------------------------------------------------
(* Usage is recorded, time passes.                                           *)

\* While the period is open nothing is compared.
LEMMA OpenCloses ==
  ASSUME CloseInv, status = "open", status' = status, cycle' = cycle
  PROVE  CloseInv'
<1> SUFFICES ASSUME NEW r \in Reporters PROVE Closing(status', writes', levels', meter', matched', cycle'[r])
  BY DEF CloseInv
<1>1. Closing(status, writes, levels, meter, matched, cycle[r]) BY DEF CloseInv
<1>2. cycle[r].sealed # 1 /\ cycle[r].at # "compare" BY <1>1 DEF Closing
<1> QED BY <1>2 DEF Closing

LEMMA RecordWriteKeeps ==
  ASSUME UsageReportingAssumption, ReportInv, NEW h \in Hours, RecordWrite(h)
  PROVE  ReportStays
<1>1. /\ status = "open" /\ status' = status /\ cycle' = cycle /\ levels' = levels /\ lowered' = lowered
      /\ outbox' = outbox /\ meter' = meter /\ hour' = hour /\ matched' = matched /\ health' = health
      /\ writes[h] < MaxUnits /\ writes' = [writes EXCEPT ![h] = @ + 1]
  BY DEF RecordWrite, AdmitsHour, Accepts
<1>2. PICK n : n = writes[h] OBVIOUS
<1>3. n \in Nat /\ n + 1 \in 0..MaxUnits BY <1>1, <1>2, ReportGiven, ReportNumbers DEF HourlyUnits
<1>4. writes' = [writes EXCEPT ![h] = n + 1] BY <1>1, <1>2
<1>5. writes' \in HourlyUnits /\ writes'[h] = n + 1 /\ \A k \in Hours \ {h} : writes'[k] = writes[k]
  BY <1>3, <1>4, ReportGiven DEF HourlyUnits
<1>6. UsageTotal(writes, levels, "writes", End) <= UsageTotal(writes', levels, "writes", End)
  <2>1. writes \in HourlyUnits /\ levels \in Snapshots BY ReportGiven
  <2>2. writes'[h] = writes[h] + 1 BY <1>2, <1>5
  <2> QED BY <1>5, <2>1, <2>2, TotalMore
<1>7. UsageTotal(writes, levels, "storage", End) = UsageTotal(writes', levels, "storage", End)
  BY <1>5, ReportGiven, TotalApart
<1>8. \A d : UsageTotal(writes', levels, d, End) \in Nat
  <2>1. 0 \in 0..End BY ReportNumbers
  <2> QED BY <2>1, <1>5, ReportGiven, TotalUpto
<1>9. UnderTotal(outbox, writes', levels, lowered, cycle)
  <2> SUFFICES ASSUME NEW d \in Dimensions, Tight(d, lowered), NEW r \in Reporters
               PROVE  /\ BookedFor(outbox, d) <= UsageTotal(writes', levels, d, End)
                      /\ cycle[r].local[d] <= UsageTotal(writes', levels, d, End)
    <3>1. \A d \in Dimensions : Tight(d, lowered) => BookedFor(outbox, d) <= UsageTotal(writes', levels, d, End)
      <4> SUFFICES ASSUME NEW d \in Dimensions, Tight(d, lowered) PROVE BookedFor(outbox, d) <= UsageTotal(writes', levels, d, End)
        OBVIOUS
      <4>1. BookedFor(outbox, d) <= TotalNow(d) BY DEF ReportInv, UnderTotal, TotalNow
      <4>2. TotalNow(d) <= UsageTotal(writes', levels, d, End) BY <1>6, <1>7, <1>8 DEF Dimensions, TotalNow
      <4>3. BookedFor(outbox, d) \in Nat /\ TotalNow(d) \in Nat BY ReportGiven, BookedNat, TotalNowNat
      <4> QED BY <4>1, <4>2, <4>3, <1>8
    <3> QED BY <3>1 DEF UnderTotal
  <2>1. BookedFor(outbox, d) <= TotalNow(d) /\ cycle[r].local[d] <= TotalNow(d) BY LocalUnder
  <2>2. TotalNow(d) <= UsageTotal(writes', levels, d, End) BY <1>6, <1>7, <1>8 DEF Dimensions, TotalNow
  <2>3. BookedFor(outbox, d) \in Nat /\ TotalNow(d) \in Nat BY ReportGiven, BookedNat, TotalNowNat
  <2>4. cycle[r].local[d] \in Nat BY ReportGiven DEF CycleRow
  <2> QED BY <2>1, <2>2, <2>3, <2>4, <1>8
<1>10. ReportInv' BY <1>1, <1>5, <1>9 DEF ReportInv, ReportTyped
<1>11. CloseInv => CloseInv' BY <1>1, OpenCloses
<1> QED BY <1>10, <1>11 DEF ReportStays

LEMMA RecordStorageKeeps ==
  ASSUME UsageReportingAssumption, ReportInv, NEW h \in Hours, NEW bytes \in 0..1, RecordStorage(h, bytes)
  PROVE  ReportStays
<1>1. /\ status = "open" /\ status' = status /\ cycle' = cycle /\ writes' = writes
      /\ outbox' = outbox /\ meter' = meter /\ hour' = hour /\ matched' = matched /\ health' = health
      /\ levels' = [levels EXCEPT ![h] = bytes + 1]
  BY DEF RecordStorage, AdmitsHour, Accepts
<1>2. levels' \in Snapshots
  <2>1. PICK n : n = bytes + 1 OBVIOUS
  <2>2. n \in 0..2 BY <2>1
  <2> QED BY <1>1, <2>1, <2>2, ReportGiven DEF Snapshots
<1>3. UsageTotal(writes, levels, "writes", End) = UsageTotal(writes, levels', "writes", End)
  BY <1>2, ReportGiven, TotalApart
<1>4. ASSUME lowered' = 0
      PROVE  /\ lowered = 0 /\ ~(UsageTotal(writes, levels', "storage", End) < Enqueued("storage"))
             /\ \A r \in Reporters : ~(UsageTotal(writes, levels', "storage", End) < cycle[r].local["storage"])
  <2>1. End \in 1..End BY ReportNumbers
  <2>2. /\ lowered = 0
        /\ ~(\/ UsageTotal(writes, levels', "storage", End) < Enqueued("storage")
             \/ \E r \in Reporters : \E t \in 1..End :
                  UsageTotal(writes, levels', "storage", t) < cycle[r].local["storage"])
    <3>1. PICK P \in BOOLEAN :
            P <=> \/ UsageTotal(writes, levels', "storage", End) < Enqueued("storage")
                  \/ \E r \in Reporters : \E t \in 1..End :
                       UsageTotal(writes, levels', "storage", t) < cycle[r].local["storage"]
      OBVIOUS
    <3>2. lowered' = IF P THEN 1 ELSE lowered BY <3>1 DEF RecordStorage
    <3> QED BY <1>4, <3>1, <3>2
  <2> QED BY <2>1, <2>2
<1>5. UsageTotal(writes, levels', "storage", End) \in Nat
  <2>1. 0 \in 0..End BY ReportNumbers
  <2> QED BY <2>1, <1>2, ReportGiven, TotalUpto
<1>6. BookedFor(outbox, "storage") = Enqueued("storage") BY DEF Enqueued, BookedFor
<1>7. UnderTotal(outbox, writes, levels', lowered', cycle)
  <2> SUFFICES ASSUME NEW d \in Dimensions, Tight(d, lowered')
               PROVE  /\ BookedFor(outbox, d) <= UsageTotal(writes, levels', d, End)
                      /\ \A r \in Reporters : cycle[r].local[d] <= UsageTotal(writes, levels', d, End)
    BY DEF UnderTotal
  <2>1. CASE d = "writes"
    <3>1. Tight(d, lowered) BY <2>1 DEF Tight
    <3> QED BY <3>1, <2>1, <1>3 DEF ReportInv, UnderTotal
  <2>2. CASE d = "storage"
    <3>1. lowered' = 0 BY <2>2 DEF Tight
    <3>2. BookedFor(outbox, d) \in Nat BY ReportGiven, BookedNat
    <3>3. \A r \in Reporters : cycle[r].local[d] \in Nat BY ReportGiven DEF CycleRow
    <3> QED BY <3>1, <3>2, <3>3, <1>4, <1>5, <1>6, <2>2
  <2> QED BY <2>1, <2>2 DEF Dimensions
<1>8. ReportInv' BY <1>1, <1>2, <1>7 DEF ReportInv, ReportTyped
<1>9. CloseInv => CloseInv' BY <1>1, OpenCloses
<1> QED BY <1>8, <1>9 DEF ReportStays

LEMMA NextHourKeeps ==
  ASSUME UsageReportingAssumption, ReportInv, NextHour
  PROVE  ReportStays
<1>1. hour' \in 0..MaxHour BY ReportGiven, ReportNumbers DEF NextHour
<1>2. ReportInv' BY <1>1 DEF NextHour, ReportInv, ReportTyped
<1>3. CloseInv => CloseInv' BY DEF NextHour, CloseInv, Outstanding
<1> QED BY <1>2, <1>3 DEF ReportStays

-----------------------------------------------------------------------------
(* A cycle.                                                                  *)

LEMMA BeginCycleKeeps ==
  ASSUME UsageReportingAssumption, ReportInv, NEW r \in Reporters, BeginCycle(r)
  PROVE  ReportStays
<1>1. /\ hour' = hour /\ writes' = writes /\ levels' = levels /\ outbox' = outbox /\ meter' = meter
      /\ matched' = matched /\ lowered' = lowered
      /\ status' = IF status = "open" /\ hour >= Cutoff THEN "sealed" ELSE status
  BY DEF BeginCycle
<1>2. status' \in {"open", "sealed", "finalized"} BY <1>1, ReportGiven
<1>3. CASE status = "finalized"
  <2>1. Done(r, "healthy") BY <1>3 DEF BeginCycle
  <2>2. cycle' = [cycle EXCEPT ![r] = NoCycle] /\ health' \in HealthRow BY <2>1, DoneFacts
  <2>3. \A d \in Dimensions : NoCycle.local[d] <= TotalNow(d) BY NoCycleRow, TotalNowNat
  <2>4. ReportInv' BY <1>1, <1>2, <2>2, <2>3, NoCycleRow, ReportGiven, CycleOnly
  <2>5. status' = status BY <1>1, <1>3
  <2>6. ASSUME OneReporter, CloseInv PROVE CloseInv'
    <3>1. Closing(status', writes', levels', meter', matched', NoCycle) BY NoCycleRow DEF Closing
    <3>2. Outstanding' = Outstanding BY <1>1 DEF Outstanding
    <3>3. Outstanding' = {} /\ \A d \in Dimensions : BookedFor(meter', d) = UsageTotal(writes', levels', d, End)
      BY <1>1, <1>3, <2>6, <3>2 DEF CloseInv
    <3> QED BY <2>2, <2>6, <3>1, <3>3, NoCycleRow, CloseKeeps
  <2> QED BY <2>4, <2>6 DEF ReportStays
<1>4. CASE status # "finalized"
  <2>1. PICK c : c = [NoCycle EXCEPT !.now = hour, !.at = "read", !.sealed = IF status' = "sealed" THEN 1 ELSE 0]
    OBVIOUS
  <2>2. cycle' = [cycle EXCEPT ![r] = c] /\ health' = health BY <1>4, <2>1 DEF BeginCycle
  <2>3. hour \in Nat BY ReportGiven, ReportNumbers
  <2>4. PICK n : n = NoCycle OBVIOUS
  <2>5. /\ n \in CycleRow /\ Idents(n.claims) = {} /\ \A d \in Dimensions : n.local[d] = 0 BY <2>4, NoCycleRow
  <2>6. /\ c \in CycleRow /\ c.at = "read" /\ c.local = n.local /\ c.claims = n.claims
        /\ c.sealed = IF status' = "sealed" THEN 1 ELSE 0
    BY <2>1, <2>3, <2>4, <2>5 DEF CycleRow
  <2>7. \A d \in Dimensions : c.local[d] <= TotalNow(d) BY <2>5, <2>6, TotalNowNat
  <2>8. Idents(c.claims) \subseteq Idents(outbox) BY <2>5, <2>6
  <2>9. ReportInv' BY <1>1, <1>2, <2>2, <2>6, <2>7, <2>8, ReportGiven, CycleOnly
  <2>10. status' # "finalized" BY <1>1, <1>4
  <2>11. ASSUME OneReporter, CloseInv PROVE CloseInv'
    <3>1. Closing(status', writes', levels', meter', matched', c) BY <2>6, <2>10 DEF Closing
    <3> QED BY <2>2, <2>6, <2>10, <2>11, <3>1, CloseKeeps
  <2> QED BY <2>9, <2>11 DEF ReportStays
<1> QED BY <1>3, <1>4

LEMMA TotalsUpto ==
  ASSUME UsageReportingAssumption, ReportInv, NEW t \in 0..End
  PROVE  /\ UsageTotals(t) \in [Dimensions -> Nat]
         /\ \A d \in Dimensions : UsageTotals(t)[d] = UsageTotal(writes, levels, d, t) /\ UsageTotals(t)[d] <= TotalNow(d)
<1>1. \A d : /\ UsageTotal(writes, levels, d, t) \in Nat
             /\ UsageTotal(writes, levels, d, t) <= TotalNow(d)
  BY ReportGiven, TotalUpto DEF TotalNow
<1> QED BY <1>1 DEF UsageTotals

LEMMA ReadTotalsKeeps ==
  ASSUME UsageReportingAssumption, ReportInv, NEW r \in Reporters, ReadTotals(r)
  PROVE  ReportStays
<1>1. /\ hour' = hour /\ status' = status /\ writes' = writes /\ levels' = levels /\ outbox' = outbox /\ meter' = meter
      /\ matched' = matched /\ health' = health /\ lowered' = lowered /\ cycle[r].at = "read"
  BY DEF ReadTotals, In
<1>2. PICK o : o = cycle[r] OBVIOUS
<1>3. o \in CycleRow /\ Idents(o.claims) \subseteq Idents(outbox) BY <1>2, ReportGiven
<1>4. PICK t : t = Through(o.now) OBVIOUS
<1>5. t \in 0..End
  <2>1. o.now \in Nat BY <1>3 DEF CycleRow
  <2> QED BY <1>4, <2>1, ReportNumbers DEF Through
<1>6. PICK L, T : L = UsageTotals(t) /\ T = IF t > 0 THEN Dimensions ELSE {} OBVIOUS
<1>7. L \in [Dimensions -> Nat] /\ (\A d \in Dimensions : L[d] <= TotalNow(d)) /\ T \in SUBSET Dimensions
  BY <1>5, <1>6, TotalsUpto
<1>8. PICK c : c = [o EXCEPT !.at = "enqueue", !.local = L, !.todo = T] OBVIOUS
<1>9. cycle' = [cycle EXCEPT ![r] = c] BY <1>2, <1>4, <1>6, <1>8 DEF ReadTotals
<1>10. c \in CycleRow /\ c.at = "enqueue" /\ c.local = L /\ c.claims = o.claims /\ c.sealed = o.sealed
  BY <1>3, <1>7, <1>8 DEF CycleRow
<1>11. ReportInv' BY <1>1, <1>3, <1>7, <1>9, <1>10, ReportGiven, CycleOnly
<1>12. OneReporter /\ CloseInv => CloseInv' BY <1>1, <1>2, <1>9, <1>10, CycleGoesOn
<1> QED BY <1>11, <1>12 DEF ReportStays

\* Going on with the reports: the outbox knows the same, or more.
LEMMA EnqueueKeeps ==
  ASSUME UsageReportingAssumption, ReportInv, NEW r \in Reporters, NEW d \in Dimensions, Enqueue(r, d)
  PROVE  ReportStays
<1>1. /\ hour' = hour /\ status' = status /\ writes' = writes /\ levels' = levels /\ meter' = meter
      /\ matched' = matched /\ lowered' = lowered /\ cycle[r].at = "enqueue"
  BY DEF Enqueue, In
<1>2. PICK o, total, t, report, known, has :
        /\ o = cycle[r] /\ total = o.local[d] /\ t = Through(o.now) /\ has = Enqueued(d)
        /\ report = Report(d, total, t, o.now) /\ known = {e \in outbox : Same(e, report)}
  OBVIOUS
<1>3. \/ Done(r, Fallback(r)) /\ outbox' = outbox
      \/ /\ ~(total < has)
         /\ outbox' = IF total > has /\ known = {} THEN outbox \cup {report} ELSE outbox
         /\ cycle' = [cycle EXCEPT ![r].todo = @ \ {d}] /\ health' = health
  BY <1>2 DEF Enqueue
<1>4. CASE Done(r, Fallback(r)) /\ outbox' = outbox BY <1>1, <1>4, FallbackState, CycleEnds
<1>5. CASE /\ ~(total < has)
           /\ outbox' = IF total > has /\ known = {} THEN outbox \cup {report} ELSE outbox
           /\ cycle' = [cycle EXCEPT ![r].todo = @ \ {d}] /\ health' = health
  <2>1. o \in CycleRow /\ Idents(o.claims) \subseteq Idents(outbox) BY <1>2, ReportGiven
  <2>2. total \in Nat /\ o.now \in Nat BY <1>2, <2>1 DEF CycleRow
  <2>3. t \in Nat BY <1>2, <2>2, ReportNumbers DEF Through
  <2>4. has = BookedFor(outbox, d) /\ has \in Nat
    <3>1. has = BookedFor(outbox, d) BY <1>2 DEF Enqueued, BookedFor
    <3> QED BY <3>1, ReportGiven, BookedNat
  <2>5. PICK T : T = o.todo \ {d} OBVIOUS
  <2>6. PICK c : c = [o EXCEPT !.todo = T] OBVIOUS
  <2>7. cycle' = [cycle EXCEPT ![r] = c] BY <1>2, <1>5, <2>5, <2>6
  <2>8. T \in SUBSET Dimensions BY <2>1, <2>5 DEF CycleRow
  <2>9. c \in CycleRow /\ c.at = o.at /\ c.local = o.local /\ c.claims = o.claims /\ c.sealed = o.sealed
    BY <2>1, <2>6, <2>8 DEF CycleRow
  <2>10. OneReporter /\ CloseInv => CloseInv' BY <1>1, <1>2, <2>7, <2>9, CycleGoesOn
  <2>11. \A x \in Dimensions : Tight(x, lowered) => c.local[x] <= TotalNow(x) BY <1>2, <2>9, LocalUnder
  <2>12. CASE total > has /\ known = {}
    <3>1. PICK n : n = total - has OBVIOUS
    <3>2. n \in Nat \ {0} BY <2>2, <2>4, <2>12, <3>1
    <3>3. report = [dim |-> d, total |-> total, through |-> t, quantity |-> n,
                    state |-> "pending", next |-> o.now, lease |-> 0]
      BY <1>2, <3>1 DEF Report
    <3>4. report \in ReportRow /\ report.dim = d /\ report.quantity = n
      BY <2>2, <2>3, <3>2, <3>3 DEF ReportRow, ReportStates
    <3>5. \A f \in outbox : ~Same(f, report) BY <1>2, <2>12
    <3>6. outbox' = outbox \cup {report} BY <1>5, <2>12
    <3>7. Ledger(outbox) /\ Ledger(meter) BY ReportGiven
    <3>8. Ledger(outbox') /\ Idents(outbox') = Idents(outbox) \cup {Ident(report)}
      <4>1. Ledger(outbox \cup {report}) /\ Idents(outbox \cup {report}) = Idents(outbox) \cup {Ident(report)}
        BY <3>4, <3>5, <3>7, BookedMore
      <4> QED BY <3>6, <4>1
    <3>9. \A x : BookedFor(outbox', x) = BookedFor(outbox, x) + (IF d = x THEN n ELSE 0)
      BY <3>4, <3>5, <3>6, <3>7, BookedMore
    <3>10. ASSUME NEW x \in Dimensions, Tight(x, lowered) PROVE BookedFor(outbox', x) <= TotalNow(x)
      <4>1. BookedFor(outbox, x) <= TotalNow(x) /\ o.local[x] <= TotalNow(x) BY <1>2, <3>10, LocalUnder
      <4>2. BookedFor(outbox, x) \in Nat BY <3>7, BookedNat
      <4>3. CASE x = d
        <5>1. BookedFor(outbox', x) = has + n BY <2>4, <3>9, <4>3
        <5>2. has + n = total BY <2>2, <2>4, <3>1
        <5> QED BY <1>2, <4>1, <4>3, <5>1, <5>2
      <4>4. CASE x # d BY <3>9, <4>1, <4>2, <4>4
      <4> QED BY <4>3, <4>4
    <3>11. /\ Idents(outbox) \subseteq Idents(outbox') /\ Idents(meter') \subseteq Idents(outbox')
           /\ Idents(c.claims) \subseteq Idents(outbox') /\ Ledger(meter')
      BY <1>1, <2>1, <2>9, <3>7, <3>8, ReportGiven
    <3>12. ReportInv' BY <1>1, <1>5, <2>7, <2>9, <2>11, <3>8, <3>10, <3>11, ReportGiven, CycleKeeps
    <3> QED BY <2>10, <3>12 DEF ReportStays
  <2>13. CASE ~(total > has /\ known = {})
    <3>1. outbox' = outbox BY <1>5, <2>13
    <3>2. ReportInv' BY <1>1, <1>5, <2>1, <2>7, <2>9, <2>11, <3>1, ReportGiven, CycleOnly
    <3> QED BY <2>10, <3>2 DEF ReportStays
  <2> QED BY <2>12, <2>13
<1> QED BY <1>3, <1>4, <1>5

\* Reports in the outbox are replaced by ones that are known by the same; the
\* cycle holds reports that the outbox knows.
LEMMA SwapKeeps ==
  ASSUME UsageReportingAssumption, ReportInv, NEW r \in Reporters, NEW c \in CycleRow, cycle' = [cycle EXCEPT ![r] = c],
         Ledger(outbox'), Idents(outbox') = Idents(outbox), Ledger(meter'), Idents(meter') \subseteq Idents(outbox),
         Idents(c.claims) \subseteq Idents(outbox), c.local = cycle[r].local \/ c = NoCycle,
         UNCHANGED <<hour, status, writes, levels, matched, lowered>>, health' \in HealthRow
  PROVE  ReportInv'
<1>1. \A d : BookedFor(outbox', d) = BookedFor(outbox, d) BY ReportGiven, BookedSame
<1>2. \A d \in Dimensions : Tight(d, lowered) => BookedFor(outbox', d) <= TotalNow(d) /\ c.local[d] <= TotalNow(d)
  BY <1>1, LocalUnder, NoCycleRow, TotalNowNat
<1> QED BY <1>1, <1>2, ReportGiven, CycleKeeps

Taken(due, l) == {[e EXCEPT !.state = "in_flight", !.lease = l] : e \in due}

LEMMA ClaimKeeps ==
  ASSUME UsageReportingAssumption, ReportInv, NEW r \in Reporters, Claim(r)
  PROVE  ReportStays
<1>1. /\ hour' = hour /\ status' = status /\ writes' = writes /\ levels' = levels /\ meter' = meter
      /\ matched' = matched /\ health' = health /\ lowered' = lowered /\ cycle[r].at = "enqueue"
  BY DEF Claim, In
<1>2. PICK o, due, l : o = cycle[r] /\ due = Due(o.now) /\ l = o.now + Lease OBVIOUS
<1>3. PICK f : f = [e \in ReportRow |-> [e EXCEPT !.state = "in_flight", !.lease = l]] OBVIOUS
<1>4. PICK taken : taken = {f[e] : e \in due} OBVIOUS
<1>5. o \in CycleRow /\ o.now \in Nat /\ Idents(o.claims) \subseteq Idents(outbox) BY <1>2, ReportGiven DEF CycleRow
<1>6. l \in Nat BY <1>2, <1>5, ReportNumbers
<1>7. due \subseteq outbox /\ outbox \subseteq ReportRow BY <1>2, ReportGiven DEF Due, Ledger
<1>8. Taken(due, l) = taken
  <2>1. \A e \in due : f[e] = [e EXCEPT !.state = "in_flight", !.lease = l] BY <1>3, <1>7
  <2> QED BY <1>4, <2>1 DEF Taken
<1>c. /\ outbox' = (outbox \ Due(cycle[r].now)) \cup Taken(Due(cycle[r].now), cycle[r].now + Lease)
      /\ cycle' = [cycle EXCEPT ![r].claims = Taken(Due(cycle[r].now), cycle[r].now + Lease), ![r].at = "send"]
  BY DEF Claim, Taken
<1>9. outbox' = (outbox \ due) \cup taken BY <1>2, <1>8, <1>c
<1>10. PICK c : c = [o EXCEPT !.claims = taken, !.at = "send"] OBVIOUS
<1>11. cycle' = [cycle EXCEPT ![r] = c]
  <2>1. cycle' = [cycle EXCEPT ![r].claims = taken, ![r].at = "send"] BY <1>2, <1>8, <1>c
  <2> QED BY <2>1, <1>2, <1>10
<1>12. \A e \in due : f[e] \in ReportRow /\ Ident(f[e]) = Ident(e)
  <2> SUFFICES ASSUME NEW e \in due PROVE f[e] \in ReportRow /\ Ident(f[e]) = Ident(e) OBVIOUS
  <2>1. e \in ReportRow BY <1>7
  <2>2. f[e] = [e EXCEPT !.state = "in_flight", !.lease = l] BY <1>3, <2>1
  <2> QED BY <1>6, <2>1, <2>2 DEF ReportRow, ReportStates, Ident
<1>13. Ledger(outbox') /\ Idents(outbox') = Idents(outbox)
  <2>1. Ledger(outbox) BY ReportGiven
  <2> QED BY <2>1, <1>4, <1>7, <1>9, <1>12, Replaced
<1>14. taken \in SUBSET ReportRow BY <1>4, <1>12
<1>15. c \in CycleRow /\ c.at = "send" /\ c.local = o.local /\ c.claims = taken /\ c.sealed = o.sealed
  BY <1>5, <1>10, <1>14 DEF CycleRow
<1>16. Idents(c.claims) \subseteq Idents(outbox)
  <2>1. Idents(taken) \subseteq Idents(outbox') BY <1>9 DEF Idents
  <2> QED BY <2>1, <1>13, <1>15
<1>17. ReportInv' BY <1>1, <1>2, <1>11, <1>13, <1>15, <1>16, ReportGiven, SwapKeeps
<1>18. OneReporter /\ CloseInv => CloseInv' BY <1>1, <1>2, <1>11, <1>15, CycleGoesOn
<1> QED BY <1>17, <1>18 DEF ReportStays

\* The provider takes a report once.
LEMMA AcceptedFacts ==
  ASSUME ReportInv, NEW e, e \in ReportRow, Ident(e) \in Idents(outbox)
  PROVE  Ledger(Accepted(e)) /\ Idents(Accepted(e)) \subseteq Idents(outbox)
<1>1. Ledger(meter) /\ Idents(meter) \subseteq Idents(outbox) BY ReportGiven
<1>2. CASE \E f \in meter : Same(e, f) BY <1>1, <1>2 DEF Accepted
<1>3. CASE ~ \E f \in meter : Same(e, f)
  <2>1. Accepted(e) = meter \cup {e} BY <1>3 DEF Accepted
  <2>2. \A f \in meter : ~Same(f, e) BY <1>3 DEF Same
  <2>3. Ledger(meter \cup {e}) /\ Idents(meter \cup {e}) = Idents(meter) \cup {Ident(e)} BY <1>1, <2>2, BookedMore
  <2> QED BY <1>1, <2>1, <2>3
<1> QED BY <1>2, <1>3

LEMMA ClaimKnown ==
  ASSUME ReportInv, NEW r \in Reporters, NEW e \in cycle[r].claims
  PROVE  e \in ReportRow /\ Ident(e) \in Idents(outbox)
<1>1. cycle[r].claims \in SUBSET ReportRow BY ReportGiven DEF CycleRow
<1>2. Ident(e) \in Idents(cycle[r].claims) BY DEF Idents
<1> QED BY <1>1, <1>2, ReportGiven

\* One report of the outbox is replaced.
LEMMA OneReplaced ==
  ASSUME ReportInv, NEW e \in outbox, NEW new \in ReportRow, Ident(new) = Ident(e),
         outbox' = (outbox \ {e}) \cup {new}
  PROVE  Ledger(outbox') /\ Idents(outbox') = Idents(outbox)
<1>1. PICK f : f = [x \in {e} |-> new] OBVIOUS
<1>2. \A x \in {e} : f[x] \in ReportRow /\ Ident(f[x]) = Ident(x) BY <1>1
<1>3. {f[x] : x \in {e}} = {new} BY <1>1
<1>4. Ledger(outbox) /\ {e} \subseteq outbox BY ReportGiven
<1>5. PICK due : due = {e} OBVIOUS
<1>6. due \subseteq outbox /\ \A x \in due : f[x] \in ReportRow /\ Ident(f[x]) = Ident(x) BY <1>2, <1>4, <1>5
<1>7. Ledger((outbox \ due) \cup {f[x] : x \in due}) /\ Idents((outbox \ due) \cup {f[x] : x \in due}) = Idents(outbox)
  BY <1>4, <1>6, Replaced
<1>8. outbox' = (outbox \ due) \cup {f[x] : x \in due} BY <1>3, <1>5
<1> QED BY <1>7, <1>8

Without(o, e, j) == [o EXCEPT !.claims = o.claims \ {e}, !.rejected = j]

LEMMA FewerClaims ==
  ASSUME ReportInv, NEW r \in Reporters, NEW e, NEW j \in {0, 1}, NEW o, o = cycle[r], NEW c, c = Without(o, e, j)
  PROVE  /\ c \in CycleRow /\ c.at = o.at /\ c.local = o.local /\ c.sealed = o.sealed
         /\ Idents(c.claims) \subseteq Idents(outbox)
<1>1. o = cycle[r] OBVIOUS
<1>2. o \in CycleRow /\ Idents(o.claims) \subseteq Idents(outbox) BY <1>1, ReportGiven
<1>3. PICK K : K = o.claims \ {e} OBVIOUS
<1>4. K \in SUBSET ReportRow /\ K \subseteq o.claims BY <1>2, <1>3 DEF CycleRow
<1>5. c = [o EXCEPT !.claims = K, !.rejected = j] BY <1>3 DEF Without
<1>6. c \in CycleRow /\ c.at = o.at /\ c.local = o.local /\ c.sealed = o.sealed /\ c.claims = K
  BY <1>2, <1>4, <1>5 DEF CycleRow
<1>7. Idents(K) \subseteq Idents(o.claims) BY <1>4 DEF Idents
<1> QED BY <1>1, <1>2, <1>6, <1>7

LEMMA SettledKeeps ==
  ASSUME UsageReportingAssumption, ReportInv, NEW r \in Reporters, cycle[r].at = "send", NEW e \in cycle[r].claims,
         NEW new \in ReportRow, Ident(new) = Ident(e), Settled(r, e, new),
         Ledger(meter'), Idents(meter') \subseteq Idents(outbox),
         UNCHANGED <<hour, status, writes, levels, matched, lowered>>
  PROVE  ReportStays
<1>1. CASE e \in outbox
  <2>1. /\ outbox' = (outbox \ {e}) \cup {new} /\ cycle' = [cycle EXCEPT ![r].claims = @ \ {e}] /\ health' = health
    BY <1>1 DEF Settled
  <2>2. Ledger(outbox') /\ Idents(outbox') = Idents(outbox) BY <1>1, <2>1, OneReplaced
  <2>3. PICK o : o = cycle[r] OBVIOUS
  <2>4. o \in CycleRow BY <2>3, ReportGiven
  <2>5. PICK j : j = o.rejected OBVIOUS
  <2>6. j \in {0, 1} BY <2>4, <2>5 DEF CycleRow
  <2>7. PICK c : c = Without(o, e, j) OBVIOUS
  <2>8. c = [o EXCEPT !.claims = o.claims \ {e}] BY <2>4, <2>5, <2>7 DEF CycleRow, Without
  <2>9. cycle' = [cycle EXCEPT ![r] = c] BY <2>1, <2>3, <2>8
  <2>10. /\ c \in CycleRow /\ c.at = o.at /\ c.local = o.local /\ c.sealed = o.sealed
         /\ Idents(c.claims) \subseteq Idents(outbox)
    BY <2>3, <2>6, <2>7, FewerClaims
  <2>11. ReportInv' BY <2>1, <2>2, <2>3, <2>9, <2>10, ReportGiven, SwapKeeps
  <2>12. OneReporter /\ CloseInv => CloseInv' BY <2>3, <2>9, <2>10, CycleGoesOn
  <2> QED BY <2>11, <2>12 DEF ReportStays
<1>2. CASE e \notin outbox
  <2>1. Done(r, Fallback(r)) /\ outbox' = outbox BY <1>2 DEF Settled
  <2>2. cycle' = [cycle EXCEPT ![r] = NoCycle] /\ health' \in HealthRow
    <3>1. Fallback(r) \in {"healthy", "degraded", "reconciling", "blocked"} BY FallbackState
    <3> QED BY <2>1, <3>1, DoneFacts
  <2>3. Ledger(outbox') /\ Idents(outbox') = Idents(outbox) BY <2>1, ReportGiven
  <2>4. Idents(NoCycle.claims) \subseteq Idents(outbox) BY NoCycleRow
  <2>5. ReportInv' BY <2>2, <2>3, <2>4, NoCycleRow, SwapKeeps
  <2>6. OneReporter /\ CloseInv => CloseInv' BY <2>2, NoCycleRow, CycleGoesOn
  <2> QED BY <2>5, <2>6 DEF ReportStays
<1> QED BY <1>1, <1>2

\* The report after its answer.
Answered(e, s, n) == [e EXCEPT !.state = s, !.lease = 0, !.next = n]

LEMMA SettledRow ==
  ASSUME NEW e \in ReportRow, NEW s \in ReportStates, NEW n \in Nat
  PROVE  Answered(e, s, n) \in ReportRow /\ Ident(Answered(e, s, n)) = Ident(e)
<1>0. PICK new : new = Answered(e, s, n) OBVIOUS
<1>1. new \in ReportRow BY <1>0 DEF ReportRow, Answered
<1>2. new.dim = e.dim /\ new.total = e.total /\ new.through = e.through /\ new.quantity = e.quantity
  BY <1>0 DEF ReportRow, Answered
<1>3. Ident(new) = Ident(e) BY <1>2 DEF Ident
<1> QED BY <1>0, <1>1, <1>3

LEMMA DeliverKeeps ==
  ASSUME UsageReportingAssumption, ReportInv, NEW r \in Reporters, NEW e \in cycle[r].claims, Deliver(r, e)
  PROVE  ReportStays
<1>1. PICK n, new : n = cycle[r].now /\ new = Answered(e, "acknowledged", n) OBVIOUS
<1>2. cycle[r].at = "send" /\ meter' = Accepted(e) /\ Settled(r, e, new)
  BY <1>1 DEF Deliver, In, Answered
<1>3. n \in Nat BY <1>1, ReportGiven DEF CycleRow
<1>4. e \in ReportRow /\ Ident(e) \in Idents(outbox) BY ClaimKnown
<1>s. "acknowledged" \in ReportStates /\ "failed" \in ReportStates BY DEF ReportStates
<1>5. new \in ReportRow /\ Ident(new) = Ident(e) BY <1>1, <1>3, <1>4, <1>s, SettledRow
<1>6. Ledger(meter') /\ Idents(meter') \subseteq Idents(outbox) BY <1>2, <1>4, AcceptedFacts
<1>7. UNCHANGED <<hour, status, writes, levels, matched, lowered>> BY DEF Deliver
<1> QED BY <1>2, <1>5, <1>6, <1>7, SettledKeeps

LEMMA DeliverFailsKeeps ==
  ASSUME UsageReportingAssumption, ReportInv, NEW r \in Reporters, NEW e \in cycle[r].claims, NEW taken \in BOOLEAN,
         DeliverFails(r, e, taken)
  PROVE  ReportStays
<1>1. PICK n, new : n = cycle[r].now + 1 /\ new = Answered(e, "failed", n) OBVIOUS
<1>2. cycle[r].at = "send" /\ meter' \in {Accepted(e), meter} /\ Settled(r, e, new)
  BY <1>1 DEF DeliverFails, In, Answered
<1>3. n \in Nat
  <2>1. cycle[r].now \in Nat BY ReportGiven DEF CycleRow
  <2> QED BY <1>1, <2>1
<1>4. e \in ReportRow /\ Ident(e) \in Idents(outbox) BY ClaimKnown
<1>s. "acknowledged" \in ReportStates /\ "failed" \in ReportStates BY DEF ReportStates
<1>5. new \in ReportRow /\ Ident(new) = Ident(e) BY <1>1, <1>3, <1>4, <1>s, SettledRow
<1>6. Ledger(meter') /\ Idents(meter') \subseteq Idents(outbox) BY <1>2, <1>4, AcceptedFacts, ReportGiven
<1>7. UNCHANGED <<hour, status, writes, levels, matched, lowered>> BY DEF DeliverFails
<1> QED BY <1>2, <1>5, <1>6, <1>7, SettledKeeps

LEMMA DeliverRejectedKeeps ==
  ASSUME UsageReportingAssumption, ReportInv, NEW r \in Reporters, NEW e \in cycle[r].claims, DeliverRejected(r, e)
  PROVE  ReportStays
<1>1. PICK n, new : n = cycle[r].now + 1 /\ new = Answered(e, "failed", n) OBVIOUS
<1>2. /\ cycle[r].at = "send" /\ e \in outbox /\ outbox' = (outbox \ {e}) \cup {new}
      /\ cycle' = [cycle EXCEPT ![r].claims = @ \ {e}, ![r].rejected = 1]
      /\ UNCHANGED <<hour, status, writes, levels, meter, matched, health, lowered>>
  BY <1>1 DEF DeliverRejected, In, Answered
<1>3. n \in Nat
  <2>1. cycle[r].now \in Nat BY ReportGiven DEF CycleRow
  <2> QED BY <1>1, <2>1
<1>4. e \in ReportRow /\ Ident(e) \in Idents(outbox) BY ClaimKnown
<1>s. "acknowledged" \in ReportStates /\ "failed" \in ReportStates BY DEF ReportStates
<1>5. new \in ReportRow /\ Ident(new) = Ident(e) BY <1>1, <1>3, <1>4, <1>s, SettledRow
<1>6. Ledger(outbox') /\ Idents(outbox') = Idents(outbox) BY <1>2, <1>5, OneReplaced
<1>7. PICK o : o = cycle[r] OBVIOUS
<1>8. PICK c : c = Without(o, e, 1) OBVIOUS
<1>9. cycle' = [cycle EXCEPT ![r] = c] BY <1>2, <1>7, <1>8 DEF Without
<1>j. 1 \in {0, 1} OBVIOUS
<1>10. /\ c \in CycleRow /\ c.at = o.at /\ c.local = o.local /\ c.sealed = o.sealed
       /\ Idents(c.claims) \subseteq Idents(outbox)
  BY <1>7, <1>8, <1>j, FewerClaims
<1>11. ReportInv' BY <1>2, <1>6, <1>7, <1>9, <1>10, ReportGiven, SwapKeeps
<1>12. OneReporter /\ CloseInv => CloseInv' BY <1>2, <1>7, <1>9, <1>10, CycleGoesOn
<1> QED BY <1>11, <1>12 DEF ReportStays

-----------------------------------------------------------------------------
(* The end of a period.                                                      *)

LEMMA CheckpointKeeps ==
  ASSUME UsageReportingAssumption, ReportInv, NEW r \in Reporters, Checkpoint(r)
  PROVE  ReportStays
<1>1. /\ UNCHANGED <<hour, status, writes, levels, outbox, meter, matched, lowered>>
      /\ cycle[r].at = "send"
  BY DEF Checkpoint, In
<1>2. PICK o : o = cycle[r] OBVIOUS
<1>3. o \in CycleRow /\ Idents(o.claims) \subseteq Idents(outbox) BY <1>2, ReportGiven
<1>4. \/ \E s \in {"healthy", "degraded", "reconciling", "blocked"} : Done(r, s)
      \/ /\ o.sealed # 0 /\ health' = health
         /\ cycle' = [cycle EXCEPT ![r].at = "compare", ![r].local = UsageTotals(End), ![r].todo = Dimensions]
  BY <1>2 DEF Checkpoint
<1>5. CASE \E s \in {"healthy", "degraded", "reconciling", "blocked"} : Done(r, s) BY <1>1, <1>5, CycleEnds
<1>6. CASE /\ o.sealed # 0 /\ health' = health
           /\ cycle' = [cycle EXCEPT ![r].at = "compare", ![r].local = UsageTotals(End), ![r].todo = Dimensions]
  <2>1. PICK L : L = UsageTotals(End) OBVIOUS
  <2>2. End \in 0..End BY ReportNumbers
  <2>3. L \in [Dimensions -> Nat] /\ \A d \in Dimensions : L[d] = UsageTotal(writes, levels, d, End) /\ L[d] <= TotalNow(d)
    BY <2>1, <2>2, TotalsUpto
  <2>4. PICK c : c = [o EXCEPT !.at = "compare", !.local = L, !.todo = Dimensions] OBVIOUS
  <2>5. cycle' = [cycle EXCEPT ![r] = c] BY <1>2, <1>6, <2>1, <2>4
  <2>6. /\ c \in CycleRow /\ c.at = "compare" /\ c.local = L /\ c.claims = o.claims /\ c.sealed = o.sealed
        /\ c.todo = Dimensions
    BY <1>3, <2>3, <2>4 DEF CycleRow
  <2>7. ReportInv' BY <1>1, <1>3, <1>6, <2>3, <2>5, <2>6, ReportGiven, CycleOnly
  <2>8. ASSUME OneReporter, CloseInv PROVE CloseInv'
    <3>1. Closing(status, writes, levels, meter, matched, o) BY <1>2, <2>8 DEF CloseInv
    <3>2. o.sealed = 1 BY <1>3, <1>6 DEF CycleRow
    <3>3. status # "open" /\ status # "finalized" BY <1>1, <1>2, <3>1, <3>2, NoCycleRow DEF Closing
    <3>4. Closing(status', writes', levels', meter', matched', c) BY <1>1, <2>3, <2>6, <3>2, <3>3 DEF Closing
    <3> QED BY <1>1, <2>5, <2>6, <2>8, <3>3, <3>4, CloseKeeps
  <2> QED BY <2>7, <2>8 DEF ReportStays
<1> QED BY <1>4, <1>5, <1>6

LEMMA CompareKeeps ==
  ASSUME UsageReportingAssumption, ReportInv, NEW r \in Reporters, NEW d \in Dimensions, Compare(r, d)
  PROVE  ReportStays
<1>1. /\ UNCHANGED <<hour, status, writes, levels, outbox, meter, health, lowered>>
      /\ cycle[r].at = "compare"
  BY DEF Compare, In
<1>2. PICK o, v, T : /\ o = cycle[r] /\ T = o.todo \ {d}
                     /\ v = IF o.local[d] = Metered(d) THEN "matched" ELSE "mismatched"
  OBVIOUS
<1>3. o \in CycleRow /\ Idents(o.claims) \subseteq Idents(outbox) BY <1>2, ReportGiven
<1>4. matched' = [matched EXCEPT ![d] = v] BY <1>2 DEF Compare
<1>5. v \in {"none", "matched", "mismatched"} BY <1>2
<1>6. /\ matched' \in [Dimensions -> {"none", "matched", "mismatched"}]
      /\ matched'[d] = v /\ \A x \in Dimensions : x # d => matched'[x] = matched[x]
  BY <1>4, <1>5, ReportGiven
<1>7. T \in SUBSET Dimensions BY <1>2, <1>3 DEF CycleRow
<1>8. PICK c : c = [o EXCEPT !.todo = T] OBVIOUS
<1>9. cycle' = [cycle EXCEPT ![r] = c] BY <1>2, <1>8 DEF Compare
<1>10. /\ c \in CycleRow /\ c.at = o.at /\ c.local = o.local /\ c.claims = o.claims /\ c.sealed = o.sealed /\ c.todo = T
  BY <1>3, <1>7, <1>8 DEF CycleRow
<1>11. \A x \in Dimensions : Tight(x, lowered) => c.local[x] <= TotalNow(x) BY <1>2, <1>10, LocalUnder
<1>12. ReportInv' BY <1>1, <1>3, <1>6, <1>9, <1>10, <1>11, ReportGiven, CycleOnly
<1>13. ASSUME OneReporter, CloseInv PROVE CloseInv'
  <2>1. Closing(status, writes, levels, meter, matched, o) BY <1>2, <1>13 DEF CloseInv
  <2>2. status # "finalized" BY <1>1, <1>2, <2>1, NoCycleRow DEF Closing
  <2>3. v = "matched" => BookedFor(meter, d) = o.local[d] BY <1>2 DEF Metered, BookedFor
  <2>4. \A x \in Dimensions : x \notin T /\ matched'[x] = "matched" => BookedFor(meter, x) = o.local[x]
    BY <1>1, <1>2, <1>6, <2>1, <2>3 DEF Closing
  <2>5. Closing(status', writes', levels', meter', matched', c) BY <1>1, <1>2, <1>10, <2>1, <2>2, <2>4 DEF Closing
  <2> QED BY <1>1, <1>9, <1>10, <1>13, <2>2, <2>5, CloseKeeps
<1> QED BY <1>12, <1>13 DEF ReportStays

LEMMA CompareFailsKeeps ==
  ASSUME UsageReportingAssumption, ReportInv, NEW r \in Reporters, CompareFails(r)
  PROVE  ReportStays
<1>1. /\ UNCHANGED <<hour, status, writes, levels, outbox, meter, matched, lowered>>
      /\ cycle[r].at # "idle" /\ Done(r, "blocked")
  BY DEF CompareFails, In
<1> QED BY <1>1, CycleEnds

LEMMA FinalizePeriodKeeps ==
  ASSUME UsageReportingAssumption, ReportInv, NEW r \in Reporters, FinalizePeriod(r)
  PROVE  ReportStays
<1>1. /\ UNCHANGED <<hour, writes, levels, outbox, meter, matched, lowered>>
      /\ cycle[r].at = "compare" /\ cycle[r].todo = {}
  BY DEF FinalizePeriod, In
<1>2. \/ Done(r, "blocked") /\ status' = status
      \/ Done(r, Fallback(r)) /\ status' = status
      \/ Finalizes /\ status' = "finalized" /\ Done(r, "healthy")
  BY DEF FinalizePeriod
<1>3. CASE Done(r, "blocked") /\ status' = status BY <1>1, <1>3, CycleEnds
<1>4. CASE Done(r, Fallback(r)) /\ status' = status BY <1>1, <1>4, FallbackState, CycleEnds
<1>5. CASE Finalizes /\ status' = "finalized" /\ Done(r, "healthy")
  <2>1. cycle' = [cycle EXCEPT ![r] = NoCycle] /\ health' \in HealthRow BY <1>5, DoneFacts
  <2>2. \A d \in Dimensions : NoCycle.local[d] <= TotalNow(d) BY NoCycleRow, TotalNowNat
  <2>3. status' \in {"open", "sealed", "finalized"} BY <1>5
  <2>4. ReportInv' BY <1>1, <2>1, <2>2, <2>3, NoCycleRow, ReportGiven, CycleOnly
  <2>5. ASSUME OneReporter, CloseInv PROVE CloseInv'
    <3>1. Closing(status', writes', levels', meter', matched', NoCycle) BY NoCycleRow DEF Closing
    <3>2. Closing(status, writes, levels, meter, matched, cycle[r]) BY <2>5 DEF CloseInv
    <3>3. \A d \in Dimensions : BookedFor(meter, d) = UsageTotal(writes, levels, d, End)
      BY <1>1, <1>5, <3>2 DEF Closing, Finalizes
    <3>4. Outstanding' = {} BY <1>1, <1>5 DEF Finalizes, Outstanding
    <3> QED BY <1>1, <2>1, <2>5, <3>1, <3>3, <3>4, NoCycleRow, CloseKeeps
  <2> QED BY <2>4, <2>5 DEF ReportStays
<1> QED BY <1>2, <1>3, <1>4, <1>5

LEMMA ReporterStopsKeeps ==
  ASSUME UsageReportingAssumption, ReportInv, NEW r \in Reporters, ReporterStops(r)
  PROVE  ReportStays
<1>1. /\ UNCHANGED <<hour, status, writes, levels, outbox, matched, health, lowered>>
      /\ cycle[r].at # "idle" /\ cycle' = [cycle EXCEPT ![r] = NoCycle]
      /\ meter' = meter \/ \E e \in cycle[r].claims : meter' = Accepted(e)
  BY DEF ReporterStops, In
<1>2. Ledger(meter') /\ Idents(meter') \subseteq Idents(outbox) BY <1>1, ReportGiven, ClaimKnown, AcceptedFacts
<1>3. Ledger(outbox') /\ Idents(outbox') = Idents(outbox) /\ Idents(NoCycle.claims) \subseteq Idents(outbox)
  BY <1>1, ReportGiven, NoCycleRow
<1>4. ReportInv' BY <1>1, <1>2, <1>3, ReportGiven, NoCycleRow, SwapKeeps
<1>5. OneReporter /\ CloseInv => CloseInv' BY <1>1, NoCycleRow, CycleGoesOn
<1> QED BY <1>4, <1>5 DEF ReportStays

-----------------------------------------------------------------------------
LEMMA ReportStart ==
  ASSUME UsageReportingAssumption, ReportInit
  PROVE  ReportInv /\ CloseInv
<1>1. /\ hour = 0 /\ status = "open" /\ outbox = {} /\ meter = {} /\ \A r \in Reporters : cycle[r] = NoCycle
  BY DEF ReportInit
<1>2. writes \in HourlyUnits /\ levels \in Snapshots BY ReportNumbers DEF ReportInit, HourlyUnits, Snapshots
<1>3. cycle \in [Reporters -> CycleRow] BY NoCycleRow DEF ReportInit
<1>4. ReportTyped
  <2>1. 0 \in 0..MaxHour BY ReportNumbers
  <2>2. health \in HealthRow BY DEF ReportInit, HealthRow
  <2>3. matched \in [Dimensions -> {"none", "matched", "mismatched"}] BY DEF ReportInit
  <2> QED BY <1>1, <1>2, <1>3, <2>1, <2>2, <2>3 DEF ReportTyped
<1>5. Idents({}) = {} /\ Ledger({}) BY FS_EmptySet DEF Idents, Ledger, OneEach
<1>6. Booked(outbox, meter, cycle) BY <1>1, <1>5, NoCycleRow DEF Booked
<1>7. \A d : BookedFor({}, d) = 0
  <2>1. \A d : For({}, d) = {} BY DEF For
  <2>2. Weight({}) = 0 BY SumEmpty DEF Weight
  <2> QED BY <1>5, <2>1, <2>2, BookedWeight
<1>8. \A d : UsageTotal(writes, levels, d, End) \in Nat
  <2>1. 0 \in 0..End BY ReportNumbers
  <2> QED BY <2>1, <1>2, TotalUpto
<1>9. UnderTotal(outbox, writes, levels, lowered, cycle) BY <1>1, <1>7, <1>8, NoCycleRow DEF UnderTotal
<1>10. CloseInv BY <1>1, NoCycleRow DEF CloseInv, Closing
<1> QED BY <1>4, <1>6, <1>9, <1>10 DEF ReportInv

LEMMA ReportStepStays ==
  ASSUME UsageReportingAssumption, ReportInv, [ReportNext]_reportVars
  PROVE  ReportStays
<1>1. CASE \E h \in Hours : RecordWrite(h) \/ \E bytes \in 0..1 : RecordStorage(h, bytes)
  BY <1>1, RecordWriteKeeps, RecordStorageKeeps
<1>2. CASE NextHour BY <1>2, NextHourKeeps
<1>3. ASSUME NEW r \in Reporters, ReporterStep(r) \/ CompareFails(r) \/ ReporterStops(r) PROVE ReportStays
  <2>1. CASE BeginCycle(r) BY <2>1, BeginCycleKeeps
  <2>2. CASE ReadTotals(r) BY <2>2, ReadTotalsKeeps
  <2>3. CASE Claim(r) BY <2>3, ClaimKeeps
  <2>4. CASE Checkpoint(r) BY <2>4, CheckpointKeeps
  <2>5. CASE FinalizePeriod(r) BY <2>5, FinalizePeriodKeeps
  <2>6. ASSUME NEW d \in Dimensions, Enqueue(r, d) \/ Compare(r, d) PROVE ReportStays
    BY <2>6, EnqueueKeeps, CompareKeeps
  <2>7. ASSUME NEW e \in cycle[r].claims, Deliver(r, e) PROVE ReportStays BY <2>7, DeliverKeeps
  <2>8. CASE CompareFails(r) BY <2>8, CompareFailsKeeps
  <2>9. CASE ReporterStops(r) BY <2>9, ReporterStopsKeeps
  <2> QED BY <1>3, <2>1, <2>2, <2>3, <2>4, <2>5, <2>6, <2>7, <2>8, <2>9 DEF ReporterStep
<1>4. ASSUME NEW r \in Reporters, NEW e \in cycle[r].claims,
             DeliverRejected(r, e) \/ \E taken \in BOOLEAN : DeliverFails(r, e, taken)
      PROVE  ReportStays
  BY <1>4, DeliverRejectedKeeps, DeliverFailsKeeps
<1>5. CASE UNCHANGED reportVars
  <2>1. ReportInv' BY <1>5 DEF reportVars, ReportInv, ReportTyped
  <2>2. CloseInv => CloseInv' BY <1>5 DEF reportVars, CloseInv, Outstanding
  <2> QED BY <2>1, <2>2 DEF ReportStays
<1> QED BY <1>1, <1>2, <1>3, <1>4, <1>5 DEF ReportNext

LEMMA ReportInvMeans ==
  ASSUME UsageReportingAssumption, ReportInv
  PROVE  ReportTypeOK /\ NeverOverReported
<1>1. \A e \in outbox : e.quantity > 0 /\ e.state \in ReportStates
  <2>1. outbox \subseteq ReportRow BY ReportGiven DEF Ledger
  <2> QED BY <2>1 DEF ReportRow
<1>2. health.state \in {"healthy", "degraded", "reconciling", "blocked"} /\ health.cut \in {0, 1} BY ReportGiven DEF HealthRow
<1>3. ReportTypeOK BY <1>1, <1>2, ReportGiven DEF ReportTypeOK, ReportStates, HourlyUnits, Snapshots
<1>4. \A d : BookedFor(meter, d) <= BookedFor(outbox, d) BY ReportGiven, BookedPart
<1>5. \A d : BookedFor(meter, d) \in Nat /\ BookedFor(outbox, d) \in Nat /\ TotalNow(d) \in Nat
  BY ReportGiven, BookedNat, TotalNowNat
<1>6. ASSUME NEW d \in Dimensions, Tight(d, lowered) PROVE Metered(d) <= UsageTotal(writes, levels, d, End)
  <2>1. BookedFor(outbox, d) <= TotalNow(d) BY <1>6 DEF ReportInv, UnderTotal, TotalNow
  <2>2. BookedFor(meter, d) <= TotalNow(d) BY <2>1, <1>4, <1>5
  <2> QED BY <2>2 DEF Metered, BookedFor, TotalNow
<1>7. NeverOverReported BY <1>6 DEF NeverOverReported, Tight, Dimensions
<1> QED BY <1>3, <1>7

\* For any number of reporters, any length of the period, of the leases and of
\* the delays and any number of failures: the provider is never told more than
\* was used (enqueue_report, claim_reports_inner, acknowledge_report).
THEOREM NothingIsOverReported == ReportSpec => [](ReportTypeOK /\ NeverOverReported)
<1>1. ReportInit => ReportInv BY UsageReportingAssumption, ReportStart
<1>2. ReportInv /\ [ReportNext]_reportVars => ReportInv' BY UsageReportingAssumption, ReportStepStays DEF ReportStays
<1>3. ReportInv => ReportTypeOK /\ NeverOverReported BY UsageReportingAssumption, ReportInvMeans
<1> QED BY <1>1, <1>2, <1>3, PTL DEF ReportSpec

\* With the one reporter that is deployed a period that is finalized was also
\* reported to the unit: its cycle compares the sealed totals with what the
\* provider has, and nothing changes either before finalize_period.
THEOREM ReportsAreExact ==
  ASSUME \A p, q \in Reporters : p = q
  PROVE  ReportSpec => []ReportsExact
<1> DEFINE J == ReportInv /\ CloseInv
<1>1. ReportInit => J BY UsageReportingAssumption, ReportStart
<1>2. J /\ [ReportNext]_reportVars => J'
  <2>1. OneReporter BY DEF OneReporter
  <2> QED BY <2>1, UsageReportingAssumption, ReportStepStays DEF ReportStays
<1>3. J => ReportsExact
  <2>1. CloseInv => FinalizedExact BY DEF CloseInv, FinalizedExact, Metered, BookedFor
  <2> QED BY <2>1, UsageReportingAssumption, ReportInvMeans DEF ReportsExact
<1> QED BY <1>1, <1>2, <1>3, PTL DEF ReportSpec
=============================================================================
