-------------------------- MODULE Arithmetic_proofs --------------------------
(***************************************************************************)
(* Facts about sums over finite sets of holders and about products,        *)
(* quotients and their rounding, for the component proofs.                 *)
(***************************************************************************)
EXTENDS AccountSums, MulDiv, Integers, FiniteSetTheorems, TLAPS

(* A holder has as many units as it has been assigned.                     *)
LEMMA UnitsOfCount ==
  ASSUME NEW f, NEW a, f[a] \in Nat
  PROVE  IsFiniteSet(UnitsOf(f, a)) /\ Cardinality(UnitsOf(f, a)) = f[a]
<1>1. IsFiniteSet({a}) /\ Cardinality({a}) = 1
  BY FS_Singleton
<1>2. IsFiniteSet(1 .. f[a]) /\ Cardinality(1 .. f[a]) = f[a]
  <2>1. IsFiniteSet(1 .. f[a])
          /\ Cardinality(1 .. f[a]) = IF 1 > f[a] THEN 0 ELSE f[a] - 1 + 1
    BY FS_Interval
  <2>2. QED BY <2>1
<1>3. IsFiniteSet({a} \X (1 .. f[a]))
        /\ Cardinality({a} \X (1 .. f[a])) = Cardinality({a}) * Cardinality(1 .. f[a])
  BY <1>1, <1>2, FS_Product
<1>4. QED BY <1>1, <1>2, <1>3 DEF UnitsOf

(* Finitely many holders have finitely many units.                         *)
LEMMA SumType ==
  ASSUME NEW f, NEW S, IsFiniteSet(S), \A a \in S : f[a] \in Nat
  PROVE  IsFiniteSet(Units(f, S)) /\ SumOver(f, S) \in Nat
<1> DEFINE Family == {UnitsOf(f, a) : a \in S}
<1>1. \A T \in Family : IsFiniteSet(T)
  BY UnitsOfCount
<1>2. IsFiniteSet(Family)
  <2> DEFINE of == [a \in S |-> UnitsOf(f, a)]
  <2>1. of \in Surjection(S, Family)
    BY DEF Surjection
  <2>2. QED BY <2>1, FS_Surjection
<1>3. IsFiniteSet(UNION Family)
  <2> HIDE DEF Family
  <2>1. QED BY <1>1, <1>2, FS_UNION
<1>4. IsFiniteSet(Units(f, S))
  BY <1>3 DEF Units
<1>5. QED BY <1>4, FS_CardinalityType DEF SumOver

(* Nobody holds nothing.                                                   *)
LEMMA SumEmpty ==
  ASSUME NEW f
  PROVE  SumOver(f, {}) = 0
<1>1. Units(f, {}) = {}
  BY DEF Units
<1>2. QED BY <1>1, FS_EmptySet DEF SumOver

(* A sum depends only on the values at the members of the set.             *)
LEMMA SumSame ==
  ASSUME NEW f, NEW g, NEW S, \A a \in S : f[a] = g[a]
  PROVE  SumOver(f, S) = SumOver(g, S)
<1>1. Units(f, S) = Units(g, S)
  BY DEF Units, UnitsOf
<1>2. QED BY <1>1 DEF SumOver

(* A sum of zeros is zero.                                                 *)
LEMMA SumZero ==
  ASSUME NEW f, NEW S, \A a \in S : f[a] = 0
  PROVE  SumOver(f, S) = 0
<1>1. Units(f, S) = {}
  BY DEF Units, UnitsOf
<1>2. QED BY <1>1, FS_EmptySet DEF SumOver

(* One holder's sum is what it holds.                                      *)
LEMMA SumSingleton ==
  ASSUME NEW f, NEW a, f[a] \in Nat
  PROVE  SumOver(f, {a}) = f[a]
<1>1. Units(f, {a}) = UnitsOf(f, a)
  BY DEF Units
<1>2. QED BY <1>1, UnitsOfCount DEF SumOver

(* The sum over disjoint sets is the sum of the sums.                      *)
LEMMA SumDisjoint ==
  ASSUME NEW f, NEW S, NEW T, IsFiniteSet(S), IsFiniteSet(T), S \cap T = {},
         \A a \in S \cup T : f[a] \in Nat
  PROVE  SumOver(f, S \cup T) = SumOver(f, S) + SumOver(f, T)
<1>1. Units(f, S \cup T) = Units(f, S) \cup Units(f, T)
  BY DEF Units
<1>2. Units(f, S) \cap Units(f, T) = {}
  <2>1. SUFFICES ASSUME NEW u, u \in Units(f, S), u \in Units(f, T)
                 PROVE  FALSE
    OBVIOUS
  <2>2. u[1] \in S
    BY <2>1 DEF Units, UnitsOf
  <2>3. u[1] \in T
    BY <2>1 DEF Units, UnitsOf
  <2>4. QED BY <2>2, <2>3
<1>3. IsFiniteSet(Units(f, S)) /\ IsFiniteSet(Units(f, T))
        /\ SumOver(f, S) \in Nat /\ SumOver(f, T) \in Nat
  BY SumType
<1>4. Cardinality(Units(f, S) \cup Units(f, T))
        = Cardinality(Units(f, S)) + Cardinality(Units(f, T))
            - Cardinality(Units(f, S) \cap Units(f, T))
  BY <1>3, FS_Union
<1>5. Cardinality({}) = 0
  BY FS_EmptySet
<1>6. Cardinality(Units(f, S \cup T)) = Cardinality(Units(f, S)) + Cardinality(Units(f, T))
  <2>1. Cardinality(Units(f, S)) \in Nat /\ Cardinality(Units(f, T)) \in Nat
    BY <1>3 DEF SumOver
  <2>2. Cardinality(Units(f, S) \cap Units(f, T)) = 0
    BY <1>2, <1>5
  <2>3. Cardinality(Units(f, S) \cup Units(f, T))
          = Cardinality(Units(f, S)) + Cardinality(Units(f, T))
    <3> HIDE DEF Units
    <3>1. QED BY <1>4, <2>1, <2>2
  <2>4. QED BY <1>1, <2>3
<1>7. QED BY <1>6 DEF SumOver

(* One member taken out of the sum.                                        *)
LEMMA SumSplit ==
  ASSUME NEW f, NEW S, NEW a \in S, IsFiniteSet(S), \A b \in S : f[b] \in Nat
  PROVE  /\ SumOver(f, S) = f[a] + SumOver(f, S \ {a})
         /\ SumOver(f, S \ {a}) \in Nat
<1>1. IsFiniteSet({a}) /\ IsFiniteSet(S \ {a})
  BY FS_Singleton, FS_RemoveElement
<1>2. {a} \cup (S \ {a}) = S /\ {a} \cap (S \ {a}) = {}
  OBVIOUS
<1>3. SumOver(f, {a} \cup (S \ {a})) = SumOver(f, {a}) + SumOver(f, S \ {a})
  BY <1>1, <1>2, SumDisjoint
<1>4. SumOver(f, {a}) = f[a]
  BY SumSingleton
<1>5. SumOver(f, S \ {a}) \in Nat
  BY <1>1, SumType
<1>6. QED BY <1>2, <1>3, <1>4, <1>5

(* Changing the value of one member changes the sum by as much.            *)
LEMMA SumUpdate ==
  ASSUME NEW f, NEW g, NEW S, NEW a \in S, IsFiniteSet(S),
         \A b \in S : f[b] \in Nat, \A b \in S : g[b] \in Nat,
         \A b \in S \ {a} : g[b] = f[b]
  PROVE  SumOver(g, S) = SumOver(f, S) - f[a] + g[a]
<1>1. /\ SumOver(f, S) = f[a] + SumOver(f, S \ {a})
      /\ SumOver(f, S \ {a}) \in Nat
  BY SumSplit
<1>2. /\ SumOver(g, S) = g[a] + SumOver(g, S \ {a})
      /\ SumOver(g, S \ {a}) \in Nat
  BY SumSplit
<1>3. SumOver(f, S \ {a}) = SumOver(g, S \ {a})
  BY SumSame
<1>4. QED BY <1>1, <1>2, <1>3

(* No member holds more than the total.                                    *)
LEMMA SumMember ==
  ASSUME NEW f, NEW S, NEW a \in S, IsFiniteSet(S), \A b \in S : f[b] \in Nat
  PROVE  f[a] <= SumOver(f, S)
<1>1. f[a] \in Nat
  OBVIOUS
<1>2. /\ SumOver(f, S) = f[a] + SumOver(f, S \ {a})
      /\ SumOver(f, S \ {a}) \in Nat
  BY SumSplit
<1>3. QED BY <1>1, <1>2

(* A part of the holders holds no more than all of them.                   *)
LEMMA SumSubset ==
  ASSUME NEW f, NEW S, NEW T, T \subseteq S, IsFiniteSet(S), \A b \in S : f[b] \in Nat
  PROVE  /\ SumOver(f, S) = SumOver(f, T) + SumOver(f, S \ T)
         /\ SumOver(f, T) \in Nat /\ SumOver(f, S \ T) \in Nat
<1>1. IsFiniteSet(T) /\ IsFiniteSet(S \ T)
  BY FS_Subset, FS_Difference
<1>2. T \cup (S \ T) = S /\ T \cap (S \ T) = {}
  OBVIOUS
<1>3. SumOver(f, T \cup (S \ T)) = SumOver(f, T) + SumOver(f, S \ T)
  BY <1>1, <1>2, SumDisjoint
<1>4. SumOver(f, T) \in Nat /\ SumOver(f, S \ T) \in Nat
  BY <1>1, SumType
<1>5. QED BY <1>2, <1>3, <1>4

(* Sums add member by member: h is f plus g.  The units that g adds to     *)
(* those of f are numbered from f[a] + 1 on; shifting them down gives the  *)
(* units of g.                                                             *)
LEMMA SumAdd ==
  ASSUME NEW f, NEW g, NEW h, NEW S, IsFiniteSet(S),
         \A a \in S : f[a] \in Nat /\ g[a] \in Nat /\ h[a] = f[a] + g[a]
  PROVE  SumOver(h, S) = SumOver(f, S) + SumOver(g, S)
<1> DEFINE Upper == UNION {{a} \X ((f[a] + 1) .. (f[a] + g[a])) : a \in S}
<1> DEFINE Shift == [u \in Units(g, S) |-> <<u[1], u[2] + f[u[1]]>>]
<1>1. \A u \in Units(g, S) :
        u[1] \in S /\ u[2] \in 1 .. g[u[1]] /\ u = <<u[1], u[2]>>
  BY DEF Units, UnitsOf
<1>2. \A u \in Upper :
        u[1] \in S /\ u[2] \in (f[u[1]] + 1) .. (f[u[1]] + g[u[1]]) /\ u = <<u[1], u[2]>>
  OBVIOUS
<1>3. \A a \in S : \A i \in 1 .. g[a] : <<a, i>> \in Units(g, S)
  BY DEF Units, UnitsOf
<1>4. \A a \in S : \A i \in (f[a] + 1) .. (f[a] + g[a]) : <<a, i>> \in Upper
  OBVIOUS
<1>5. Shift \in Bijection(Units(g, S), Upper)
  <2> HIDE DEF Upper
  <2>1. Shift \in [Units(g, S) -> Upper]
    <3>1. SUFFICES ASSUME NEW u \in Units(g, S)
                   PROVE  <<u[1], u[2] + f[u[1]]>> \in Upper
      OBVIOUS
    <3>2. u[1] \in S /\ u[2] \in 1 .. g[u[1]]
      BY <1>1
    <3>3. u[2] + f[u[1]] \in (f[u[1]] + 1) .. (f[u[1]] + g[u[1]])
      BY <3>2
    <3>4. QED BY <3>2, <3>3, <1>4
  <2>2. ASSUME NEW u \in Units(g, S), NEW w \in Units(g, S), Shift[u] = Shift[w]
        PROVE  u = w
    <3>1. u[1] = w[1] /\ u[2] + f[u[1]] = w[2] + f[w[1]]
      BY <2>2
    <3>2. u[2] = w[2]
      <4>1. u[1] \in S /\ u[2] \in 1 .. g[u[1]] /\ w[2] \in 1 .. g[w[1]]
        BY <1>1
      <4>2. u[2] \in Int /\ w[2] \in Int /\ f[u[1]] \in Int
        BY <4>1
      <4>3. QED BY <3>1, <4>2
    <3>3. QED BY <1>1, <3>1, <3>2
  <2>3. ASSUME NEW v \in Upper
        PROVE  \E u \in Units(g, S) : Shift[u] = v
    <3>1. /\ v[1] \in S /\ v = <<v[1], v[2]>>
          /\ v[2] \in (f[v[1]] + 1) .. (f[v[1]] + g[v[1]])
      BY <1>2, <2>3 DEF Upper
    <3>2. v[2] - f[v[1]] \in 1 .. g[v[1]]
      BY <3>1
    <3>3. <<v[1], v[2] - f[v[1]]>> \in Units(g, S)
      BY <3>1, <3>2, <1>3
    <3>4. Shift[<<v[1], v[2] - f[v[1]]>>] = <<v[1], v[2] - f[v[1]] + f[v[1]]>>
      BY <3>3
    <3>5. v[2] - f[v[1]] + f[v[1]] = v[2]
      BY <3>1
    <3>6. QED BY <3>1, <3>3, <3>4, <3>5
  <2>4. QED BY <2>1, <2>2, <2>3 DEF Bijection, Injection, Surjection, IsInjective
<1>6. Units(h, S) = Units(f, S) \cup Upper
  <2>1. \A a \in S : 1 .. h[a] = (1 .. f[a]) \cup ((f[a] + 1) .. (f[a] + g[a]))
    OBVIOUS
  <2>2. \A a \in S :
          {a} \X (1 .. h[a]) = ({a} \X (1 .. f[a])) \cup ({a} \X ((f[a] + 1) .. (f[a] + g[a])))
    BY <2>1
  <2>3. QED BY <2>2 DEF Units, UnitsOf
<1>7. Units(f, S) \cap Upper = {}
  <2>1. SUFFICES ASSUME NEW u, u \in Units(f, S), u \in Upper
                 PROVE  FALSE
    OBVIOUS
  <2>2. u[1] \in S /\ u[2] \in 1 .. f[u[1]]
    BY <2>1 DEF Units, UnitsOf
  <2>3. u[2] \in (f[u[1]] + 1) .. (f[u[1]] + g[u[1]])
    BY <1>2, <2>1
  <2>4. QED BY <2>2, <2>3
<1>8. /\ IsFiniteSet(Units(f, S)) /\ Cardinality(Units(f, S)) \in Nat
      /\ IsFiniteSet(Units(g, S)) /\ Cardinality(Units(g, S)) \in Nat
  BY SumType DEF SumOver
<1>9. IsFiniteSet(Upper) /\ Cardinality(Upper) = Cardinality(Units(g, S))
  BY <1>5, <1>8, FS_Bijection DEF ExistsBijection
<1>10. Cardinality(Units(f, S) \cup Upper)
         = Cardinality(Units(f, S)) + Cardinality(Upper) - Cardinality(Units(f, S) \cap Upper)
  BY <1>8, <1>9, FS_Union
<1>11. Cardinality(Units(f, S) \cap Upper) = 0
  BY <1>7, FS_EmptySet
<1>12. QED
  <2> HIDE DEF Upper
  <2>1. Cardinality(Units(h, S)) = Cardinality(Units(f, S)) + Cardinality(Units(g, S))
    BY <1>6, <1>8, <1>9, <1>10, <1>11
  <2>2. QED BY <2>1 DEF SumOver

(* When f becomes g on T, its sum loses what T held and gains what T holds *)
(* now.                                                                    *)
LEMMA SumReplaced ==
  ASSUME NEW f, NEW g, NEW old, NEW new, NEW S, NEW T, T \subseteq S, IsFiniteSet(S),
         \A a \in S : f[a] \in Nat, \A a \in S : g[a] \in Nat,
         \A a \in S \ T : g[a] = f[a],
         \A a \in T : old[a] = f[a] /\ new[a] = g[a]
  PROVE  /\ SumOver(g, S) = SumOver(f, S) - SumOver(old, T) + SumOver(new, T)
         /\ SumOver(f, S) \in Nat /\ SumOver(old, T) \in Nat /\ SumOver(new, T) \in Nat
         /\ SumOver(old, T) <= SumOver(f, S)
<1>1. /\ SumOver(f, S) = SumOver(f, T) + SumOver(f, S \ T)
      /\ SumOver(f, T) \in Nat /\ SumOver(f, S \ T) \in Nat
  BY SumSubset
<1>2. /\ SumOver(g, S) = SumOver(g, T) + SumOver(g, S \ T)
      /\ SumOver(g, T) \in Nat /\ SumOver(g, S \ T) \in Nat
  BY SumSubset
<1>3. SumOver(g, S \ T) = SumOver(f, S \ T)
  BY SumSame
<1>4. SumOver(old, T) = SumOver(f, T)
  BY SumSame
<1>5. SumOver(new, T) = SumOver(g, T)
  BY SumSame
<1>6. QED BY <1>1, <1>2, <1>3, <1>4, <1>5

(* A sum grows with its terms.                                             *)
LEMMA SumMonotone ==
  ASSUME NEW f, NEW g, NEW S, IsFiniteSet(S),
         \A a \in S : f[a] \in Nat, \A a \in S : g[a] \in Nat,
         \A a \in S : f[a] <= g[a]
  PROVE  SumOver(f, S) <= SumOver(g, S)
<1> DEFINE d == [a \in S |-> g[a] - f[a]]
<1>1. \A a \in S : f[a] \in Nat /\ d[a] \in Nat /\ g[a] = f[a] + d[a]
  OBVIOUS
<1>2. \A a \in S : d[a] \in Nat
  BY <1>1
<1> HIDE DEF d
<1>3. SumOver(g, S) = SumOver(f, S) + SumOver(d, S)
  BY <1>1, SumAdd
<1>4. SumOver(f, S) \in Nat
  BY SumType
<1>5. SumOver(d, S) \in Nat
  BY <1>2, SumType
<1>6. QED BY <1>3, <1>4, <1>5

(* Sums over sets that match one to one, member by member of equal worth,  *)
(* are equal: the units match one to one too.                              *)
LEMMA SumMatched ==
  ASSUME NEW f, NEW g, NEW S, NEW T, NEW h \in Bijection(S, T), IsFiniteSet(S),
         \A a \in S : f[a] \in Nat, \A a \in S : f[a] = g[h[a]]
  PROVE  SumOver(f, S) = SumOver(g, T)
<1> DEFINE Match == [u \in Units(f, S) |-> <<h[u[1]], u[2]>>]
<1>1. /\ h \in [S -> T]
      /\ \A a, b \in S : h[a] = h[b] => a = b
      /\ \A t \in T : \E a \in S : h[a] = t
  BY DEF Bijection, Injection, Surjection, IsInjective
<1>2. \A u \in Units(f, S) : u[1] \in S /\ u[2] \in 1 .. f[u[1]] /\ u = <<u[1], u[2]>>
  BY DEF Units, UnitsOf
<1>3. \A u \in Units(g, T) : u[1] \in T /\ u[2] \in 1 .. g[u[1]] /\ u = <<u[1], u[2]>>
  BY DEF Units, UnitsOf
<1>4. \A a \in S : \A i \in 1 .. f[a] : <<a, i>> \in Units(f, S)
  BY DEF Units, UnitsOf
<1>5. \A t \in T : \A i \in 1 .. g[t] : <<t, i>> \in Units(g, T)
  BY DEF Units, UnitsOf
<1>6. Match \in Bijection(Units(f, S), Units(g, T))
  <2>1. Match \in [Units(f, S) -> Units(g, T)]
    <3>1. SUFFICES ASSUME NEW u \in Units(f, S)
                   PROVE  <<h[u[1]], u[2]>> \in Units(g, T)
      OBVIOUS
    <3>2. u[1] \in S /\ u[2] \in 1 .. f[u[1]]
      BY <1>2
    <3>3. h[u[1]] \in T /\ g[h[u[1]]] = f[u[1]]
      BY <3>2, <1>1
    <3>4. QED BY <3>2, <3>3, <1>5
  <2>2. ASSUME NEW u \in Units(f, S), NEW w \in Units(f, S), Match[u] = Match[w]
        PROVE  u = w
    <3>1. h[u[1]] = h[w[1]] /\ u[2] = w[2]
      BY <2>2
    <3>2. u[1] = w[1]
      BY <3>1, <1>1, <1>2
    <3>3. QED BY <1>2, <3>1, <3>2
  <2>3. ASSUME NEW v \in Units(g, T)
        PROVE  \E u \in Units(f, S) : Match[u] = v
    <3>1. v[1] \in T /\ v[2] \in 1 .. g[v[1]] /\ v = <<v[1], v[2]>>
      BY <1>3
    <3>2. PICK a \in S : h[a] = v[1]
      BY <3>1, <1>1
    <3>3. <<a, v[2]>> \in Units(f, S)
      BY <3>1, <3>2, <1>4
    <3>4. Match[<<a, v[2]>>] = <<h[a], v[2]>>
      BY <3>3
    <3>5. QED BY <3>1, <3>2, <3>3, <3>4
  <2>4. QED BY <2>1, <2>2, <2>3 DEF Bijection, Injection, Surjection, IsInjective
<1>7. IsFiniteSet(Units(f, S))
  BY SumType
<1>8. Cardinality(Units(g, T)) = Cardinality(Units(f, S))
  BY <1>6, <1>7, FS_Bijection DEF ExistsBijection
<1>9. QED BY <1>8 DEF SumOver

(* The sum of a function that marks the members of a set is their number.  *)
LEMMA SumMembers ==
  ASSUME NEW f, NEW S, NEW T \in SUBSET S, IsFiniteSet(S),
         \A a \in T : f[a] = 1, \A a \in S \ T : f[a] = 0
  PROVE  SumOver(f, S) = Cardinality(T) /\ Cardinality(T) \in Nat
<1> DEFINE Mark == [a \in T |-> <<a, 1>>]
<1>1. IsFiniteSet(T)
  BY FS_Subset
<1>2. Cardinality(T) \in Nat
  BY <1>1, FS_CardinalityType
<1>3. Units(f, S) = {<<a, 1>> : a \in T}
  <2>1. \A a \in T : UnitsOf(f, a) = {<<a, 1>>}
    BY DEF UnitsOf
  <2>2. \A a \in S \ T : UnitsOf(f, a) = {}
    BY DEF UnitsOf
  <2>3. QED BY <2>1, <2>2 DEF Units
<1>4. Mark \in Bijection(T, Units(f, S))
  BY <1>3 DEF Bijection, Injection, Surjection, IsInjective
<1>5. ExistsBijection(T, Units(f, S))
  BY <1>4 DEF ExistsBijection
<1>6. Cardinality(Units(f, S)) = Cardinality(T)
  BY <1>1, <1>5, FS_Bijection
<1>7. QED BY <1>2, <1>6 DEF SumOver

-----------------------------------------------------------------------------

(* The quotient of a division, and what the remainder leaves.              *)
LEMMA DivFacts ==
  ASSUME NEW a \in Nat, NEW d \in Nat \ {0}
  PROVE  /\ a \div d \in Nat
         /\ d * (a \div d) <= a
         /\ a < d * (a \div d) + d
  BY Z3

LEMMA ProductNat ==
  ASSUME NEW a \in Nat, NEW b \in Nat
  PROVE  a * b \in Nat
  BY Z3

LEMMA MulDivType ==
  ASSUME NEW a \in Nat, NEW b \in Nat, NEW d \in Nat \ {0}
  PROVE  MulDivFloor(a, b, d) \in Nat /\ MulDivCeil(a, b, d) \in Nat
<1>1. a * b \in Nat /\ a * b + d - 1 \in Nat
  BY ProductNat
<1>2. QED BY <1>1, DivFacts DEF MulDivFloor, MulDivCeil

(* A quotient of at least the divisor is at least one.                     *)
LEMMA DivPositive ==
  ASSUME NEW a \in Nat, NEW d \in Nat \ {0}, a >= d
  PROVE  a \div d >= 1
  BY DivFacts, Z3

(* mulDiv rounded down never exceeds the exact ratio, rounded up it never  *)
(* falls short of it, and neither is off by a whole unit.                  *)
LEMMA MulDivBounds ==
  ASSUME NEW a \in Nat, NEW b \in Nat, NEW d \in Nat \ {0}
  PROVE  /\ d * MulDivFloor(a, b, d) <= a * b
         /\ a * b < d * MulDivFloor(a, b, d) + d
         /\ d * MulDivCeil(a, b, d) >= a * b
         /\ d * MulDivCeil(a, b, d) < a * b + d
<1>1. a * b \in Nat /\ a * b + d - 1 \in Nat
  BY ProductNat
<1>2. QED BY <1>1, DivFacts DEF MulDivFloor, MulDivCeil

-----------------------------------------------------------------------------
(* Sums in proportion.                                                     *)

(* Members whose values are in a proportion have sums in this proportion.  *)
(* A smallest set for which this failed would have a member to take away.  *)
LEMMA SumProportion ==
  ASSUME NEW f, NEW g, NEW S, IsFiniteSet(S), NEW p \in Nat, NEW q \in Nat,
         \A a \in S : f[a] \in Nat /\ g[a] \in Nat /\ f[a] * p <= q * g[a]
  PROVE  SumOver(f, S) * p <= q * SumOver(g, S)
<1> DEFINE Holds(T) == SumOver(f, T) * p <= q * SumOver(g, T)
           Bad == {T \in SUBSET S : ~Holds(T)}
           R == StrictSubsetOrdering(S)
<1>1. SUFFICES ASSUME Bad # {} PROVE FALSE
  OBVIOUS
<1>2. PICK T \in Bad : \A U \in Bad : <<U, T>> \notin R
  <2>1. IsWellFoundedOn(R, SUBSET S)
    BY FS_StrictSubsetOrderingWellFounded, FS_FiniteSubsetsOfFinite
  <2>2. Bad \subseteq SUBSET S
    OBVIOUS
  <2> HIDE DEF Bad, R
  <2>3. QED BY <1>1, <2>1, <2>2, WFMin
<1>3. T \in SUBSET S /\ IsFiniteSet(T) /\ ~Holds(T)
  BY <1>2, FS_Subset
<1>4. T # {}
  <2>1. SumOver(f, {}) = 0 /\ SumOver(g, {}) = 0
    BY SumEmpty
  <2>2. 0 * p <= q * 0
    OBVIOUS
  <2>3. Holds({})
    BY <2>1, <2>2
  <2>4. QED BY <1>3, <2>3
<1>5. PICK a \in T : TRUE
  BY <1>4
<1>6. Holds(T \ {a})
  <2>1. T \ {a} \in SUBSET S /\ T \ {a} \subseteq T /\ T \ {a} # T
    BY <1>3, <1>5
  <2>2. <<T \ {a}, T>> \in R
    BY <1>3, <2>1 DEF StrictSubsetOrdering
  <2>3. T \ {a} \notin Bad
    BY <1>2, <2>2
  <2>4. QED BY <2>1, <2>3
<1>7. /\ SumOver(f, T) = f[a] + SumOver(f, T \ {a}) /\ SumOver(f, T \ {a}) \in Nat
      /\ SumOver(g, T) = g[a] + SumOver(g, T \ {a}) /\ SumOver(g, T \ {a}) \in Nat
  <2>1. \A b \in T : f[b] \in Nat
    BY <1>3
  <2>2. \A b \in T : g[b] \in Nat
    BY <1>3
  <2>3. a \in T /\ IsFiniteSet(T)
    BY <1>3, <1>5
  <2>4. /\ SumOver(f, T) = f[a] + SumOver(f, T \ {a}) /\ SumOver(f, T \ {a}) \in Nat
    BY <2>1, <2>3, SumSplit
  <2>5. /\ SumOver(g, T) = g[a] + SumOver(g, T \ {a}) /\ SumOver(g, T \ {a}) \in Nat
    BY <2>2, <2>3, SumSplit
  <2>6. QED BY <2>4, <2>5
<1>8. Holds(T)
  <2> DEFINE F == SumOver(f, T \ {a})
             G == SumOver(g, T \ {a})
  <2>1. /\ f[a] \in Nat /\ g[a] \in Nat /\ f[a] * p <= q * g[a]
        /\ F \in Nat /\ G \in Nat /\ F * p <= q * G
    BY <1>3, <1>5, <1>6, <1>7
  <2> HIDE DEF F, G
  <2>2. (f[a] + F) * p = f[a] * p + F * p /\ q * (g[a] + G) = q * g[a] + q * G
    BY <2>1, Z3
  <2>3. f[a] * p \in Nat /\ F * p \in Nat /\ q * g[a] \in Nat /\ q * G \in Nat
    BY <2>1, ProductNat
  <2>4. (f[a] + F) * p <= q * (g[a] + G)
    BY <2>1, <2>2, <2>3
  <2>5. QED BY <1>7, <2>4 DEF F, G
<1>9. QED BY <1>3, <1>8

(* Two members taken out of the sum.                                       *)
LEMMA SumSplitTwo ==
  ASSUME NEW f, NEW S, NEW a \in S, NEW b \in S, a # b, IsFiniteSet(S),
         \A c \in S : f[c] \in Nat
  PROVE  /\ SumOver(f, S) = f[a] + f[b] + SumOver(f, (S \ {a}) \ {b})
         /\ SumOver(f, (S \ {a}) \ {b}) \in Nat
<1>1. /\ SumOver(f, S) = f[a] + SumOver(f, S \ {a})
      /\ SumOver(f, S \ {a}) \in Nat
  <2>1. a \in S /\ IsFiniteSet(S) /\ \A c \in S : f[c] \in Nat
    OBVIOUS
  <2>2. QED BY ONLY <2>1, SumSplit
<1> DEFINE U == S \ {a}
<1>2. b \in U /\ IsFiniteSet(U) /\ \A c \in U : f[c] \in Nat
  BY FS_RemoveElement
<1> HIDE DEF U
<1>3. SumOver(f, U) = f[b] + SumOver(f, U \ {b}) /\ SumOver(f, U \ {b}) \in Nat
  BY <1>2, SumSplit
<1>4. f[a] \in Nat /\ f[b] \in Nat
  OBVIOUS
<1>5. QED BY <1>1, <1>3, <1>4 DEF U

(* What one holder gives another changes the sum by nothing.               *)
LEMMA SumTransfer ==
  ASSUME NEW f, NEW g, NEW S, NEW a \in S, NEW b \in S, NEW n \in Nat, a # b, IsFiniteSet(S),
         \A c \in S : f[c] \in Nat, \A c \in S : g[c] \in Nat,
         g[a] = f[a] - n, g[b] = f[b] + n, \A c \in S \ {a, b} : g[c] = f[c]
  PROVE  SumOver(g, S) = SumOver(f, S)
<1> DEFINE V == (S \ {a}) \ {b}
<1>1. SumOver(f, S) = f[a] + f[b] + SumOver(f, V) /\ SumOver(f, V) \in Nat
  BY SumSplitTwo
<1>2. SumOver(g, S) = g[a] + g[b] + SumOver(g, V)
  BY SumSplitTwo
<1>3. SumOver(g, V) = SumOver(f, V)
  <2>1. \A c \in V : g[c] = f[c]
    OBVIOUS
  <2>2. QED BY <2>1, SumSame
<1>4. f[a] \in Nat /\ f[b] \in Nat
  OBVIOUS
<1> HIDE DEF V
<1>5. QED BY <1>1, <1>2, <1>3, <1>4

(* A sum over the chosen members is a sum with zeros for the others.       *)
LEMMA SumChosen ==
  ASSUME NEW f, NEW g, NEW S, NEW T, T \subseteq S, IsFiniteSet(S),
         \A a \in T : f[a] \in Nat, \A a \in T : g[a] = f[a],
         \A a \in S \ T : g[a] = 0
  PROVE  SumOver(f, T) = SumOver(g, S) /\ SumOver(g, S) \in Nat
<1>1. \A a \in S : g[a] \in Nat
  OBVIOUS
<1>2. /\ SumOver(g, S) = SumOver(g, T) + SumOver(g, S \ T)
      /\ SumOver(g, T) \in Nat
  <2>1. SumOver(g, S) = SumOver(g, T) + SumOver(g, S \ T)
    BY <1>1, SumSubset
  <2>2. SumOver(g, T) \in Nat
    BY <1>1, SumSubset
  <2>3. QED BY <2>1, <2>2
<1>3. SumOver(g, S \ T) = 0
  BY SumZero
<1>4. SumOver(f, T) = SumOver(g, T)
  BY SumSame
<1>5. QED BY <1>2, <1>3, <1>4

(* Sums keep to a bound that every member keeps to.                        *)
LEMMA SumBounded ==
  ASSUME NEW f, NEW g, NEW h, NEW S, IsFiniteSet(S),
         \A a \in S : f[a] \in Nat, \A a \in S : g[a] \in Nat, \A a \in S : h[a] \in Nat,
         \A a \in S : f[a] <= g[a] + h[a]
  PROVE  /\ SumOver(f, S) <= SumOver(g, S) + SumOver(h, S)
         /\ SumOver(f, S) \in Nat /\ SumOver(g, S) \in Nat /\ SumOver(h, S) \in Nat
<1> DEFINE t == [a \in S |-> g[a] + h[a]]
<1>1. \A a \in S : t[a] = g[a] + h[a]
  OBVIOUS
<1> HIDE DEF t
<1>2. \A a \in S : t[a] \in Nat /\ f[a] <= t[a]
  BY <1>1
<1>3. SumOver(f, S) <= SumOver(t, S)
  BY <1>2, SumMonotone
<1>4. SumOver(t, S) = SumOver(g, S) + SumOver(h, S)
  BY <1>1, SumAdd
<1>5. SumOver(f, S) \in Nat /\ SumOver(g, S) \in Nat /\ SumOver(h, S) \in Nat
  BY SumType
<1>6. QED BY <1>3, <1>4, <1>5
=============================================================================
