------------------------ MODULE LendingMarketProofs ------------------------
(***************************************************************************)
(* Proofs about LendingMarket, for every set of reserves, obligations,     *)
(* keys, amounts, prices and configurations: what the calculations and     *)
(* the position lists of obligations return; that prices and recorded      *)
(* values are fresh when used; that the vault holds what the reserve says; *)
(* that the position lists fit their account, list the heaviest debt first *)
(* and an isolated asset alone; and that no debt is ahead of its reserve.  *)
(***************************************************************************)
EXTENDS LendingMarket, ReserveProofs, FiniteSetTheorems, SequenceTheorems

-----------------------------------------------------------------------------
(* Sets of numbers.                                                        *)

\* A set of natural numbers that is not empty holds its minimum.
LEMMA MinInSet ==
    ASSUME NEW S \in SUBSET Nat, S # {}
    PROVE  Min(S) \in S
<1>1. \E x \in S : \A y \in S : ~(<<y, x>> \in OpToRel(<, Nat))
    BY WFMin, NatLessThanWellFounded
<1>2. PICK x \in S : \A y \in S : ~(y < x)
    BY <1>1 DEF OpToRel
<1>3. \A y \in S : x <= y
    BY <1>2
<1> QED BY <1>3 DEF Min

\* It is the least.
LEMMA MinBelow ==
    ASSUME NEW S \in SUBSET Nat, NEW y \in S
    PROVE  Min(S) <= y
<1>1. \E x \in S : \A z \in S : ~(<<z, x>> \in OpToRel(<, Nat))
    BY WFMin, NatLessThanWellFounded
<1>2. PICK x \in S : \A z \in S : ~(z < x)
    BY <1>1 DEF OpToRel
<1>3. \A z \in S : x <= z
    BY <1>2
<1> QED BY <1>3 DEF Min

-----------------------------------------------------------------------------
(* Sums.  SumFunctionOnSet folds a function over a set in the order of     *)
(* CHOOSE; what it returns does not depend on that order.                  *)

Some(s) == CHOOSE x \in s : TRUE

\* it folds f over every subset of S
Folds(f, S, it) ==
    it = [s \in SUBSET S |-> IF s = {} THEN 0 ELSE f[Some(s)] + it[s \ {Some(s)}]]

\* A sum is the fold that MapThenFoldSet chooses.
LEMMA SumIsFold ==
    ASSUME NEW f, NEW S
    PROVE  SumFunctionOnSet(f, S) = (CHOOSE it : Folds(f, S, it))[S]
<1> QED BY DEF SumFunctionOnSet, FoldFunctionOnSet, MapThenFoldSet, Folds, Some

\* Taking an element out of a finite set.
LEMMA RemoveOne ==
    ASSUME NEW S, IsFiniteSet(S), S # {}
    PROVE  /\ Some(S) \in S
           /\ IsFiniteSet(S \ {Some(S)})
           /\ Cardinality(S) \in Nat /\ Cardinality(S) > 0
           /\ Cardinality(S \ {Some(S)}) = Cardinality(S) - 1
<1>1. Some(S) \in S
    BY DEF Some
<1>2. Cardinality(S) \in Nat
    BY FS_CardinalityType
<1>3. IsFiniteSet(S \ {Some(S)}) /\ Cardinality(S \ {Some(S)}) = Cardinality(S) - 1
    BY <1>1, FS_RemoveElement
<1>4. Cardinality(S) # 0
    BY FS_EmptySet
<1> QED BY <1>1, <1>2, <1>3, <1>4

\* The fold exists over every finite set.
LEMMA FoldExists ==
    ASSUME NEW f, NEW S, IsFiniteSet(S)
    PROVE  \E it : Folds(f, S, it)
<1> DEFINE Body(g, s) == IF s = {} THEN 0 ELSE f[Some(s)] + g[s \ {Some(s)}]
           UpTo(n) == \E g : \A s \in SUBSET S : Cardinality(s) <= n => g[s] = Body(g, s)
           P == {n \in Nat : UpTo(n)}
<1>0. \A s \in SUBSET S : IsFiniteSet(s) /\ Cardinality(s) \in Nat
                          /\ Cardinality(s) <= Cardinality(S)
    BY FS_Subset, FS_CardinalityType
<1>1. UpTo(0)
    <2>1. PICK g : g = [s \in SUBSET S |-> 0]
        OBVIOUS
    <2>2. \A s \in SUBSET S : Cardinality(s) <= 0 => s = {}
        BY <1>0, FS_EmptySet
    <2>3. \A s \in SUBSET S : Cardinality(s) <= 0 => g[s] = Body(g, s)
        BY <2>1, <2>2
    <2> QED BY <2>3
<1>2. ASSUME NEW n \in Nat, UpTo(n) PROVE UpTo(n + 1)
    <2>1. PICK g : \A s \in SUBSET S : Cardinality(s) <= n => g[s] = Body(g, s)
        BY <1>2
    <2>2. PICK h : h = [s \in SUBSET S |-> IF Cardinality(s) <= n THEN g[s] ELSE Body(g, s)]
        OBVIOUS
    <2>3. ASSUME NEW s \in SUBSET S, Cardinality(s) <= n + 1 PROVE h[s] = Body(h, s)
        <3>1. CASE s = {}
            BY <2>1, <2>2, <3>1
        <3>2. CASE s # {}
            <4>1. /\ s \ {Some(s)} \in SUBSET S /\ Cardinality(s) \in Nat
                  /\ Cardinality(s \ {Some(s)}) = Cardinality(s) - 1
                BY <1>0, <3>2, RemoveOne
            <4>2. Cardinality(s \ {Some(s)}) <= n
                BY <2>3, <4>1
            <4>3. h[s \ {Some(s)}] = g[s \ {Some(s)}]
                BY <2>2, <4>1, <4>2
            <4>4. h[s] = Body(g, s)
                BY <2>1, <2>2
            <4> QED BY <3>2, <4>3, <4>4
        <3> QED BY <3>1, <3>2
    <2> HIDE DEF Body
    <2> QED BY <2>3
<1> HIDE DEF UpTo
<1>3. 0 \in P /\ \A n \in P : n + 1 \in P
    BY <1>1, <1>2
<1>4. \A n \in Nat : n \in P
    BY <1>3, NatSetInduction
<1>5. UpTo(Cardinality(S))
    BY <1>4, FS_CardinalityType
<1>6. PICK g : \A s \in SUBSET S : Cardinality(s) <= Cardinality(S) => g[s] = Body(g, s)
    BY <1>5 DEF UpTo
<1>7. PICK it : it = [s \in SUBSET S |-> g[s]]
    OBVIOUS
<1>8. \A s \in SUBSET S : it[s] = Body(it, s)
    <2> SUFFICES ASSUME NEW s \in SUBSET S PROVE it[s] = Body(it, s)
        OBVIOUS
    <2>1. s \ {Some(s)} \in SUBSET S
        OBVIOUS
    <2>2. g[s] = Body(g, s)
        BY <1>0, <1>6
    <2> QED BY <1>7, <2>1, <2>2
<1>9. Folds(f, S, it)
    BY <1>7, <1>8 DEF Folds
<1> QED BY <1>9

\* Over the subsets of a smaller set the fold is the same.
LEMMA FoldOfSubset ==
    ASSUME NEW f, NEW S, IsFiniteSet(S), NEW T \in SUBSET S,
           NEW it, Folds(f, S, it), NEW jt, Folds(f, T, jt)
    PROVE  it[T] = jt[T]
<1> DEFINE P == {n \in Nat : \A s \in SUBSET T : Cardinality(s) <= n => it[s] = jt[s]}
<1>0. \A s \in SUBSET T : s \in SUBSET S /\ IsFiniteSet(s) /\ Cardinality(s) \in Nat
    BY FS_Subset, FS_CardinalityType
<1>1. \A s \in SUBSET T :
         /\ it[s] = IF s = {} THEN 0 ELSE f[Some(s)] + it[s \ {Some(s)}]
         /\ jt[s] = IF s = {} THEN 0 ELSE f[Some(s)] + jt[s \ {Some(s)}]
    BY <1>0 DEF Folds
<1>2. 0 \in P
    <2>1. \A s \in SUBSET T : Cardinality(s) <= 0 => s = {}
        BY <1>0, FS_EmptySet
    <2> QED BY <1>1, <2>1
<1>3. ASSUME NEW n \in P PROVE n + 1 \in P
    <2> SUFFICES ASSUME NEW s \in SUBSET T, Cardinality(s) <= n + 1 PROVE it[s] = jt[s]
        OBVIOUS
    <2>1. CASE s = {}
        BY <1>1, <2>1
    <2>2. CASE s # {}
        <3>1. s \ {Some(s)} \in SUBSET T /\ Cardinality(s \ {Some(s)}) <= n
            BY <1>0, <2>2, RemoveOne
        <3> QED BY <1>1, <1>3, <2>2, <3>1
    <2> QED BY <2>1, <2>2
<1>4. \A n \in Nat : n \in P
    BY <1>2, <1>3, NatSetInduction
<1>5. T \in SUBSET T /\ Cardinality(T) \in Nat /\ Cardinality(T) <= Cardinality(T)
    BY <1>0
<1> QED BY <1>4, <1>5

\* A sum is nothing, or one value and the sum of the others.
LEMMA SumStep ==
    ASSUME NEW f, NEW S, IsFiniteSet(S)
    PROVE  /\ S = {} => SumFunctionOnSet(f, S) = 0
           /\ S # {} => SumFunctionOnSet(f, S)
                           = f[Some(S)] + SumFunctionOnSet(f, S \ {Some(S)})
<1> DEFINE T == S \ {Some(S)}
<1>1. IsFiniteSet(T) /\ T \in SUBSET S
    BY FS_Subset
<1>2. PICK it : Folds(f, S, it) /\ SumFunctionOnSet(f, S) = it[S]
    BY FoldExists, SumIsFold
<1>3. PICK jt : Folds(f, T, jt) /\ SumFunctionOnSet(f, T) = jt[T]
    BY <1>1, FoldExists, SumIsFold
<1>4. it[T] = jt[T]
    BY <1>1, <1>2, <1>3, FoldOfSubset
<1>5. it[S] = IF S = {} THEN 0 ELSE f[Some(S)] + it[T]
    BY <1>2 DEF Folds
<1> QED BY <1>2, <1>3, <1>4, <1>5

\* A sum of natural numbers is one.
LEMMA SumNat ==
    ASSUME NEW f, NEW S, IsFiniteSet(S), \A x \in S : f[x] \in Nat
    PROVE  SumFunctionOnSet(f, S) \in Nat
<1> DEFINE P == {n \in Nat : \A T \in SUBSET S :
                    Cardinality(T) = n => SumFunctionOnSet(f, T) \in Nat}
<1>0. \A T \in SUBSET S : IsFiniteSet(T) /\ Cardinality(T) \in Nat
    BY FS_Subset, FS_CardinalityType
<1>1. 0 \in P
    <2>1. \A T \in SUBSET S : Cardinality(T) = 0 => T = {}
        BY <1>0, FS_EmptySet
    <2> QED BY <1>0, <2>1, SumStep
<1>2. ASSUME NEW n \in P PROVE n + 1 \in P
    <2> SUFFICES ASSUME NEW T \in SUBSET S, Cardinality(T) = n + 1
        PROVE  SumFunctionOnSet(f, T) \in Nat
        OBVIOUS
    <2>1. T # {}
        BY FS_EmptySet
    <2>2. Some(T) \in T /\ T \ {Some(T)} \in SUBSET S /\ Cardinality(T \ {Some(T)}) = n
        BY <1>0, <2>1, RemoveOne
    <2>3. SumFunctionOnSet(f, T \ {Some(T)}) \in Nat
        BY <1>2, <2>2
    <2>4. SumFunctionOnSet(f, T) = f[Some(T)] + SumFunctionOnSet(f, T \ {Some(T)})
        BY <1>0, <2>1, SumStep
    <2> QED BY <2>2, <2>3, <2>4
<1>3. \A n \in Nat : n \in P
    BY <1>1, <1>2, NatSetInduction
<1> QED BY <1>0, <1>3

\* Functions that agree on a set have the same sum over it.
LEMMA SumSame ==
    ASSUME NEW f, NEW g, NEW S, IsFiniteSet(S), \A x \in S : f[x] = g[x]
    PROVE  SumFunctionOnSet(f, S) = SumFunctionOnSet(g, S)
<1> DEFINE P == {n \in Nat : \A T \in SUBSET S :
                    Cardinality(T) = n => SumFunctionOnSet(f, T) = SumFunctionOnSet(g, T)}
<1>0. \A T \in SUBSET S : IsFiniteSet(T) /\ Cardinality(T) \in Nat
    BY FS_Subset, FS_CardinalityType
<1>1. 0 \in P
    <2>1. \A T \in SUBSET S : Cardinality(T) = 0 => T = {}
        BY <1>0, FS_EmptySet
    <2> QED BY <1>0, <2>1, SumStep
<1>2. ASSUME NEW n \in P PROVE n + 1 \in P
    <2> SUFFICES ASSUME NEW T \in SUBSET S, Cardinality(T) = n + 1
        PROVE  SumFunctionOnSet(f, T) = SumFunctionOnSet(g, T)
        OBVIOUS
    <2>1. T # {}
        BY FS_EmptySet
    <2>2. Some(T) \in T /\ T \ {Some(T)} \in SUBSET S /\ Cardinality(T \ {Some(T)}) = n
        BY <1>0, <2>1, RemoveOne
    <2>3. SumFunctionOnSet(f, T \ {Some(T)}) = SumFunctionOnSet(g, T \ {Some(T)})
        BY <1>2, <2>2
    <2>4. /\ SumFunctionOnSet(f, T) = f[Some(T)] + SumFunctionOnSet(f, T \ {Some(T)})
          /\ SumFunctionOnSet(g, T) = g[Some(T)] + SumFunctionOnSet(g, T \ {Some(T)})
        BY <1>0, <2>1, SumStep
    <2> QED BY <2>2, <2>3, <2>4
<1>3. \A n \in Nat : n \in P
    BY <1>1, <1>2, NatSetInduction
<1> QED BY <1>0, <1>3

\* Any value can be taken out of a sum, whatever the order of the fold.
LEMMA SumTakeOut ==
    ASSUME NEW f, NEW S, IsFiniteSet(S), \A x \in S : f[x] \in Nat, NEW x \in S
    PROVE  SumFunctionOnSet(f, S) = f[x] + SumFunctionOnSet(f, S \ {x})
<1> DEFINE P == {n \in Nat : \A T \in SUBSET S : \A y \in T :
                    Cardinality(T) = n =>
                        SumFunctionOnSet(f, T) = f[y] + SumFunctionOnSet(f, T \ {y})}
<1>0. \A T \in SUBSET S : IsFiniteSet(T) /\ Cardinality(T) \in Nat
    BY FS_Subset, FS_CardinalityType
<1>1. 0 \in P
    <2>1. \A T \in SUBSET S : Cardinality(T) = 0 => T = {}
        BY <1>0, FS_EmptySet
    <2> QED BY <2>1
<1>2. ASSUME NEW n \in P PROVE n + 1 \in P
    <2> SUFFICES ASSUME NEW T \in SUBSET S, NEW y \in T, Cardinality(T) = n + 1
        PROVE  SumFunctionOnSet(f, T) = f[y] + SumFunctionOnSet(f, T \ {y})
        OBVIOUS
    <2> DEFINE c == Some(T)
    <2>1. c \in T /\ T \ {c} \in SUBSET S /\ Cardinality(T \ {c}) = n
        BY <1>0, RemoveOne
    <2>2. SumFunctionOnSet(f, T) = f[c] + SumFunctionOnSet(f, T \ {c})
        BY <1>0, SumStep
    <2> HIDE DEF c
    <2>3. CASE c = y
        BY <2>2, <2>3
    <2>4. CASE c # y
        <3>1. y \in T \ {c} /\ c \in T \ {y}
            BY <2>1, <2>4
        <3>2. SumFunctionOnSet(f, T \ {c}) = f[y] + SumFunctionOnSet(f, (T \ {c}) \ {y})
            BY <1>2, <2>1, <3>1
        <3>3. Cardinality(T \ {y}) = n /\ T \ {y} \in SUBSET S
            <4>1. Cardinality(T \ {y}) = Cardinality(T) - 1
                BY <1>0, FS_RemoveElement
            <4> QED BY <1>2, <4>1
        <3>4. SumFunctionOnSet(f, T \ {y}) = f[c] + SumFunctionOnSet(f, (T \ {y}) \ {c})
            BY <1>2, <3>1, <3>3
        <3>5. (T \ {y}) \ {c} = (T \ {c}) \ {y} /\ (T \ {c}) \ {y} \in SUBSET S
            OBVIOUS
        <3>6. SumFunctionOnSet(f, (T \ {c}) \ {y}) \in Nat /\ f[c] \in Nat /\ f[y] \in Nat
            BY <1>0, <2>1, <3>5, SumNat
        <3> QED BY <2>2, <3>2, <3>4, <3>5, <3>6
    <2> QED BY <2>3, <2>4
<1>3. \A n \in Nat : n \in P
    BY <1>1, <1>2, NatSetInduction
<1> QED BY <1>0, <1>3

\* A sum changes by as much as one of its values does.
DiffersAt(x, S, f, g) ==
    /\ IsFiniteSet(S) /\ x \in S
    /\ \A y \in S : f[y] \in Nat /\ g[y] \in Nat
    /\ \A y \in S \ {x} : g[y] = f[y]

\* A function changed at one point changes its sum by as much.
LEMMA SumChange ==
    ASSUME NEW x, NEW S, NEW f, NEW g, DiffersAt(x, S, f, g)
    PROVE  SumFunctionOnSet(g, S) + f[x] = SumFunctionOnSet(f, S) + g[x]
<1> SUFFICES ASSUME IsFiniteSet(S), x \in S, \A y \in S : f[y] \in Nat /\ g[y] \in Nat,
                    \A y \in S \ {x} : g[y] = f[y]
    PROVE  SumFunctionOnSet(g, S) + f[x] = SumFunctionOnSet(f, S) + g[x]
    BY DEF DiffersAt
<1>1. IsFiniteSet(S \ {x})
    BY FS_RemoveElement
<1>2. SumFunctionOnSet(f, S \ {x}) = SumFunctionOnSet(g, S \ {x})
    BY <1>1, SumSame
<1>3. SumFunctionOnSet(f, S \ {x}) \in Nat
    BY <1>1, SumNat
<1>4. /\ SumFunctionOnSet(f, S) = f[x] + SumFunctionOnSet(f, S \ {x})
      /\ SumFunctionOnSet(g, S) = g[x] + SumFunctionOnSet(g, S \ {x})
    BY SumTakeOut
<1> QED BY <1>2, <1>3, <1>4

\* Zeros sum up to zero.
LEMMA SumOfZeros ==
    ASSUME NEW f, NEW S, IsFiniteSet(S), \A x \in S : f[x] = 0
    PROVE  SumFunctionOnSet(f, S) = 0
<1> DEFINE P == {n \in Nat : \A T \in SUBSET S :
                    Cardinality(T) = n => SumFunctionOnSet(f, T) = 0}
<1>0. \A T \in SUBSET S : IsFiniteSet(T) /\ Cardinality(T) \in Nat
    BY FS_Subset, FS_CardinalityType
<1>1. 0 \in P
    <2>1. \A T \in SUBSET S : Cardinality(T) = 0 => T = {}
        BY <1>0, FS_EmptySet
    <2> QED BY <1>0, <2>1, SumStep
<1>2. ASSUME NEW n \in P PROVE n + 1 \in P
    <2> SUFFICES ASSUME NEW T \in SUBSET S, Cardinality(T) = n + 1
        PROVE  SumFunctionOnSet(f, T) = 0
        OBVIOUS
    <2>1. T # {}
        BY FS_EmptySet
    <2>2. Some(T) \in T /\ T \ {Some(T)} \in SUBSET S /\ Cardinality(T \ {Some(T)}) = n
        BY <1>0, <2>1, RemoveOne
    <2>3. SumFunctionOnSet(f, T \ {Some(T)}) = 0
        BY <1>2, <2>2
    <2>4. SumFunctionOnSet(f, T) = f[Some(T)] + SumFunctionOnSet(f, T \ {Some(T)})
        BY <1>0, <2>1, SumStep
    <2> QED BY <2>2, <2>3, <2>4
<1>3. \A n \in Nat : n \in P
    BY <1>1, <1>2, NatSetInduction
<1> QED BY <1>0, <1>3

(***************************************************************************)
(* Numbering the elements of a set anew does not change a sum, and neither *)
(* do elements without value: m takes the positions S, with values g, one  *)
(* to one to those positions of T that count, with values f.               *)
(***************************************************************************)
Renumbers(m, S, g, T, f) ==
    /\ IsFiniteSet(S) /\ IsFiniteSet(T) /\ m \in [S -> T]
    /\ \A y \in T : f[y] \in Nat
    /\ \A x, y \in S : m[x] = m[y] => x = y
    /\ \A x \in S : g[x] = f[m[x]]
    /\ \A y \in T : (\A x \in S : m[x] # y) => f[y] = 0

\* The sum of the same numbers at other positions is the same.
LEMMA SumRenumbered ==
    ASSUME NEW m, NEW S, NEW g, NEW T, NEW f, Renumbers(m, S, g, T, f)
    PROVE  SumFunctionOnSet(g, S) = SumFunctionOnSet(f, T)
<1> SUFFICES ASSUME IsFiniteSet(S), IsFiniteSet(T), m \in [S -> T],
                    \A y \in T : f[y] \in Nat,
                    \A x, y \in S : m[x] = m[y] => x = y,
                    \A x \in S : g[x] = f[m[x]],
                    \A y \in T : (\A x \in S : m[x] # y) => f[y] = 0
    PROVE  SumFunctionOnSet(g, S) = SumFunctionOnSet(f, T)
    BY DEF Renumbers
<1> DEFINE Outside(U) == T \ {m[x] : x \in S \ U}
           P == {n \in Nat : \A U \in SUBSET S : Cardinality(U) = n =>
                    SumFunctionOnSet(g, U) = SumFunctionOnSet(f, Outside(U))}
<1>0. \A U \in SUBSET S : IsFiniteSet(U) /\ Cardinality(U) \in Nat
    BY FS_Subset, FS_CardinalityType
<1>1. \A U \in SUBSET S : Outside(U) \in SUBSET T /\ IsFiniteSet(Outside(U))
    BY FS_Subset
<1>2. 0 \in P
    <2> SUFFICES ASSUME NEW U \in SUBSET S, Cardinality(U) = 0
        PROVE  SumFunctionOnSet(g, U) = SumFunctionOnSet(f, Outside(U))
        OBVIOUS
    <2>1. U = {}
        BY <1>0, FS_EmptySet
    <2>2. SumFunctionOnSet(g, U) = 0
        BY <1>0, <2>1, SumStep
    <2>3. \A y \in Outside(U) : f[y] = 0
        BY <2>1
    <2>4. SumFunctionOnSet(f, Outside(U)) = 0
        BY <1>1, <2>3, SumOfZeros
    <2> QED BY <2>2, <2>4
<1>3. ASSUME NEW n \in P PROVE n + 1 \in P
    <2> SUFFICES ASSUME NEW U \in SUBSET S, Cardinality(U) = n + 1
        PROVE  SumFunctionOnSet(g, U) = SumFunctionOnSet(f, Outside(U))
        OBVIOUS
    <2>1. U # {}
        <3>1. n \in Nat
            OBVIOUS
        <3>2. Cardinality(U) # 0
            <4> HIDE DEF P
            <4> QED BY <3>1
        <3> QED BY <3>2, FS_EmptySet
    <2>2. PICK u : u = Some(U)
        OBVIOUS
    <2>3. /\ u \in U /\ u \in S /\ U \ {u} \in SUBSET S /\ Cardinality(U \ {u}) = n
          /\ SumFunctionOnSet(g, U) = g[u] + SumFunctionOnSet(g, U \ {u})
        BY <1>0, <2>1, <2>2, RemoveOne, SumStep
    <2>4. SumFunctionOnSet(g, U \ {u}) = SumFunctionOnSet(f, Outside(U \ {u}))
        BY <1>3, <2>3
    <2>5. m[u] \in Outside(U) /\ Outside(U \ {u}) = Outside(U) \ {m[u]}
        <3>1. m[u] \in T /\ \A x \in S \ U : m[x] # m[u]
            BY <2>3
        <3>2. S \ (U \ {u}) = (S \ U) \cup {u}
            BY <2>3
        <3> QED BY <3>1, <3>2
    <2>6. SumFunctionOnSet(f, Outside(U)) = f[m[u]] + SumFunctionOnSet(f, Outside(U) \ {m[u]})
        <3> HIDE DEF Outside
        <3>1. \A y \in Outside(U) : f[y] \in Nat
            BY <1>1
        <3> QED BY <1>1, <2>5, <3>1, SumTakeOut
    <2> HIDE DEF Outside
    <2> QED BY <2>3, <2>4, <2>5, <2>6
<1>4. \A n \in Nat : n \in P
    BY <1>2, <1>3, NatSetInduction
<1>5. Outside(S) = T
    OBVIOUS
<1> HIDE DEF Outside
<1> QED BY <1>0, <1>4, <1>5

-----------------------------------------------------------------------------
(* Position lists.                                                         *)

\* Where a list without one of its entries takes its entries from.
LEMMA RemoveAtList ==
    ASSUME NEW X, NEW s \in Seq(X), NEW i \in 1..Len(s)
    PROVE  /\ RemoveAt(s, i) \in Seq(X) /\ Len(RemoveAt(s, i)) = Len(s) - 1
           /\ \A k \in 1..(Len(s) - 1) : RemoveAt(s, i)[k] = s[IF k < i THEN k ELSE k + 1]
<1> DEFINE a == SubSeq(s, 1, i - 1)
           b == SubSeq(s, i + 1, Len(s))
<1>0. Len(s) \in Nat
    OBVIOUS
<1>1. a \in Seq(X) /\ Len(a) = i - 1 /\ \A k \in 1..(i - 1) : a[k] = s[k]
    OBVIOUS
<1>2. b \in Seq(X) /\ Len(b) = Len(s) - i /\ \A k \in 1..(Len(s) - i) : b[k] = s[i + k]
    OBVIOUS
<1>3. RemoveAt(s, i) = a \o b
    BY DEF RemoveAt
<1> HIDE DEF a, b
<1>4. /\ a \o b \in Seq(X) /\ Len(a \o b) = Len(a) + Len(b)
      /\ \A k \in 1..(Len(a) + Len(b)) :
            (a \o b)[k] = IF k <= Len(a) THEN a[k] ELSE b[k - Len(a)]
    BY <1>1, <1>2, ConcatProperties
<1>5. ASSUME NEW k \in 1..(Len(s) - 1) PROVE (a \o b)[k] = s[IF k < i THEN k ELSE k + 1]
    <2>1. CASE k < i
        BY <1>1, <1>2, <1>4, <2>1
    <2>2. CASE ~(k < i)
        <3>1. PICK j \in 1..(Len(s) - i) : j = k - (i - 1)
            BY <2>2
        <3>2. (a \o b)[k] = b[j]
            BY <1>1, <1>2, <1>4, <2>2, <3>1
        <3>3. b[j] = s[i + j] /\ i + j = k + 1
            BY <1>2, <3>1
        <3> QED BY <2>2, <3>2, <3>3
    <2> QED BY <2>1, <2>2
<1> QED BY <1>0, <1>1, <1>2, <1>3, <1>4, <1>5

\* The position that entry k had before entry i was swapped to the front.
SwappedFrom(i, k) == IF i = 0 THEN k ELSE IF k = 1 THEN i ELSE IF k = i THEN 1 ELSE k

\* So it is for a list whose entry i was swapped to the front.
LEMMA SwapList ==
    ASSUME NEW X, NEW s \in Seq(X), NEW i \in 0..Len(s)
    PROVE  /\ SwapToFront(s, i) \in Seq(X) /\ Len(SwapToFront(s, i)) = Len(s)
           /\ \A k \in 1..Len(s) : SwapToFront(s, i)[k] = s[SwappedFrom(i, k)]
<1>1. CASE i = 0
    BY <1>1 DEF SwapToFront, SwappedFrom
<1>2. CASE i # 0
    <2>1. SwapToFront(s, i) = [s EXCEPT ![1] = s[i], ![i] = s[1]]
        BY <1>2 DEF SwapToFront
    <2>2. 1 \in 1..Len(s) /\ i \in 1..Len(s) /\ s[1] \in X /\ s[i] \in X
        BY <1>2
    <2>3. SwapToFront(s, i) \in Seq(X) /\ Len(SwapToFront(s, i)) = Len(s)
        BY <2>1, <2>2
    <2>4. \A k \in 1..Len(s) :
             SwapToFront(s, i)[k] = s[IF k = 1 THEN i ELSE IF k = i THEN 1 ELSE k]
        BY <2>1, <2>2
    <2> QED BY <1>2, <2>3, <2>4 DEF SwappedFrom
<1> QED BY <1>1, <1>2

(***************************************************************************)
(* retain, once it has looked at the first n entries, has taken into t the *)
(* ones at the positions kept, each once and in order: m[k] is the position *)
(* that entry k had.                                                       *)
(***************************************************************************)
Kept(s, keep, n, t, m) ==
    /\ m \in [1..Len(t) -> keep \cap (1..n)]
    /\ \A j, k \in 1..Len(t) : j < k => m[j] < m[k]
    /\ \A i \in keep \cap (1..n) : \E k \in 1..Len(t) : m[k] = i
    /\ \A k \in 1..Len(t) : t[k] = s[m[k]]

\* g is the function that Retain of a list of length n defines
RetainFun(s, keep, n, g) ==
    g = [k \in 0..n |-> IF k = 0 THEN <<>>
                        ELSE IF k \in keep THEN Append(g[k - 1], s[k]) ELSE g[k - 1]]

\* The recursion of Retain holds of g up to n.
Retains(s, keep, n, g) ==
    \A k \in 0..n : g[k] = IF k = 0 THEN <<>>
                           ELSE IF k \in keep THEN Append(g[k - 1], s[k]) ELSE g[k - 1]

\* The recursion has a solution.
LEMMA RetainExists ==
    ASSUME NEW s, NEW N \in Nat, NEW keep
    PROVE  \E g : RetainFun(s, keep, N, g)
<1> DEFINE P == {n \in Nat : \E g : Retains(s, keep, n, g)}
<1>1. 0 \in P
    <2>1. Retains(s, keep, 0, [k \in 0..0 |-> <<>>])
        BY DEF Retains
    <2> QED BY <2>1
<1>2. ASSUME NEW n \in P PROVE n + 1 \in P
    <2>1. PICK g : Retains(s, keep, n, g)
        BY <1>2
    <2>2. PICK h : h = [k \in 0..(n + 1) |->
                          IF k <= n THEN g[k]
                          ELSE IF k \in keep THEN Append(g[k - 1], s[k]) ELSE g[k - 1]]
        OBVIOUS
    <2>3. \A k \in 0..n : h[k] = g[k]
        BY <2>2
    <2>4. h[n + 1] = IF n + 1 \in keep THEN Append(g[n], s[n + 1]) ELSE g[n]
        BY <2>2
    <2>5. Retains(s, keep, n + 1, h)
        <3> SUFFICES ASSUME NEW k \in 0..(n + 1)
            PROVE  h[k] = IF k = 0 THEN <<>>
                          ELSE IF k \in keep THEN Append(h[k - 1], s[k]) ELSE h[k - 1]
            BY DEF Retains
        <3>1. CASE k = n + 1
            BY <2>3, <2>4, <3>1
        <3>2. CASE k \in 1..n
            BY <2>1, <2>3, <3>2 DEF Retains
        <3>3. CASE k = 0
            BY <2>1, <2>3, <3>3 DEF Retains
        <3> QED BY <3>1, <3>2, <3>3
    <2> QED BY <2>5
<1>3. N \in P
    BY <1>1, <1>2, NatSetInduction
<1>4. PICK g : Retains(s, keep, N, g)
    BY <1>3
<1>5. PICK h : h = [n \in 0..N |-> g[n]]
    OBVIOUS
<1>6. \A n \in 0..N : h[n] = IF n = 0 THEN <<>>
                             ELSE IF n \in keep THEN Append(h[n - 1], s[n]) ELSE h[n - 1]
    <2> SUFFICES ASSUME NEW n \in 0..N
        PROVE  h[n] = IF n = 0 THEN <<>>
                      ELSE IF n \in keep THEN Append(h[n - 1], s[n]) ELSE h[n - 1]
        OBVIOUS
    <2>1. CASE n = 0
        BY <1>4, <1>5, <2>1 DEF Retains
    <2>2. CASE n # 0
        <3>1. n - 1 \in 0..N
            BY <2>2
        <3>2. h[n] = g[n] /\ h[n - 1] = g[n - 1]
            BY <1>5, <3>1
        <3> QED BY <1>4, <2>2, <3>2 DEF Retains
    <2> QED BY <2>1, <2>2
<1>7. RetainFun(s, keep, N, h)
    BY <1>5, <1>6 DEF RetainFun
<1> QED BY <1>7

\* What retain keeps, and from where.
LEMMA RetainList ==
    ASSUME NEW X, NEW s \in Seq(X), NEW keep
    PROVE  Retain(s, keep) \in Seq(X) /\ \E m : Kept(s, keep, Len(s), Retain(s, keep), m)
<1>0. Len(s) \in Nat /\ \A i \in 1..Len(s) : s[i] \in X
    OBVIOUS
<1>1. PICK g : RetainFun(s, keep, Len(s), g) /\ Retain(s, keep) = g[Len(s)]
    <2>1. \E g : RetainFun(s, keep, Len(s), g)
        BY <1>0, RetainExists
    <2> QED BY <2>1, Zenon DEF Retain, RetainFun
<1>2. \A n \in 0..Len(s) : g[n] = IF n = 0 THEN <<>>
                                  ELSE IF n \in keep THEN Append(g[n - 1], s[n]) ELSE g[n - 1]
    BY <1>1 DEF RetainFun
<1> DEFINE P == {n \in Nat : n <= Len(s) => g[n] \in Seq(X) /\ \E m : Kept(s, keep, n, g[n], m)}
<1>3. 0 \in P
    <2>1. g[0] = <<>>
        BY <1>0, <1>2
    <2>2. Kept(s, keep, 0, <<>>, [k \in 1..0 |-> 0])
        BY DEF Kept
    <2>3. \E m : Kept(s, keep, 0, g[0], m)
        BY <2>1, <2>2
    <2>4. g[0] \in Seq(X)
        BY <2>1
    <2> QED BY <2>3, <2>4
<1>4. ASSUME NEW n \in P PROVE n + 1 \in P
    <2> SUFFICES ASSUME n + 1 <= Len(s)
        PROVE  g[n + 1] \in Seq(X) /\ \E m : Kept(s, keep, n + 1, g[n + 1], m)
        OBVIOUS
    <2>1. g[n] \in Seq(X) /\ n \in Nat
        BY <1>0, <1>4
    <2>2. PICK m : Kept(s, keep, n, g[n], m)
        BY <1>0, <1>4
    <2>3. n + 1 \in 1..Len(s) /\ s[n + 1] \in X
        BY <1>0, <2>1
    <2>4. g[n + 1] = IF n + 1 \in keep THEN Append(g[n], s[n + 1]) ELSE g[n]
        BY <1>0, <1>2, <2>1, <2>3
    <2>5. CASE n + 1 \notin keep
        <3>1. keep \cap (1..(n + 1)) = keep \cap (1..n)
            BY <2>1, <2>5
        <3>2. Kept(s, keep, n + 1, g[n], m)
            BY <2>2, <3>1 DEF Kept
        <3> QED BY <2>1, <2>4, <2>5, <3>2
    <2>6. CASE n + 1 \in keep
        <3>1. PICK t : t = Append(g[n], s[n + 1])
            OBVIOUS
        <3>2. /\ t \in Seq(X) /\ Len(t) = Len(g[n]) + 1 /\ Len(g[n]) \in Nat
              /\ t[Len(g[n]) + 1] = s[n + 1] /\ \A k \in 1..Len(g[n]) : t[k] = g[n][k]
            BY <2>1, <2>3, <3>1
        <3>3. PICK q : q = [k \in 1..Len(t) |-> IF k = Len(t) THEN n + 1 ELSE m[k]]
            OBVIOUS
        <3>4. /\ m \in [1..Len(g[n]) -> keep \cap (1..n)]
              /\ \A j, k \in 1..Len(g[n]) : j < k => m[j] < m[k]
              /\ \A i \in keep \cap (1..n) : \E k \in 1..Len(g[n]) : m[k] = i
              /\ \A k \in 1..Len(g[n]) : g[n][k] = s[m[k]]
            BY <2>2 DEF Kept
        <3>5. keep \cap (1..(n + 1)) = (keep \cap (1..n)) \cup {n + 1}
            BY <2>1, <2>6
        <3>6. q \in [1..Len(t) -> keep \cap (1..(n + 1))]
            BY <3>2, <3>3, <3>4, <3>5
        <3>7. ASSUME NEW k \in 1..Len(g[n]) PROVE q[k] = m[k] /\ m[k] \in 1..n /\ k \in 1..Len(t)
            <4>1. k \in 1..Len(t) /\ k # Len(t)
                BY <3>2
            <4> QED BY <3>3, <3>4, <4>1
        <3>8. q[Len(t)] = n + 1
            BY <3>2, <3>3
        <3>9. ASSUME NEW j \in 1..Len(t), NEW k \in 1..Len(t), j < k PROVE q[j] < q[k]
            <4>1. j \in 1..Len(g[n])
                BY <3>2, <3>9
            <4>2. CASE k = Len(t)
                BY <2>1, <3>7, <3>8, <4>1, <4>2
            <4>3. CASE k # Len(t)
                <5>1. PICK l \in Nat : l = Len(g[n]) /\ Len(t) = l + 1
                    BY <3>2
                <5>2. k \in 1..l
                    BY <4>3, <5>1
                <5> QED BY <3>4, <3>7, <3>9, <4>1, <5>1, <5>2
            <4> QED BY <4>2, <4>3
        <3>10. ASSUME NEW i \in keep \cap (1..(n + 1)) PROVE \E k \in 1..Len(t) : q[k] = i
            <4>1. CASE i = n + 1
                BY <3>2, <3>8, <4>1
            <4>2. CASE i # n + 1
                <5>1. PICK k \in 1..Len(g[n]) : m[k] = i
                    BY <3>4, <3>5, <4>2
                <5> QED BY <3>7, <5>1
            <4> QED BY <4>1, <4>2
        <3>11. ASSUME NEW k \in 1..Len(t) PROVE t[k] = s[q[k]]
            <4>1. CASE k = Len(t)
                BY <3>2, <3>8, <4>1
            <4>2. CASE k # Len(t)
                <5>1. k \in 1..Len(g[n])
                    BY <3>2, <4>2
                <5>2. t[k] = g[n][k] /\ g[n][k] = s[m[k]]
                    BY <3>2, <3>4, <5>1
                <5> QED BY <3>7, <5>1, <5>2
            <4> QED BY <4>1, <4>2
        <3>12. Kept(s, keep, n + 1, t, q)
            BY <3>6, <3>9, <3>10, <3>11 DEF Kept
        <3> QED BY <2>4, <2>6, <3>1, <3>2, <3>12
    <2> QED BY <2>5, <2>6
<1>5. Len(s) \in P
    <2> QED BY <1>0, <1>3, <1>4, NatSetInduction
<1>6. g[Len(s)] \in Seq(X) /\ \E m : Kept(s, keep, Len(s), g[Len(s)], m)
    <2> QED BY <1>0, <1>5
<1> QED BY <1>1, <1>6

-----------------------------------------------------------------------------
(* Sums over position lists: f are the weights of the entries before, g    *)
(* after a change of the list.                                             *)

\* One entry at the end.
LEMMA SumAppended ==
    ASSUME NEW n \in Nat, NEW f, NEW g, \A k \in 1..n : f[k] \in Nat /\ g[k] = f[k],
           g[n + 1] \in Nat
    PROVE  SumFunctionOnSet(g, 1..(n + 1)) = SumFunctionOnSet(f, 1..n) + g[n + 1]
<1>1. IsFiniteSet(1..n) /\ IsFiniteSet(1..(n + 1))
    BY FS_Interval
<1>2. n + 1 \in 1..(n + 1) /\ (1..(n + 1)) \ {n + 1} = 1..n
    OBVIOUS
<1>3. \A k \in 1..(n + 1) : g[k] \in Nat
    OBVIOUS
<1>4. SumFunctionOnSet(g, 1..(n + 1)) = g[n + 1] + SumFunctionOnSet(g, 1..n)
    BY <1>1, <1>2, <1>3, SumTakeOut
<1>5. SumFunctionOnSet(g, 1..n) = SumFunctionOnSet(f, 1..n)
    BY <1>1, SumSame
<1>6. SumFunctionOnSet(f, 1..n) \in Nat
    BY <1>1, SumNat
<1> QED BY <1>4, <1>5, <1>6

\* Without the entry at i.
LEMMA SumRemoved ==
    ASSUME NEW n \in Nat, NEW i \in 1..n, NEW f, NEW g, \A k \in 1..n : f[k] \in Nat,
           \A k \in 1..(n - 1) : g[k] = f[IF k < i THEN k ELSE k + 1]
    PROVE  SumFunctionOnSet(f, 1..n) = SumFunctionOnSet(g, 1..(n - 1)) + f[i]
<1>1. IsFiniteSet(1..n) /\ IsFiniteSet(1..(n - 1)) /\ IsFiniteSet((1..n) \ {i})
    <2>1. n - 1 \in Int /\ n \in Int /\ 1 \in Int
        OBVIOUS
    <2>2. IsFiniteSet(1..n) /\ IsFiniteSet(1..(n - 1))
        BY <2>1, FS_Interval
    <2> QED BY <2>2, FS_RemoveElement
<1>2. PICK m : m = [k \in 1..(n - 1) |-> IF k < i THEN k ELSE k + 1]
    OBVIOUS
<1>3. m \in [1..(n - 1) -> (1..n) \ {i}]
    BY <1>2
<1>4. \A x, y \in 1..(n - 1) : m[x] = m[y] => x = y
    BY <1>2
<1>5. \A y \in (1..n) \ {i} : (\A x \in 1..(n - 1) : m[x] # y) => f[y] = 0
    <2> SUFFICES ASSUME NEW y \in (1..n) \ {i} PROVE \E x \in 1..(n - 1) : m[x] = y
        OBVIOUS
    <2>1. CASE y < i
        <3>1. y \in 1..(n - 1) /\ m[y] = y
            BY <1>2, <2>1
        <3> QED BY <3>1
    <2>2. CASE ~(y < i)
        <3>1. PICK x \in 1..(n - 1) : x = y - 1
            BY <2>2
        <3>2. m[x] = y
            BY <1>2, <2>2, <3>1
        <3> QED BY <3>1, <3>2
    <2> QED BY <2>1, <2>2
<1>6. \A x \in 1..(n - 1) : g[x] = f[m[x]]
    BY <1>2
<1>7. \A y \in (1..n) \ {i} : f[y] \in Nat
    OBVIOUS
<1>8. SumFunctionOnSet(g, 1..(n - 1)) = SumFunctionOnSet(f, (1..n) \ {i})
    <2>1. Renumbers(m, 1..(n - 1), g, (1..n) \ {i}, f)
        BY <1>1, <1>3, <1>4, <1>5, <1>6, <1>7 DEF Renumbers
    <2> QED BY <2>1, SumRenumbered
<1>9. SumFunctionOnSet(f, 1..n) = f[i] + SumFunctionOnSet(f, (1..n) \ {i})
    <2>1. PICK N : N = 1..n
        OBVIOUS
    <2>2. IsFiniteSet(N) /\ i \in N /\ \A k \in N : f[k] \in Nat
        BY <1>1, <2>1
    <2>3. SumFunctionOnSet(f, N) = f[i] + SumFunctionOnSet(f, N \ {i})
        BY <2>2, SumTakeOut
    <2> QED BY <2>1, <2>3
<1>10. f[i] \in Nat /\ SumFunctionOnSet(f, (1..n) \ {i}) \in Nat
    <2>1. SumFunctionOnSet(f, (1..n) \ {i}) \in Nat
        BY <1>1, <1>7, SumNat, Zenon
    <2> QED BY <2>1
<1> QED BY <1>8, <1>9, <1>10

\* With the entries that weigh nothing left out.
LEMMA SumRetained ==
    ASSUME NEW X, NEW s \in Seq(X), NEW keep, NEW Y, NEW t \in Seq(Y),
           NEW m, Kept(s, keep, Len(s), t, m),
           NEW f, NEW g, \A i \in 1..Len(s) : f[i] \in Nat,
           \A i \in (1..Len(s)) \ keep : f[i] = 0, \A k \in 1..Len(t) : g[k] = f[m[k]]
    PROVE  SumFunctionOnSet(g, 1..Len(t)) = SumFunctionOnSet(f, 1..Len(s))
<1>1. Len(s) \in Nat /\ Len(t) \in Nat
    OBVIOUS
<1>2. IsFiniteSet(1..Len(s)) /\ IsFiniteSet(1..Len(t))
    BY <1>1, FS_Interval
<1>3. /\ m \in [1..Len(t) -> keep \cap (1..Len(s))]
      /\ \A j, k \in 1..Len(t) : j < k => m[j] < m[k]
      /\ \A i \in keep \cap (1..Len(s)) : \E k \in 1..Len(t) : m[k] = i
    BY DEF Kept
<1>4. m \in [1..Len(t) -> 1..Len(s)]
    BY <1>3
<1>5. \A x, y \in 1..Len(t) : m[x] = m[y] => x = y
    <2> SUFFICES ASSUME NEW x \in 1..Len(t), NEW y \in 1..Len(t), x # y PROVE m[x] # m[y]
        OBVIOUS
    <2>0. m[x] \in 1..Len(s) /\ m[y] \in 1..Len(s)
        BY <1>4
    <2>1. m[x] \in Int /\ m[y] \in Int
        BY <2>0
    <2>2. x < y \/ y < x
        BY <1>1
    <2> QED BY <1>3, <2>1, <2>2
<1>6. \A y \in 1..Len(s) : (\A x \in 1..Len(t) : m[x] # y) => f[y] = 0
    BY <1>3
<1>7. Renumbers(m, 1..Len(t), g, 1..Len(s), f)
    BY <1>2, <1>4, <1>5, <1>6 DEF Renumbers
<1> QED BY <1>7, SumRenumbered

-----------------------------------------------------------------------------
(* What the handlers ask of a position.                                    *)

\* find_collateral_in_deposits returns the entry of the reserve, 0 if none has it.
LEMMA DepositIndexIn ==
    ASSUME NEW o \in ObligationRec, NEW r
    PROVE  /\ DepositIndex(o, r) # 0 =>
                 /\ DepositIndex(o, r) \in 1..Len(o.deposits)
                 /\ o.deposits[DepositIndex(o, r)] \in ObligationCollateral
                 /\ o.deposits[DepositIndex(o, r)].deposit_reserve = r
           /\ DepositIndex(o, r) = 0 =>
                 \A i \in 1..Len(o.deposits) : o.deposits[i].deposit_reserve # r
<1> DEFINE I == {i \in 1..Len(o.deposits) : o.deposits[i].deposit_reserve = r}
<1>1. /\ o.deposits \in Seq(ObligationCollateral)
      /\ \A i \in 1..Len(o.deposits) : o.deposits[i] \in ObligationCollateral
    BY DEF ObligationRec
<1>2. DepositIndex(o, r) = IF I # {} THEN Min(I) ELSE 0
    BY DEF DepositIndex, SelectInSeq
<1>3. I \in SUBSET Nat /\ 0 \notin I
    BY <1>1
<1>4. I # {} => Min(I) \in I
    <2> HIDE DEF I
    <2> QED BY <1>3, MinInSet
<1>5. CASE I # {}
    <2>1. DepositIndex(o, r) \in I
        BY <1>2, <1>4, <1>5
    <2>2. DepositIndex(o, r) # 0
        BY <1>3, <2>1
    <2> QED BY <1>1, <2>1, <2>2
<1>6. CASE I = {}
    BY <1>2, <1>6
<1> QED BY <1>5, <1>6

\* So does find_liquidity_in_borrows.
LEMMA BorrowIndexIn ==
    ASSUME NEW o \in ObligationRec, NEW r
    PROVE  /\ BorrowIndex(o, r) # 0 =>
                 /\ BorrowIndex(o, r) \in 1..Len(o.borrows)
                 /\ o.borrows[BorrowIndex(o, r)] \in ObligationLiquidity
                 /\ o.borrows[BorrowIndex(o, r)].borrow_reserve = r
           /\ BorrowIndex(o, r) = 0 =>
                 \A i \in 1..Len(o.borrows) : o.borrows[i].borrow_reserve # r
<1> DEFINE I == {i \in 1..Len(o.borrows) : o.borrows[i].borrow_reserve = r}
<1>1. /\ o.borrows \in Seq(ObligationLiquidity)
      /\ \A i \in 1..Len(o.borrows) : o.borrows[i] \in ObligationLiquidity
    BY DEF ObligationRec
<1>2. BorrowIndex(o, r) = IF I # {} THEN Min(I) ELSE 0
    BY DEF BorrowIndex, SelectInSeq
<1>3. I \in SUBSET Nat /\ 0 \notin I
    BY <1>1
<1>4. I # {} => Min(I) \in I
    <2> HIDE DEF I
    <2> QED BY <1>3, MinInSet
<1>5. CASE I # {}
    <2>1. BorrowIndex(o, r) \in I
        BY <1>2, <1>4, <1>5
    <2>2. BorrowIndex(o, r) # 0
        BY <1>3, <2>1
    <2> QED BY <1>1, <2>1, <2>2
<1>6. CASE I = {}
    BY <1>2, <1>6
<1> QED BY <1>5, <1>6

\* max_withdraw_amount is a natural number of collateral tokens.
LEMMA MaxWithdrawNat ==
    ASSUME NEW o \in ObligationRec, NEW i \in Nat, o.deposits[i] \in ObligationCollateral,
           NEW cfg \in ReserveConfig, NEW res \in ReserveRec, HasExchangeRate(res),
           NEW max \in MaxWithdrawAmount(o, i, cfg, res)
    PROVE  max \in Nat
<1>1. o.deposits[i].deposited_amount \in Nat
    BY WadAssumption DEF ObligationCollateral, U64
<1> DEFINE free   == o.allowed_borrow_value - o.borrowed_value_upper_bound
           ltv    == FromPercent(cfg.loan_to_value_ratio)
           value  == DecDiv(free, ltv)
           amount == TryFloor(LiquidityToCollateral(res, DecDiv(value, PriceLower(res))))
<1>2. CASE o.borrows = <<>> \/ ltv = 0 \/ o.allowed_borrow_value <= o.borrowed_value_upper_bound
    BY <1>1, <1>2 DEF MaxWithdrawAmount
<1>3. CASE ~(o.borrows = <<>> \/ ltv = 0 \/ o.allowed_borrow_value <= o.borrowed_value_upper_bound)
    <2>1. max = MinOf(amount, o.deposits[i].deposited_amount) /\ PriceLower(res) > 0
        BY <1>3 DEF MaxWithdrawAmount, Result
    <2>2. free \in Nat
        BY <1>3, WadAssumption DEF ObligationRec, U128
    <2>3. ltv \in Nat /\ ltv > 0
        <3>1. ltv \in Nat
            BY ConversionsNat DEF ReserveConfig
        <3> QED BY <1>3, <3>1
    <2> HIDE DEF free, ltv
    <2>4. value \in Nat
        BY <2>2, <2>3, DecDivNat
    <2> HIDE DEF value
    <2>5. DecDiv(value, PriceLower(res)) \in Nat
        BY <2>1, <2>4, ReserveNat, DecDivNat
    <2>6. amount \in Nat
        BY <2>5, LiquidityToCollateralNat
    <2> QED BY <1>1, <2>1, <2>6 DEF MinOf
<1> QED BY <1>2, <1>3

-----------------------------------------------------------------------------
(* The order of the borrows.                                               *)

\* j is ordered last among S by weight w and then by key k
Heaviest(S, w, k, j) ==
    /\ j \in S
    /\ \A i \in S : w[i] < w[j] \/ (w[i] = w[j] /\ k[i] <= k[j])

\* Among finitely many borrows one is the heaviest.
LEMMA HeaviestExists ==
    ASSUME NEW n \in Nat, NEW S \in SUBSET (1..n), S # {}, NEW w, NEW k,
           \A i \in 1..n : w[i] \in Nat /\ k[i] \in Nat
    PROVE  \E j : Heaviest(S, w, k, j)
<1> DEFINE P == {l \in Nat : l <= n => \A T \in SUBSET (1..l) : T # {} => \E j : Heaviest(T, w, k, j)}
<1>1. 0 \in P
    <2>1. \A T \in SUBSET (1..0) : T = {}
        OBVIOUS
    <2> QED BY <2>1
<1>2. ASSUME NEW l \in P PROVE l + 1 \in P
    <2>0. l \in Nat
        OBVIOUS
    <2>1. ASSUME l + 1 <= n, NEW T \in SUBSET (1..(l + 1)), T # {}
          PROVE  \E j : Heaviest(T, w, k, j)
        <3>1. T \ {l + 1} \in SUBSET (1..l) /\ l <= n
            BY <2>1
        <3>2. CASE T \ {l + 1} = {}
            <4>1. T = {l + 1} /\ l + 1 \in 1..n
                <5>1. T = {l + 1}
                    BY <2>1, <3>2
                <5> QED BY <2>0, <2>1, <5>1
            <4>2. w[l + 1] \in Nat /\ k[l + 1] \in Nat
                BY <4>1
            <4> QED BY <4>1, <4>2 DEF Heaviest
        <3>3. CASE T \ {l + 1} # {}
            <4>1. PICK j : Heaviest(T \ {l + 1}, w, k, j)
                BY <3>1, <3>3
            <4>2. CASE l + 1 \notin T
                <5>1. T \ {l + 1} = T
                    BY <4>2
                <5> QED BY <4>1, <5>1
            <4>3. CASE l + 1 \in T
                <5>1. j \in 1..n /\ l + 1 \in 1..n /\ \A i \in T : i \in 1..n
                    BY <2>1, <4>1 DEF Heaviest
                <5>2. PICK a \in Nat, b \in Nat, c \in Nat, d \in Nat :
                         a = w[j] /\ b = k[j] /\ c = w[l + 1] /\ d = k[l + 1]
                    BY <5>1
                <5>3. \A i \in T \ {l + 1} : w[i] < a \/ (w[i] = a /\ k[i] <= b)
                    BY <4>1, <5>2 DEF Heaviest
                <5>4. \A i \in T : w[i] \in Nat /\ k[i] \in Nat
                    BY <5>1
                <5>5. CASE c < a \/ (c = a /\ d <= b)
                    <6>1. Heaviest(T, w, k, j)
                        BY <4>1, <5>2, <5>3, <5>5 DEF Heaviest
                    <6> QED BY <6>1
                <5>6. CASE ~(c < a \/ (c = a /\ d <= b))
                    <6>1. a < c \/ (a = c /\ b <= d)
                        BY <5>6
                    <6>2. \A i \in T \ {l + 1} : w[i] < c \/ (w[i] = c /\ k[i] <= d)
                        BY <5>3, <5>4, <6>1
                    <6>3. Heaviest(T, w, k, l + 1)
                        BY <4>3, <5>2, <6>2 DEF Heaviest
                    <6> QED BY <6>3
                <5> QED BY <5>5, <5>6
            <4> QED BY <4>2, <4>3
        <3> QED BY <3>2, <3>3
    <2> QED BY <2>1
<1>3. P \in SUBSET Nat
    OBVIOUS
<1>4. \A l \in Nat : l \in P
    <2> HIDE DEF P
    <2> QED BY <1>1, <1>2, <1>3, NatSetInduction
<1>5. n \in P
    BY <1>4
<1> QED BY <1>5

\* MaxBorrowWeightIndex finds it among the borrows that owe anything.
LEMMA MaxIndexIn ==
    ASSUME NEW n \in Nat, NEW b, DOMAIN b = 1..n, NEW cfg,
           \A i \in 1..n : /\ b[i].borrow_reserve \in Nat
                           /\ cfg[b[i].borrow_reserve].added_borrow_weight_bps \in Nat
    PROVE  /\ Owing(b) = {} => MaxBorrowWeightIndex(b, cfg) = 0
           /\ Owing(b) # {} =>
                 /\ MaxBorrowWeightIndex(b, cfg) \in Owing(b)
                 /\ Heaviest(Owing(b), [i \in 1..n |-> cfg[b[i].borrow_reserve].added_borrow_weight_bps],
                             [i \in 1..n |-> b[i].borrow_reserve], MaxBorrowWeightIndex(b, cfg))
<1>1. CASE Owing(b) = {}
    BY <1>1 DEF MaxBorrowWeightIndex
<1>2. CASE Owing(b) # {}
    <2>1. PICK w, k : /\ w = [i \in 1..n |-> cfg[b[i].borrow_reserve].added_borrow_weight_bps]
                      /\ k = [i \in 1..n |-> b[i].borrow_reserve]
        OBVIOUS
    <2>2. Owing(b) \in SUBSET (1..n)
        BY DEF Owing
    <2>3. \A i \in 1..n : w[i] \in Nat /\ k[i] \in Nat
        BY <2>1
    <2>4. \E j : Heaviest(Owing(b), w, k, j)
        BY <1>2, <2>2, <2>3, HeaviestExists
    <2>5. \A j \in Owing(b) :
             Heaviest(Owing(b), w, k, j) <=>
                \A i \in Owing(b) :
                    \/ cfg[b[i].borrow_reserve].added_borrow_weight_bps
                          < cfg[b[j].borrow_reserve].added_borrow_weight_bps
                    \/ /\ cfg[b[i].borrow_reserve].added_borrow_weight_bps
                              = cfg[b[j].borrow_reserve].added_borrow_weight_bps
                       /\ b[i].borrow_reserve <= b[j].borrow_reserve
        BY <2>1, <2>2 DEF Heaviest
    <2>6. MaxBorrowWeightIndex(b, cfg)
             = CHOOSE j \in Owing(b) : \A i \in Owing(b) :
                    \/ cfg[b[i].borrow_reserve].added_borrow_weight_bps
                          < cfg[b[j].borrow_reserve].added_borrow_weight_bps
                    \/ /\ cfg[b[i].borrow_reserve].added_borrow_weight_bps
                              = cfg[b[j].borrow_reserve].added_borrow_weight_bps
                       /\ b[i].borrow_reserve <= b[j].borrow_reserve
        BY <1>2 DEF MaxBorrowWeightIndex
    <2>7. /\ MaxBorrowWeightIndex(b, cfg) \in Owing(b)
          /\ Heaviest(Owing(b), w, k, MaxBorrowWeightIndex(b, cfg))
        BY <2>4, <2>5, <2>6 DEF Heaviest
    <2> QED BY <1>2, <2>1, <2>7
<1> QED BY <1>1, <1>2

\* the weight of borrow b comes before that of a, or is the same with a smaller key
Precedes(b, a, cfg) ==
    \/ cfg[b.borrow_reserve].added_borrow_weight_bps < cfg[a.borrow_reserve].added_borrow_weight_bps
    \/ /\ cfg[b.borrow_reserve].added_borrow_weight_bps
              = cfg[a.borrow_reserve].added_borrow_weight_bps
       /\ b.borrow_reserve <= a.borrow_reserve

\* entry b accrued at the rate of its reserve
AtRate(b, res) == AccrueBorrow(b, res[b.borrow_reserve].cumulative_borrow_rate_wads)

(***************************************************************************)
(* t is the list of borrows s as a refresh leaves it; m[k] is the place    *)
(* that entry k had: each is taken once, accrued, those that owe nothing   *)
(* are dropped, and the heaviest comes first.                              *)
(***************************************************************************)
BorrowsRefreshed(s, t, res, cfg, m) ==
    /\ m \in [1..Len(t) -> 1..Len(s)]
    /\ \A j, k \in 1..Len(t) : m[j] = m[k] => j = k
    /\ \A k \in 1..Len(t) :
          /\ t[k].borrow_reserve = s[m[k]].borrow_reserve
          /\ t[k].cumulative_borrow_rate_wads = AtRate(s[m[k]], res).cumulative_borrow_rate_wads
          /\ t[k].borrowed_amount_wads = AtRate(s[m[k]], res).borrowed_amount_wads
          /\ t[k].borrowed_amount_wads > 0
          /\ Precedes(t[k], t[1], cfg)
    /\ \A i \in 1..Len(s) :
          (\A k \in 1..Len(t) : m[k] # i) => ~(AtRate(s[i], res).borrowed_amount_wads > 0)

\* b is the list of borrows s accrued and valued, before the swap and the retain
BorrowsAccrued(s, b, res) ==
    /\ b = [i \in 1..Len(s) |-> b[i]]
    /\ \A i \in 1..Len(s) :
          /\ b[i].borrow_reserve = s[i].borrow_reserve
          /\ b[i].cumulative_borrow_rate_wads = AtRate(s[i], res).cumulative_borrow_rate_wads
          /\ b[i].borrowed_amount_wads = AtRate(s[i], res).borrowed_amount_wads

\* A refresh accrues the debts, puts the heaviest first and drops those repaid.
LEMMA RefreshAccrues ==
    ASSUME NEW ob \in ObligationRec, NEW res, NEW cfg
    PROVE  \E b : /\ BorrowsAccrued(ob.borrows, b, res)
                  /\ RefreshedObligation(ob, res, cfg).borrows
                        = Retain(SwapToFront(b, MaxBorrowWeightIndex(b, cfg)),
                                 Owing(SwapToFront(b, MaxBorrowWeightIndex(b, cfg))))
<1>1. PICK s : s = ob.borrows
    OBVIOUS
<1>2. s \in Seq(ObligationLiquidity) /\ DOMAIN s = 1..Len(s)
    BY <1>1 DEF ObligationRec
<1>3. PICK b : b = [i \in DOMAIN s |->
                     [AccrueBorrow(s[i], res[s[i].borrow_reserve].cumulative_borrow_rate_wads)
                        EXCEPT !.market_value =
                           MarketValue(res[AccrueBorrow(s[i], res[s[i].borrow_reserve].cumulative_borrow_rate_wads).borrow_reserve],
                              AccrueBorrow(s[i], res[s[i].borrow_reserve].cumulative_borrow_rate_wads).borrowed_amount_wads)]]
    OBVIOUS
<1>4. RefreshedObligation(ob, res, cfg).borrows
         = Retain(SwapToFront(b, MaxBorrowWeightIndex(b, cfg)),
                  Owing(SwapToFront(b, MaxBorrowWeightIndex(b, cfg))))
    BY <1>1, <1>3 DEF RefreshedObligation
<1>5. ASSUME NEW i \in 1..Len(s)
      PROVE  /\ b[i].borrow_reserve = s[i].borrow_reserve
             /\ b[i].cumulative_borrow_rate_wads = AtRate(s[i], res).cumulative_borrow_rate_wads
             /\ b[i].borrowed_amount_wads = AtRate(s[i], res).borrowed_amount_wads
    <2>1. s[i] \in ObligationLiquidity
        BY <1>2
    <2>2. PICK a : a = AtRate(s[i], res)
        OBVIOUS
    <2>3. PICK v : b[i] = [a EXCEPT !.market_value = v]
        BY <1>2, <1>3, <2>2 DEF AtRate
    <2>4. /\ a.borrow_reserve = s[i].borrow_reserve
          /\ DOMAIN a = {"borrow_reserve", "cumulative_borrow_rate_wads", "borrowed_amount_wads",
                         "market_value"}
        BY <2>1, <2>2 DEF AtRate, AccrueBorrow, ObligationLiquidity
    <2> QED BY <2>2, <2>3, <2>4
<1>6. b = [i \in 1..Len(s) |-> b[i]]
    BY <1>2, <1>3
<1> QED BY <1>1, <1>4, <1>5, <1>6 DEF BorrowsAccrued

\* A refresh leaves the borrows accrued, without empty entries, heaviest first.
LEMMA RefreshedBorrows ==
    ASSUME NEW ob \in ObligationRec, NEW res, NEW cfg \in [Reserves -> ReserveConfig]
    PROVE  \E m : BorrowsRefreshed(ob.borrows, RefreshedObligation(ob, res, cfg).borrows, res, cfg, m)
<1>1. PICK s : s = ob.borrows
    OBVIOUS
<1>2. PICK n \in Nat : s \in Seq(ObligationLiquidity) /\ n = Len(s)
    BY <1>1 DEF ObligationRec
<1>3. PICK b : /\ BorrowsAccrued(s, b, res)
               /\ RefreshedObligation(ob, res, cfg).borrows
                     = Retain(SwapToFront(b, MaxBorrowWeightIndex(b, cfg)),
                              Owing(SwapToFront(b, MaxBorrowWeightIndex(b, cfg))))
    BY <1>1, RefreshAccrues
<1>4. PICK X : b \in Seq(X) /\ Len(b) = n
    <2>1. PICK X : X = {b[i] : i \in 1..n}
        OBVIOUS
    <2>2. b \in [1..n -> X]
        BY <1>2, <1>3, <2>1 DEF BorrowsAccrued
    <2>3. b \in UNION {[1..k -> X] : k \in Nat}
        BY <2>2
    <2>4. b \in Seq(X)
        BY <2>3, SeqDef
    <2> QED BY <2>2, <2>4
<1>5. PICK i : i = MaxBorrowWeightIndex(b, cfg)
    OBVIOUS
<1>6. PICK u, t : u = SwapToFront(b, i) /\ t = Retain(u, Owing(u))
    OBVIOUS
<1>7. \A j \in 1..n : /\ b[j].borrow_reserve \in Nat
                      /\ cfg[b[j].borrow_reserve].added_borrow_weight_bps \in Nat
    <2>1. \A j \in 1..n : s[j].borrow_reserve \in Reserves
        <3>1. \A j \in 1..n : s[j] \in ObligationLiquidity
            BY <1>2
        <3> QED BY <3>1 DEF ObligationLiquidity
    <2>2. \A j \in 1..n : b[j].borrow_reserve \in Reserves
        BY <1>2, <1>3, <2>1 DEF BorrowsAccrued
    <2>3. \A r \in Reserves : r \in Nat /\ cfg[r].added_borrow_weight_bps \in Nat
        BY ObligationAssumption DEF ReserveConfig
    <2> QED BY <2>2, <2>3
<1>8. DOMAIN b = 1..n
    BY <1>2, <1>3 DEF BorrowsAccrued
<1>9. /\ Owing(b) = {} => i = 0
      /\ Owing(b) # {} => i \in Owing(b) /\ \A j \in Owing(b) : Precedes(b[j], b[i], cfg)
    <2>1. Owing(b) = {} => i = 0
        BY <1>5, <1>7, <1>8, MaxIndexIn
    <2>2. ASSUME Owing(b) # {}
          PROVE  i \in Owing(b) /\ \A j \in Owing(b) : Precedes(b[j], b[i], cfg)
        <3>1. PICK w, k : /\ w = [j \in 1..n |-> cfg[b[j].borrow_reserve].added_borrow_weight_bps]
                          /\ k = [j \in 1..n |-> b[j].borrow_reserve]
            OBVIOUS
        <3>2. i \in Owing(b) /\ Heaviest(Owing(b), w, k, i)
            BY <1>5, <1>7, <1>8, <2>2, <3>1, MaxIndexIn
        <3>3. Owing(b) \subseteq 1..n
            BY <1>8 DEF Owing
        <3> QED BY <3>1, <3>2, <3>3 DEF Heaviest, Precedes
    <2> QED BY <2>1, <2>2
<1>10. i \in 0..n
    BY <1>8, <1>9 DEF Owing
<1>11. PICK f : f = [k \in 1..n |-> IF i = 0 THEN k ELSE IF k = 1 THEN i ELSE IF k = i THEN 1 ELSE k]
    OBVIOUS
<1>12. u \in Seq(X) /\ Len(u) = n /\ DOMAIN u = 1..n /\ \A k \in 1..n : u[k] = b[f[k]]
    <2>1. i \in 0..Len(b) /\ b \in Seq(X)
        BY <1>4, <1>10
    <2>2. /\ u \in Seq(X) /\ Len(u) = Len(b)
          /\ \A k \in 1..Len(b) : u[k] = b[SwappedFrom(i, k)]
        BY <1>6, <2>1, SwapList
    <2>3. DOMAIN u = 1..Len(u)
        BY <2>2
    <2> QED BY <1>4, <1>11, <2>2, <2>3 DEF SwappedFrom
<1>13. \A k \in 1..n : f[k] \in 1..n /\ f[f[k]] = k
    BY <1>10, <1>11
<1>14. PICK g : Kept(u, Owing(u), n, t, g)
    BY <1>6, <1>12, RetainList
<1>15. \A k \in 1..Len(t) : g[k] \in 1..n /\ g[k] \in Owing(u) /\ t[k] = b[f[g[k]]]
    BY <1>12, <1>14 DEF Kept
<1>16. PICK m : m = [k \in 1..Len(t) |-> f[g[k]]]
    OBVIOUS
<1>17. t \in Seq(X) /\ Len(t) \in Nat
    BY <1>6, <1>12, RetainList
<1>18. m \in [1..Len(t) -> 1..Len(s)]
    BY <1>2, <1>13, <1>15, <1>16
<1>19. \A j, k \in 1..Len(t) : m[j] = m[k] => j = k
    <2>1. \A j, k \in 1..Len(t) : j < k => g[j] < g[k]
        BY <1>14 DEF Kept
    <2>2. ASSUME NEW j \in 1..Len(t), NEW k \in 1..Len(t), m[j] = m[k] PROVE g[j] = g[k]
        <3>1. g[j] \in 1..n /\ g[k] \in 1..n /\ f[g[j]] = f[g[k]]
            BY <1>15, <1>16, <2>2
        <3>2. f[f[g[j]]] = g[j] /\ f[f[g[k]]] = g[k]
            BY <1>13, <3>1
        <3> QED BY <3>1, <3>2
    <2> QED BY <1>15, <1>17, <2>1, <2>2
<1>20. \A k \in 1..n : k \in Owing(u) <=> f[k] \in Owing(b)
    BY <1>8, <1>12, <1>13 DEF Owing
<1>21. ASSUME NEW k \in 1..Len(t)
       PROVE  Precedes(t[k], t[1], cfg)
    <2>1. f[g[k]] \in Owing(b)
        BY <1>15, <1>20
    <2>2. i \in Owing(b) /\ Precedes(b[f[g[k]]], b[i], cfg)
        BY <1>9, <2>1
    <2>3. i \in 1..n /\ f[1] = i /\ 1 \in 1..n
        BY <1>8, <1>11, <2>2 DEF Owing
    <2>4. 1 \in Owing(u) \cap (1..n)
        BY <1>20, <2>2, <2>3
    <2>5. PICK l \in 1..Len(t) : g[l] = 1
        BY <1>14, <2>4 DEF Kept
    <2>6. l = 1
        <3>1. 1 \in 1..Len(t) /\ g[1] \in 1..n
            BY <1>15, <1>17
        <3>2. 1 < l => g[1] < g[l]
            BY <1>14, <3>1 DEF Kept
        <3> QED BY <1>17, <2>5, <3>1, <3>2
    <2>7. t[1] = b[i]
        BY <1>15, <2>3, <2>5, <2>6
    <2> QED BY <1>15, <2>2, <2>7
<1>22. ASSUME NEW k \in 1..Len(t)
       PROVE  /\ t[k].borrow_reserve = s[m[k]].borrow_reserve
              /\ t[k].cumulative_borrow_rate_wads = AtRate(s[m[k]], res).cumulative_borrow_rate_wads
              /\ t[k].borrowed_amount_wads = AtRate(s[m[k]], res).borrowed_amount_wads
              /\ t[k].borrowed_amount_wads > 0
    <2>1. t[k] = b[m[k]] /\ m[k] \in 1..n
        BY <1>13, <1>15, <1>16
    <2>2. m[k] \in Owing(b)
        BY <1>15, <1>16, <1>20
    <2> QED BY <1>2, <1>3, <2>1, <2>2 DEF BorrowsAccrued, Owing
<1>23. ASSUME NEW j \in 1..n, \A k \in 1..Len(t) : m[k] # j
       PROVE  ~(AtRate(s[j], res).borrowed_amount_wads > 0)
    <2>1. f[j] \in 1..n /\ f[f[j]] = j
        BY <1>13
    <2>2. f[j] \notin Owing(u)
        <3>1. SUFFICES ASSUME f[j] \in Owing(u) \cap (1..n) PROVE FALSE
            BY <2>1
        <3>2. PICK k \in 1..Len(t) : g[k] = f[j]
            BY <1>14, <3>1 DEF Kept
        <3> QED BY <1>16, <1>23, <2>1, <3>2
    <2>3. j \notin Owing(b)
        BY <1>20, <2>1, <2>2
    <2>4. ~(b[j].borrowed_amount_wads > 0)
        BY <1>8, <2>3 DEF Owing
    <2> QED BY <1>2, <1>3, <2>4 DEF BorrowsAccrued
<1>24. BorrowsRefreshed(s, t, res, cfg, m)
    BY <1>2, <1>18, <1>19, <1>21, <1>22, <1>23 DEF BorrowsRefreshed
<1> QED BY <1>1, <1>3, <1>5, <1>6, <1>24

(***************************************************************************)
(* t is the list of deposits s as a refresh leaves it: w is s valued anew, *)
(* and t is what is left of w without the empty deposits.                  *)
(***************************************************************************)
DepositsRefreshed(s, t, w, m) ==
    /\ \E X : w \in Seq(X)
    /\ Len(w) = Len(s) /\ DOMAIN w = 1..Len(s)
    /\ \A i \in 1..Len(s) : /\ w[i].deposit_reserve = s[i].deposit_reserve
                            /\ w[i].deposited_amount = s[i].deposited_amount
    /\ Kept(w, Funded(w), Len(w), t, m)

\* A refresh leaves the deposits in their order, without empty entries.
LEMMA RefreshedDeposits ==
    ASSUME NEW ob \in ObligationRec, NEW res, NEW cfg
    PROVE  \E w, m : DepositsRefreshed(ob.deposits, RefreshedObligation(ob, res, cfg).deposits, w, m)
<1>1. PICK s : s = ob.deposits
    OBVIOUS
<1>2. PICK v, w : /\ w = [i \in DOMAIN s |-> [s[i] EXCEPT !.market_value = v[i]]]
                  /\ RefreshedObligation(ob, res, cfg).deposits = Retain(w, Funded(w))
    <2>1. PICK v : v = [i \in DOMAIN s |->
                          MarketValue(res[s[i].deposit_reserve],
                                      DepositLiquidityAmount(s[i], res[s[i].deposit_reserve]))]
        OBVIOUS
    <2>2. PICK w : w = [i \in DOMAIN s |-> [s[i] EXCEPT !.market_value =
                          MarketValue(res[s[i].deposit_reserve],
                                      DepositLiquidityAmount(s[i], res[s[i].deposit_reserve]))]]
        OBVIOUS
    <2>3. w = [i \in DOMAIN s |-> [s[i] EXCEPT !.market_value = v[i]]]
        BY <2>1, <2>2
    <2>4. RefreshedObligation(ob, res, cfg).deposits = Retain(w, Funded(w))
        BY <1>1, <2>2 DEF RefreshedObligation
    <2> QED BY <2>3, <2>4
<1>3. PICK t : t = RefreshedObligation(ob, res, cfg).deposits
    OBVIOUS
<1>4. s \in Seq(ObligationCollateral)
    BY <1>1 DEF ObligationRec
<1>5. PICK X : w \in Seq(X)
    <2>1. PICK X : X = {w[i] : i \in 1..Len(s)}
        OBVIOUS
    <2>2. Len(s) \in Nat /\ w \in [1..Len(s) -> X]
        <3>1. Len(s) \in Nat /\ DOMAIN s = 1..Len(s)
            BY <1>4
        <3>2. w = [i \in 1..Len(s) |-> w[i]]
            BY <1>2, <3>1
        <3>3. \A i \in 1..Len(s) : w[i] \in X
            BY <2>1
        <3> QED BY <3>1, <3>2, <3>3
    <2>3. w \in UNION {[1..n -> X] : n \in Nat}
        BY <2>2
    <2> QED BY <2>3, SeqDef
<1>6. /\ Len(w) = Len(s) /\ DOMAIN w = 1..Len(s)
      /\ \A i \in 1..Len(s) : /\ w[i].deposit_reserve = s[i].deposit_reserve
                              /\ w[i].deposited_amount = s[i].deposited_amount
    <2>1. DOMAIN w = 1..Len(s) /\ Len(s) \in Nat
        BY <1>2, <1>4
    <2>2. \A i \in 1..Len(s) : s[i] \in ObligationCollateral
        BY <1>4
    <2> QED BY <1>2, <1>5, <2>1, <2>2 DEF ObligationCollateral
<1>7. PICK m : Kept(w, Funded(w), Len(w), t, m)
    BY <1>2, <1>3, <1>5, RetainList
<1> QED BY <1>1, <1>3, <1>5, <1>6, <1>7 DEF DepositsRefreshed

-----------------------------------------------------------------------------
(* A reserve that passes the staleness check was priced in this slot.      *)

\* an update record that is not from the future
PastUpdate == {u \in [slot : Int, stale : BOOLEAN] : u.slot <= slot}

\* PriceFresh of every reserve, those not yet initialised included
AllFresh ==
    \A r \in Reserves : ~reserve_update[r].stale => price_slot[r] = reserve_update[r].slot

(***************************************************************************)
(* AllFresh with what makes it inductive: the types, and that no update    *)
(* is from the future, so that a reserve that is not stale was updated in  *)
(* the current slot.                                                       *)
(***************************************************************************)
PriceInv ==
    /\ slot \in Int
    /\ live \subseteq Reserves
    /\ reserve_update \in [Reserves -> PastUpdate]
    /\ price_slot \in [Reserves -> Int]
    /\ AllFresh

\* A market starts without reserves, so nothing is fresh.
LEMMA InitPriceInv == Init => PriceInv
  BY DEF Init, PriceInv, AllFresh, PastUpdate

\* The update record that a stale mark leaves.
LEMMA MarkedStale ==
  ASSUME PriceInv, NEW r \in Reserves
  PROVE  /\ MarkStale(reserve_update, r)
               = [reserve_update EXCEPT ![r] = [slot |-> reserve_update[r].slot, stale |-> TRUE]]
         /\ [slot |-> reserve_update[r].slot, stale |-> TRUE] \in PastUpdate
<1>1. reserve_update[r] \in [slot : Int, stale : BOOLEAN] /\ reserve_update[r].slot <= slot
  BY DEF PriceInv, PastUpdate
<1>2. [slot |-> reserve_update[r].slot, stale |-> TRUE] \in PastUpdate
  BY <1>1 DEF PastUpdate
<1>. QED
  BY <1>2 DEF MarkStale

\* Marking a reserve stale, whatever else happened to it, keeps the invariant.
LEMMA StaleKeepsPriceInv ==
  ASSUME PriceInv, NEW r \in Reserves,
         \/ reserve_update' = MarkStale(reserve_update, r)
         \/ reserve_update' = [reserve_update EXCEPT ![r] = FreshThenStale],
         UNCHANGED <<slot, live, price_slot>>
  PROVE  PriceInv'
<1>1. PICK u \in PastUpdate : u.stale /\ reserve_update' = [reserve_update EXCEPT ![r] = u]
  <2>1. FreshThenStale \in PastUpdate /\ FreshThenStale.stale
    BY DEF PriceInv, FreshThenStale, PastUpdate
  <2>. QED
    BY <2>1, MarkedStale
<1>2. PastUpdate' = PastUpdate
  BY DEF PastUpdate
<1>. QED
  BY <1>1, <1>2 DEF PriceInv, AllFresh

\* So does reading the price along with the update.
LEMMA PricedKeepsPriceInv ==
  ASSUME PriceInv, NEW r \in Reserves,
         \/ reserve_update' = [reserve_update EXCEPT ![r] = Fresh]
         \/ reserve_update' = [reserve_update EXCEPT ![r] = LastUpdateNew],
         price_slot' = [price_slot EXCEPT ![r] = slot],
         live' \in {live, live \cup {r}}, UNCHANGED slot
  PROVE  PriceInv'
<1>1. PICK u \in PastUpdate : u.slot = slot /\ reserve_update' = [reserve_update EXCEPT ![r] = u]
  <2>1. Fresh \in PastUpdate /\ Fresh.slot = slot
    BY DEF PriceInv, Fresh, PastUpdate
  <2>2. LastUpdateNew \in PastUpdate /\ LastUpdateNew.slot = slot
    BY DEF PriceInv, LastUpdateNew, PastUpdate
  <2>. QED
    BY <2>1, <2>2
<1>2. PastUpdate' = PastUpdate
  BY DEF PastUpdate
<1>. QED
  BY <1>1, <1>2 DEF PriceInv, AllFresh

(***************************************************************************)
(* The interest refresh inside a liquidation clears the stale flag of the  *)
(* withdraw reserve without reading a price.  When nothing is redeemed it  *)
(* stays cleared, which is sound only because the handler found the        *)
(* reserve fresh in this very slot.                                        *)
(***************************************************************************)
LEMMA LiquidateKeepsPriceInv ==
  ASSUME PriceInv, NEW o \in Obligations, NEW p \in Reserves, NEW w \in Reserves,
         NEW amount, NEW liquidator, LiquidateObligation(o, p, w, amount, liquidator)
  PROVE  PriceInv'
<1>1. w \in live /\ ~IsStale(reserve_update[w])
  BY DEF LiquidateObligation, CanLiquidate
<1>2. price_slot[w] = slot
  BY <1>1 DEF PriceInv, AllFresh, IsStale, PastUpdate
<1>3. UNCHANGED <<slot, live, price_slot>>
  BY DEF LiquidateObligation, clockVars, configVars
<1>4. PICK u \in {Fresh, FreshThenStale} :
         reserve_update' = [MarkStale(reserve_update, p) EXCEPT ![w] = u]
  BY DEF LiquidateObligation
<1>5. PICK v \in PastUpdate : v.stale /\ MarkStale(reserve_update, p) = [reserve_update EXCEPT ![p] = v]
  BY MarkedStale
<1>6. u \in PastUpdate /\ u.slot = slot
  <2>1. Fresh \in PastUpdate /\ Fresh.slot = slot
    BY DEF PriceInv, Fresh, PastUpdate
  <2>2. FreshThenStale \in PastUpdate /\ FreshThenStale.slot = slot
    BY DEF PriceInv, FreshThenStale, PastUpdate
  <2>. QED
    BY <2>1, <2>2
<1>7. PastUpdate' = PastUpdate
  BY <1>3 DEF PastUpdate
<1>. QED
  BY <1>2, <1>3, <1>4, <1>5, <1>6, <1>7 DEF PriceInv, AllFresh

\* Every step keeps the invariant.
LEMMA NextPriceInv == PriceInv /\ [Next]_vars => PriceInv'
<1>. SUFFICES ASSUME PriceInv, [Next]_vars PROVE PriceInv'
  OBVIOUS
<1>. USE DEF clockVars, configVars, reserveVars, obligationVars
<1>1. CASE Tick
  BY <1>1 DEF Tick, PriceInv, AllFresh, PastUpdate
<1>2. CASE FlashRepayReserveLiquidity
  <2>1. PICK r : reserve_update' = MarkStale(reserve_update, r) /\ r = flash.reserve
    BY <1>2 DEF FlashRepayReserveLiquidity
  <2>2. CASE r \in Reserves
    BY <1>2, <2>1, <2>2, StaleKeepsPriceInv DEF FlashRepayReserveLiquidity
  <2>3. CASE r \notin Reserves
    BY <1>2, <2>1, <2>3 DEF FlashRepayReserveLiquidity, MarkStale, PriceInv, AllFresh, PastUpdate
  <2>. QED
    BY <2>2, <2>3
<1>3. ASSUME NEW r \in Reserves, ReserveStep(r) PROVE PriceInv'
  <2>1. CASE \E amount, cfg, setup, reading : InitReserve(r, amount, cfg, setup, reading)
    BY <2>1, PricedKeepsPriceInv DEF InitReserve
  <2>2. CASE \E reading : RefreshReserve(r, reading)
    BY <2>2, PricedKeepsPriceInv DEF RefreshReserve
  <2>3. CASE \E amount : DepositReserveLiquidity(r, amount)
    BY <2>3, StaleKeepsPriceInv DEF DepositReserveLiquidity
  <2>4. CASE \E amount : RedeemReserveCollateral(r, amount)
    BY <2>4, StaleKeepsPriceInv DEF RedeemReserveCollateral
  <2>5. CASE RedeemFees(r)
    BY <2>5, StaleKeepsPriceInv DEF RedeemFees
  <2>6. CASE \E amount : FlashBorrowReserveLiquidity(r, amount)
    BY <2>6, StaleKeepsPriceInv DEF FlashBorrowReserveLiquidity
  <2>. QED
    BY <1>3, <2>1, <2>2, <2>3, <2>4, <2>5, <2>6 DEF ReserveStep
<1>4. ASSUME NEW o \in Obligations, InitObligation(o) \/ RefreshObligation(o) PROVE PriceInv'
  BY <1>4 DEF InitObligation, RefreshObligation, PriceInv, AllFresh, PastUpdate
<1>5. ASSUME NEW o \in Obligations, NEW r \in Reserves, PositionStep(o, r) PROVE PriceInv'
  <2>1. CASE \E amount : DepositObligationCollateral(o, r, amount)
    BY <2>1, StaleKeepsPriceInv DEF DepositObligationCollateral
  <2>2. CASE \E amount : DepositReserveLiquidityAndObligationCollateral(o, r, amount)
    BY <2>2, StaleKeepsPriceInv DEF DepositReserveLiquidityAndObligationCollateral
  <2>3. CASE \E amount : WithdrawObligationCollateral(o, r, amount)
    BY <2>3 DEF WithdrawObligationCollateral, PriceInv, AllFresh, PastUpdate
  <2>4. CASE \E amount : WithdrawObligationCollateralAndRedeem(o, r, amount)
    BY <2>4, StaleKeepsPriceInv DEF WithdrawObligationCollateralAndRedeem
  <2>5. CASE \E amount, host : BorrowObligationLiquidity(o, r, amount, host)
    BY <2>5, StaleKeepsPriceInv DEF BorrowObligationLiquidity
  <2>6. CASE \E amount : RepayObligationLiquidity(o, r, amount)
    BY <2>6, StaleKeepsPriceInv DEF RepayObligationLiquidity
  <2>7. CASE \E w \in Reserves : \E amount, liquidator :
                  LiquidateObligation(o, r, w, amount, liquidator)
    BY <2>7, LiquidateKeepsPriceInv
  <2>8. CASE \E amount : ForgiveDebt(o, r, amount)
    BY <2>8, StaleKeepsPriceInv DEF ForgiveDebt
  <2>. QED
    BY <1>5, <2>1, <2>2, <2>3, <2>4, <2>5, <2>6, <2>7, <2>8 DEF PositionStep
<1>6. ASSUME NEW r \in Reserves, NEW signer \in Keys, ConfigStep(r, signer) PROVE PriceInv'
  <2>1. CASE \E cfg, limiter, setup : UpdateReserveConfigByOwner(r, signer, cfg, limiter, setup)
    BY <2>1, StaleKeepsPriceInv DEF UpdateReserveConfigByOwner
  <2>2. CASE \E cfg, limiter : UpdateReserveConfigByRiskAuthority(r, signer, cfg, limiter)
    BY <2>2, StaleKeepsPriceInv DEF UpdateReserveConfigByRiskAuthority
  <2>3. CASE \E cfg : UpdateReserveConfigBySolend(r, signer, cfg)
    BY <2>3, StaleKeepsPriceInv DEF UpdateReserveConfigBySolend
  <2>. QED
    BY <1>6, <2>1, <2>2, <2>3 DEF ConfigStep
<1>7. ASSUME NEW owner, NEW limiter, NEW liquidator, NEW risk,
             SetLendingMarketOwnerAndConfig(owner, limiter, liquidator, risk)
      PROVE  PriceInv'
  BY <1>7 DEF SetLendingMarketOwnerAndConfig, PriceInv, AllFresh, PastUpdate
<1>8. CASE UNCHANGED vars
  BY <1>8 DEF vars, PriceInv, AllFresh, PastUpdate
<1>. QED
  BY <1>1, <1>2, <1>3, <1>4, <1>5, <1>6, <1>7, <1>8 DEF Next

(***************************************************************************)
(* PriceFresh holds in every reachable state: whatever instructions run,   *)
(* in whatever order and slots, a reserve whose stale flag is clear had    *)
(* its price read in the slot of its last update.                          *)
(***************************************************************************)
THEOREM PricesAreFresh == Spec => []PriceFresh
<1>1. Spec => []PriceInv
  BY InitPriceInv, NextPriceInv, PTL DEF Spec
<1>2. PriceInv => PriceFresh
  BY DEF PriceInv, AllFresh, PriceFresh
<1>. QED
  BY <1>1, <1>2, PTL

-----------------------------------------------------------------------------
(* Type correctness.                                                       *)

\* The records LastUpdate's methods leave have their type.
LEMMA UpdatesTyped ==
  ASSUME TypeOK
  PROVE  /\ Fresh \in LastUpdate /\ FreshThenStale \in LastUpdate /\ LastUpdateNew \in LastUpdate
         /\ \A r \in Reserves : MarkStale(reserve_update, r) \in [Reserves -> LastUpdate]
         /\ \A o \in Obligations :
               MarkStale(obligation_update, o) \in [Obligations -> LastUpdate]
<1>1. \A u \in LastUpdate : [slot |-> u.slot, stale |-> TRUE] \in LastUpdate
  BY DEF LastUpdate
<1>2. reserve_update \in [Reserves -> LastUpdate] /\ obligation_update \in [Obligations -> LastUpdate]
  BY DEF TypeOK
<1>3. Fresh \in LastUpdate /\ FreshThenStale \in LastUpdate /\ LastUpdateNew \in LastUpdate
  BY MarketAssumption DEF TypeOK, LastUpdate, Fresh, FreshThenStale, LastUpdateNew
<1>. QED
  BY <1>1, <1>2, <1>3 DEF MarkStale

\* Both limiters keep their types when charged with natural numbers.
LEMMA ChargedTyped ==
  ASSUME TypeOK, NEW r \in Reserves, NEW value \in Nat, NEW tokens \in Nat
  PROVE  /\ [market EXCEPT !.rate_limiter = RateLimiterUpdate(@, slot, value)] \in MarketRec
         /\ [reserve_limiter EXCEPT ![r] = RateLimiterUpdate(@, slot, tokens)]
               \in [Reserves -> RateLimiterRec]
<1>1. slot \in Nat /\ market \in MarketRec /\ reserve_limiter \in [Reserves -> RateLimiterRec]
  BY MarketAssumption DEF TypeOK
<1>2. market.rate_limiter \in RateLimiterRec
  BY <1>1 DEF MarketRec
<1>3. RateLimiterUpdate(market.rate_limiter, slot, value) \in RateLimiterRec
  BY <1>1, <1>2, UpdateTyped
<1>4. RateLimiterUpdate(reserve_limiter[r], slot, tokens) \in RateLimiterRec
  BY <1>1, UpdateTyped
<1>5. [market EXCEPT !.rate_limiter = RateLimiterUpdate(market.rate_limiter, slot, value)]
         \in MarketRec
  BY <1>1, <1>3 DEF MarketRec
<1>. QED
  BY <1>1, <1>4, <1>5

\* A rate-limited redemption charges them with natural numbers.
LEMMA RateLimitedTyped ==
  ASSUME TypeOK, NEW r \in Reserves, NEW c \in Nat, HasExchangeRate(reserve[r]),
         RateLimited(r, reserve[r], c)
  PROVE  market' \in MarketRec /\ reserve_limiter' \in [Reserves -> RateLimiterRec]
<1>1. PICK tokens : tokens = FromU64(LiquidityFor(reserve[r], c))
  OBVIOUS
<1>2. tokens \in Nat
  BY <1>1, LiquidityForNat, ConversionsNat
<1>3. reserve[r] \in ReserveRec
  BY DEF TypeOK
<1>4. MarketValueUpperBound(reserve[r], tokens) \in Nat
  BY <1>2, <1>3, ValueNat
<1>5. /\ market' = [market EXCEPT !.rate_limiter =
                       RateLimiterUpdate(@, slot, MarketValueUpperBound(reserve[r], tokens))]
      /\ reserve_limiter' = [reserve_limiter EXCEPT ![r] = RateLimiterUpdate(@, slot, tokens)]
  BY <1>1 DEF RateLimited
<1>. QED
  BY <1>2, <1>4, <1>5, ChargedTyped

\* A new market, with empty accounts, has its type.
LEMMA InitTyped == Init => TypeOK
<1>. SUFFICES ASSUME Init PROVE TypeOK
  OBVIOUS
<1>1. 0 \in U64 /\ 0 \in U128 /\ U64_MAX \in U64 /\ WalletSupply \in U64 /\ slot \in 1..MaxSlot
  BY WadAssumption, MarketAssumption DEF Init, U64, U128
<1>2. market \in MarketRec
  <2>1. MarketLimiter \in RateLimiterConfig
    BY MarketAssumption
  <2>2. RateLimiterNew(MarketLimiter, 1) \in RateLimiterRec
    BY <2>1, NewLimiter
  <2>. QED
    BY <2>2 DEF Init, MarketRec
<1>3. reserve_limiter \in [Reserves -> RateLimiterRec]
  <2>1. DisabledLimiter \in RateLimiterConfig
    BY <1>1 DEF DisabledLimiter, RateLimiterConfig
  <2>2. RateLimiterNew(DisabledLimiter, 0) \in RateLimiterRec
    BY <2>1, NewLimiter
  <2>. QED
    BY <2>2 DEF Init
<1>4. NoConfig \in ReserveConfig
  BY <1>1 DEF NoConfig, ReserveConfig
<1>5. NoReserve \in ReserveRec
  BY <1>1 DEF NoReserve, ReserveRec
<1>6. NewObligation \in ObligationRec
  BY <1>1 DEF NewObligation, ObligationRec
<1>7. reserve_update \in [Reserves -> LastUpdate] /\ obligation_update \in [Obligations -> LastUpdate]
  BY MarketAssumption DEF Init, LastUpdate
<1>8. token \in [Reserves -> TokenRec]
  BY <1>1 DEF Init, TokenRec
<1>9. price_slot \in [Reserves -> 0..MaxSlot]
  BY MarketAssumption DEF Init
<1>. QED
  BY <1>1, <1>2, <1>3, <1>4, <1>5, <1>6, <1>7, <1>8, <1>9 DEF Init, TypeOK

\* The records an instruction packs, or sets by the token program, are typed.
LEMMA PackedTyped ==
  ASSUME TypeOK
  PROVE  /\ \A r \in Reserves : \A res : PackReserve(r, res) => reserve' \in [Reserves -> ReserveRec]
         /\ \A o \in Obligations : \A ob :
               PackObligation(o, ob) => obligation' \in [Obligations -> ObligationRec]
         /\ \A r \in Reserves : \A t : SetToken(r, t) => token' \in [Reserves -> TokenRec]
<1>. QED
  BY DEF TypeOK, PackReserve, PackObligation, SetToken

\* The steps of one reserve keep the types.
LEMMA ReserveStepTyped ==
  ASSUME TypeOK, NEW r \in Reserves, ReserveStep(r)
  PROVE  TypeOK'
<1>. USE DEF clockVars, configVars, obligationVars
<1>0. slot \in 0..MaxSlot
  BY MarketAssumption DEF TypeOK
<1>1. ASSUME NEW amount \in InitAmounts, NEW cfg \in InitConfigs[r], NEW setup \in OracleSetups,
             NEW reading, InitReserve(r, amount, cfg, setup, reading)
      PROVE  TypeOK'
  <2>1. cfg \in ReserveConfig /\ setup \in [pyth : BOOLEAN, switchboard : BOOLEAN]
    BY MarketAssumption
  <2>2. RateLimiterNew(DisabledLimiter, slot) \in RateLimiterRec
    BY <1>0, WadAssumption, NewLimiter DEF DisabledLimiter, RateLimiterConfig, U64
  <2>3. reserve' \in [Reserves -> ReserveRec] /\ token' \in [Reserves -> TokenRec]
    BY <1>1, PackedTyped DEF InitReserve
  <2>4. reserve_update' \in [Reserves -> LastUpdate]
    BY <1>1, UpdatesTyped DEF InitReserve, TypeOK
  <2>. QED
    BY <1>0, <1>1, <2>1, <2>2, <2>3, <2>4 DEF InitReserve, TypeOK
<1>2. ASSUME NEW reading, RefreshReserve(r, reading)
      PROVE  TypeOK'
  <2>1. reserve' \in [Reserves -> ReserveRec]
    BY <1>2, PackedTyped DEF RefreshReserve
  <2>2. reserve_update' \in [Reserves -> LastUpdate]
    BY <1>2, UpdatesTyped DEF RefreshReserve, TypeOK
  <2>. QED
    BY <1>0, <1>2, <2>1, <2>2 DEF RefreshReserve, TypeOK
<1>3. ASSUME NEW amount, DepositReserveLiquidity(r, amount)
      PROVE  TypeOK'
  <2>1. reserve' \in [Reserves -> ReserveRec] /\ token' \in [Reserves -> TokenRec]
    BY <1>3, PackedTyped DEF DepositReserveLiquidity
  <2>2. reserve_update' \in [Reserves -> LastUpdate]
    BY <1>3, UpdatesTyped DEF DepositReserveLiquidity, TypeOK
  <2>. QED
    BY <1>3, <2>1, <2>2 DEF DepositReserveLiquidity, TypeOK
<1>4. ASSUME NEW amount \in RedeemAmounts, RedeemReserveCollateral(r, amount)
      PROVE  TypeOK'
  <2>1. reserve' \in [Reserves -> ReserveRec] /\ token' \in [Reserves -> TokenRec]
    BY <1>4, PackedTyped DEF RedeemReserveCollateral
  <2>2. reserve_update' \in [Reserves -> LastUpdate]
    BY <1>4, UpdatesTyped DEF RedeemReserveCollateral
  <2>3. amount \in Nat
    BY MarketAssumption, WadAssumption DEF U64
  <2>4. market' \in MarketRec /\ reserve_limiter' \in [Reserves -> RateLimiterRec]
    BY <1>4, <2>3, RateLimitedTyped DEF RedeemReserveCollateral, CanRedeem
  <2>. QED
    BY <1>4, <2>1, <2>2, <2>4 DEF RedeemReserveCollateral, TypeOK
<1>5. ASSUME RedeemFees(r)
      PROVE  TypeOK'
  <2>1. reserve' \in [Reserves -> ReserveRec] /\ token' \in [Reserves -> TokenRec]
    BY <1>5, PackedTyped DEF RedeemFees
  <2>2. reserve_update' \in [Reserves -> LastUpdate]
    BY <1>5, UpdatesTyped DEF RedeemFees
  <2>. QED
    BY <1>5, <2>1, <2>2 DEF RedeemFees, TypeOK
<1>6. ASSUME NEW amount \in FlashAmounts, FlashBorrowReserveLiquidity(r, amount)
      PROVE  TypeOK'
  <2>1. reserve' \in [Reserves -> ReserveRec] /\ token' \in [Reserves -> TokenRec]
    BY <1>6, PackedTyped DEF FlashBorrowReserveLiquidity
  <2>2. reserve_update' \in [Reserves -> LastUpdate]
    BY <1>6, UpdatesTyped DEF FlashBorrowReserveLiquidity, TypeOK
  <2>3. flash' \in [reserve : Reserves, amount : U64]
    BY <1>6, MarketAssumption DEF FlashBorrowReserveLiquidity
  <2>. QED
    BY <1>6, <2>1, <2>2, <2>3 DEF FlashBorrowReserveLiquidity, TypeOK
<1>. QED
  BY <1>1, <1>2, <1>3, <1>4, <1>5, <1>6 DEF ReserveStep

(***************************************************************************)
(* A borrow's terms are natural numbers and split the borrowed amount into *)
(* what the borrower receives and the fee.                                 *)
(***************************************************************************)
LEMMA TermsOfBorrow ==
  ASSUME TypeOK, NEW o \in Obligations, NEW r \in Reserves, NEW amount \in Nat,
         NEW terms \in BorrowTerms(o, r, amount)
  PROVE  /\ terms.borrow_amount \in Nat /\ terms.receive_amount \in Nat
         /\ terms.borrow_fee \in Nat /\ terms.host_fee \in Nat
         /\ terms.receive_amount + terms.borrow_fee = TryFloor(terms.borrow_amount)
<1>1. /\ reserve[r] \in ReserveRec /\ config[r] \in ReserveConfig /\ obligation[o] \in ObligationRec
      /\ reserve_limiter[r] \in RateLimiterRec /\ market.rate_limiter \in RateLimiterRec
      /\ slot \in Nat
  BY MarketAssumption DEF TypeOK, MarketRec
<1>. DEFINE value    == RemainingBorrowValue(obligation[o])
            capacity == MaxOf(FromU64(config[r].borrow_limit) - reserve[r].borrowed_amount_wads, 0)
            left     == RemainingOutflow(reserve_limiter[r], slot)
            usd      == MinOf(RemainingOutflow(market.rate_limiter, slot), value)
<1>2. value \in Nat
  BY <1>1, WadAssumption DEF RemainingBorrowValue, MaxOf, ObligationRec, U128
<1>3. capacity \in Nat
  <2>1. config[r].borrow_limit \in Nat /\ reserve[r].borrowed_amount_wads \in Nat
    BY <1>1, ReserveNat, WadAssumption DEF ReserveConfig, U64
  <2>2. FromU64(config[r].borrow_limit) \in Nat
    BY <2>1, ConversionsNat
  <2>. QED
    BY <2>1, <2>2 DEF MaxOf
<1>4. left \in Nat /\ usd \in Nat
  BY <1>1, <1>2, RemainingNat DEF MinOf
<1>5. PICK limit \in {MinOf(tokens, left) : tokens \in UsdToLiquidityLowerBound(reserve[r], usd)} :
         terms \in CalculateBorrow(config[r], reserve[r], amount, value, MinOf(capacity, limit))
  BY DEF BorrowTerms
<1>. HIDE DEF value, capacity, left, usd
<1>6. limit \in Nat
  <2>1. PICK tokens \in UsdToLiquidityLowerBound(reserve[r], usd) : limit = MinOf(tokens, left)
    BY <1>5
  <2>2. tokens \in Nat
    BY <1>1, <1>4, UsdToLiquidityNat
  <2>. QED
    BY <1>4, <2>1, <2>2 DEF MinOf
<1>7. MinOf(capacity, limit) \in Nat
  BY <1>3, <1>6 DEF MinOf
<1>. QED
  BY <1>1, <1>2, <1>5, <1>7, BorrowSplit

\* What a withdrawal takes is a number of tokens, whatever number caps it.
LEMMA CappedWithdrawNat ==
  ASSUME TypeOK, NEW o \in Obligations, NEW r \in Reserves, NEW amount \in Nat, CanWithdraw(o, r),
         NEW cap \in Nat, NEW withdraw \in WithdrawAmount(o, r, amount, cap)
  PROVE  withdraw \in Nat
<1>1. /\ reserve[r] \in ReserveRec /\ config[r] \in ReserveConfig /\ obligation[o] \in ObligationRec
      /\ HasExchangeRate(reserve[r]) /\ DepositIndex(obligation[o], r) # 0
  BY DEF TypeOK, CanWithdraw
<1>2. DepositIndex(obligation[o], r) \in Nat
      /\ obligation[o].deposits[DepositIndex(obligation[o], r)] \in ObligationCollateral
  <2>1. Len(obligation[o].deposits) \in Nat
    BY <1>1 DEF ObligationRec
  <2>. QED
    BY <1>1, <2>1, DepositIndexIn
<1>3. PICK max \in MaxWithdrawAmount(obligation[o], DepositIndex(obligation[o], r), config[r], reserve[r]) :
         withdraw = MinOf(amount, MinOf(max, cap))
  BY DEF WithdrawAmount
<1>4. max \in Nat
  BY <1>1, <1>2, MaxWithdrawNat
<1>. QED
  BY <1>3, <1>4 DEF MinOf

\* A withdrawal that is redeemed at once is of a natural number of tokens.
LEMMA WithdrawnNat ==
  ASSUME TypeOK, NEW o \in Obligations, NEW r \in Reserves, NEW amount \in Nat, CanWithdraw(o, r),
         NEW cap \in OutflowCollateral(o, r), NEW withdraw \in WithdrawAmount(o, r, amount, cap)
  PROVE  withdraw \in Nat
<1>1. /\ reserve[r] \in ReserveRec /\ config[r] \in ReserveConfig /\ obligation[o] \in ObligationRec
      /\ reserve_limiter[r] \in RateLimiterRec /\ market.rate_limiter \in RateLimiterRec
      /\ slot \in Nat /\ HasExchangeRate(reserve[r]) /\ DepositIndex(obligation[o], r) # 0
  BY MarketAssumption DEF TypeOK, MarketRec, CanWithdraw
<1>. DEFINE left == RemainingOutflow(reserve_limiter[r], slot)
            usd  == MinOf(RemainingOutflow(market.rate_limiter, slot),
                          2 * obligation[o].deposited_value)
<1>2. left \in Nat
  BY <1>1, RemainingNat
<1>3. usd \in Nat
  <2>1. 2 * obligation[o].deposited_value \in Nat
    BY <1>1, WadAssumption DEF ObligationRec, U128
  <2>. QED
    BY <1>1, <2>1, RemainingNat DEF MinOf
<1>4. PICK tokens \in UsdToLiquidityLowerBound(reserve[r], usd) :
         cap = TryFloor(LiquidityToCollateral(reserve[r], MinOf(tokens, left)))
  BY DEF OutflowCollateral
<1>. HIDE DEF left, usd
<1>5. MinOf(tokens, left) \in Nat
  BY <1>1, <1>2, <1>3, UsdToLiquidityNat DEF MinOf
<1>6. cap \in Nat
  BY <1>1, <1>4, <1>5, LiquidityToCollateralNat
<1>. QED
  BY <1>6, CappedWithdrawNat

\* The steps of one obligation with one reserve keep the types.
LEMMA PositionStepTyped ==
  ASSUME TypeOK, NEW o \in Obligations, NEW r \in Reserves, PositionStep(o, r)
  PROVE  TypeOK'
<1>. USE DEF clockVars, configVars, reserveVars
<1>1. ASSUME NEW amount, DepositObligationCollateral(o, r, amount)
      PROVE  TypeOK'
  <2>1. /\ reserve' \in [Reserves -> ReserveRec] /\ token' \in [Reserves -> TokenRec]
        /\ obligation' \in [Obligations -> ObligationRec]
    BY <1>1, PackedTyped DEF DepositObligationCollateral
  <2>2. /\ reserve_update' \in [Reserves -> LastUpdate]
        /\ obligation_update' \in [Obligations -> LastUpdate]
    BY <1>1, UpdatesTyped DEF DepositObligationCollateral, TypeOK
  <2>. QED
    BY <1>1, <2>1, <2>2 DEF DepositObligationCollateral, TypeOK
<1>2. ASSUME NEW amount, DepositReserveLiquidityAndObligationCollateral(o, r, amount)
      PROVE  TypeOK'
  <2>1. /\ reserve' \in [Reserves -> ReserveRec] /\ token' \in [Reserves -> TokenRec]
        /\ obligation' \in [Obligations -> ObligationRec]
    BY <1>2, PackedTyped DEF DepositReserveLiquidityAndObligationCollateral
  <2>2. /\ reserve_update' \in [Reserves -> LastUpdate]
        /\ obligation_update' \in [Obligations -> LastUpdate]
    BY <1>2, UpdatesTyped DEF DepositReserveLiquidityAndObligationCollateral, TypeOK
  <2>. QED
    BY <1>2, <2>1, <2>2 DEF DepositReserveLiquidityAndObligationCollateral, TypeOK
<1>3. ASSUME NEW amount, WithdrawObligationCollateral(o, r, amount)
      PROVE  TypeOK'
  <2>1. /\ token' \in [Reserves -> TokenRec] /\ obligation' \in [Obligations -> ObligationRec]
    BY <1>3, PackedTyped DEF WithdrawObligationCollateral
  <2>2. obligation_update' \in [Obligations -> LastUpdate]
    BY <1>3, UpdatesTyped DEF WithdrawObligationCollateral
  <2>. QED
    BY <1>3, <2>1, <2>2 DEF WithdrawObligationCollateral, TypeOK
<1>4. ASSUME NEW amount \in WithdrawAmounts, WithdrawObligationCollateralAndRedeem(o, r, amount)
      PROVE  TypeOK'
  <2>1. /\ reserve' \in [Reserves -> ReserveRec] /\ token' \in [Reserves -> TokenRec]
        /\ obligation' \in [Obligations -> ObligationRec]
    BY <1>4, PackedTyped DEF WithdrawObligationCollateralAndRedeem
  <2>2. /\ reserve_update' \in [Reserves -> LastUpdate]
        /\ obligation_update' \in [Obligations -> LastUpdate]
    BY <1>4, UpdatesTyped DEF WithdrawObligationCollateralAndRedeem
  <2>3. PICK cap \in OutflowCollateral(o, r) : \E withdraw \in WithdrawAmount(o, r, amount, cap) :
           RateLimited(r, reserve[r], withdraw)
    BY <1>4 DEF WithdrawObligationCollateralAndRedeem
  <2>4. PICK withdraw \in WithdrawAmount(o, r, amount, cap) : RateLimited(r, reserve[r], withdraw)
    BY <2>3
  <2>5. amount \in Nat /\ CanWithdraw(o, r) /\ HasExchangeRate(reserve[r])
    BY <1>4, MarketAssumption, WadAssumption
    DEF U64, WithdrawObligationCollateralAndRedeem, CanWithdraw
  <2>6. withdraw \in Nat
    BY <2>5, WithdrawnNat
  <2>7. market' \in MarketRec /\ reserve_limiter' \in [Reserves -> RateLimiterRec]
    BY <2>4, <2>5, <2>6, RateLimitedTyped
  <2>. QED
    BY <1>4, <2>1, <2>2, <2>7 DEF WithdrawObligationCollateralAndRedeem, TypeOK
<1>5. ASSUME NEW amount \in BorrowAmounts, NEW host, BorrowObligationLiquidity(o, r, amount, host)
      PROVE  TypeOK'
  <2>1. /\ reserve' \in [Reserves -> ReserveRec] /\ token' \in [Reserves -> TokenRec]
        /\ obligation' \in [Obligations -> ObligationRec]
    BY <1>5, PackedTyped DEF BorrowObligationLiquidity
  <2>2. /\ reserve_update' \in [Reserves -> LastUpdate]
        /\ obligation_update' \in [Obligations -> LastUpdate]
    BY <1>5, UpdatesTyped DEF BorrowObligationLiquidity
  <2>3. PICK terms \in BorrowTerms(o, r, amount) :
           /\ market' = [market EXCEPT !.rate_limiter =
                 RateLimiterUpdate(@, slot, MarketValueUpperBound(reserve[r], terms.borrow_amount))]
           /\ reserve_limiter' = [reserve_limiter EXCEPT
                 ![r] = RateLimiterUpdate(@, slot, terms.borrow_amount)]
    BY <1>5 DEF BorrowObligationLiquidity
  <2>4. amount \in Nat
    BY MarketAssumption, WadAssumption DEF U64
  <2>5. terms.borrow_amount \in Nat
    BY <2>4, TermsOfBorrow
  <2>6. MarketValueUpperBound(reserve[r], terms.borrow_amount) \in Nat
    BY <2>5, ValueNat DEF TypeOK
  <2>7. market' \in MarketRec /\ reserve_limiter' \in [Reserves -> RateLimiterRec]
    BY <2>3, <2>5, <2>6, ChargedTyped
  <2>. QED
    BY <1>5, <2>1, <2>2, <2>7 DEF BorrowObligationLiquidity, TypeOK
<1>6. ASSUME NEW amount, RepayObligationLiquidity(o, r, amount)
      PROVE  TypeOK'
  <2>1. /\ reserve' \in [Reserves -> ReserveRec] /\ token' \in [Reserves -> TokenRec]
        /\ obligation' \in [Obligations -> ObligationRec]
    BY <1>6, PackedTyped DEF RepayObligationLiquidity
  <2>2. /\ reserve_update' \in [Reserves -> LastUpdate]
        /\ obligation_update' \in [Obligations -> LastUpdate]
    BY <1>6, UpdatesTyped DEF RepayObligationLiquidity, TypeOK
  <2>. QED
    BY <1>6, <2>1, <2>2 DEF RepayObligationLiquidity, TypeOK
<1>7. ASSUME NEW w \in Reserves, NEW amount, NEW liquidator,
             LiquidateObligation(o, r, w, amount, liquidator)
      PROVE  TypeOK'
  <2>1. /\ reserve' \in [Reserves -> ReserveRec] /\ token' \in [Reserves -> TokenRec]
        /\ obligation' \in [Obligations -> ObligationRec]
    BY <1>7, PackedTyped DEF LiquidateObligation
  <2>2. reserve_update' \in [Reserves -> LastUpdate]
    <3>1. PICK u \in {Fresh, FreshThenStale} :
             reserve_update' = [MarkStale(reserve_update, r) EXCEPT ![w] = u]
      BY <1>7 DEF LiquidateObligation
    <3>. QED
      BY <3>1, UpdatesTyped
  <2>3. obligation_update' \in [Obligations -> LastUpdate]
    BY <1>7, UpdatesTyped DEF LiquidateObligation
  <2>. QED
    BY <1>7, <2>1, <2>2, <2>3 DEF LiquidateObligation, TypeOK
<1>8. ASSUME NEW amount, ForgiveDebt(o, r, amount)
      PROVE  TypeOK'
  <2>1. reserve' \in [Reserves -> ReserveRec] /\ obligation' \in [Obligations -> ObligationRec]
    BY <1>8, PackedTyped DEF ForgiveDebt
  <2>2. /\ reserve_update' \in [Reserves -> LastUpdate]
        /\ obligation_update' \in [Obligations -> LastUpdate]
    BY <1>8, UpdatesTyped DEF ForgiveDebt
  <2>. QED
    BY <1>8, <2>1, <2>2 DEF ForgiveDebt, TypeOK
<1>. QED
  BY <1>1, <1>2, <1>3, <1>4, <1>5, <1>6, <1>7, <1>8 DEF PositionStep

\* The configuration steps keep the types.
LEMMA ConfigStepTyped ==
  ASSUME TypeOK, NEW r \in Reserves, NEW signer \in Keys, ConfigStep(r, signer)
  PROVE  TypeOK'
<1>. USE DEF clockVars, obligationVars
<1>1. slot \in Nat /\ config[r] \in ReserveConfig /\ reserve_limiter[r] \in RateLimiterRec
  BY MarketAssumption DEF TypeOK
<1>2. \A cfg \in ConfigUpdates : cfg \in ReserveConfig
  BY MarketAssumption
<1>3. \A limiter \in LimiterUpdates : RateLimiterNew(limiter, slot) \in RateLimiterRec
  <2>1. \A limiter \in LimiterUpdates : limiter \in RateLimiterConfig
    BY MarketAssumption
  <2>. QED
    BY <1>1, <2>1, NewLimiter
<1>4. ASSUME NEW cfg \in ConfigUpdates, NEW limiter \in LimiterUpdates, NEW setup \in OracleSetups,
             UpdateReserveConfigByOwner(r, signer, cfg, limiter, setup)
      PROVE  TypeOK'
  <2>1. setup \in [pyth : BOOLEAN, switchboard : BOOLEAN]
    BY MarketAssumption
  <2>2. reserve_limiter' \in [Reserves -> RateLimiterRec]
    BY <1>3, <1>4 DEF UpdateReserveConfigByOwner, TypeOK
  <2>3. reserve_update' \in [Reserves -> LastUpdate]
    BY <1>4, UpdatesTyped DEF UpdateReserveConfigByOwner
  <2>. QED
    BY <1>2, <1>4, <2>1, <2>2, <2>3 DEF UpdateReserveConfigByOwner, TypeOK
<1>5. ASSUME NEW cfg \in ConfigUpdates, NEW limiter \in LimiterUpdates,
             UpdateReserveConfigByRiskAuthority(r, signer, cfg, limiter)
      PROVE  TypeOK'
  <2>1. [config[r] EXCEPT !.borrow_limit = MinOf(@, cfg.borrow_limit),
                          !.deposit_limit = MinOf(@, cfg.deposit_limit)] \in ReserveConfig
    <3>1. cfg.borrow_limit \in U64 /\ cfg.deposit_limit \in U64
      BY <1>2 DEF ReserveConfig
    <3>2. config[r].borrow_limit \in U64 /\ config[r].deposit_limit \in U64
      BY <1>1 DEF ReserveConfig
    <3>3. MinOf(config[r].borrow_limit, cfg.borrow_limit) \in U64
          /\ MinOf(config[r].deposit_limit, cfg.deposit_limit) \in U64
      BY <3>1, <3>2 DEF MinOf
    <3>. QED
      BY <1>1, <3>3 DEF ReserveConfig
  <2>2. reserve_limiter' \in [Reserves -> RateLimiterRec]
    BY <1>3, <1>5 DEF UpdateReserveConfigByRiskAuthority, TypeOK
  <2>3. reserve_update' \in [Reserves -> LastUpdate]
    BY <1>5, UpdatesTyped DEF UpdateReserveConfigByRiskAuthority
  <2>4. config' \in [Reserves -> ReserveConfig]
    BY <1>5, <2>1 DEF UpdateReserveConfigByRiskAuthority, TypeOK
  <2>. QED
    BY <1>5, <2>2, <2>3, <2>4 DEF UpdateReserveConfigByRiskAuthority, TypeOK
<1>6. ASSUME NEW cfg \in ConfigUpdates, UpdateReserveConfigBySolend(r, signer, cfg)
      PROVE  TypeOK'
  <2>1. [config[r] EXCEPT !.borrow_fee_wad = cfg.borrow_fee_wad,
                          !.flash_loan_fee_wad = cfg.flash_loan_fee_wad,
                          !.host_fee_percentage = cfg.host_fee_percentage,
                          !.protocol_liquidation_fee = cfg.protocol_liquidation_fee,
                          !.protocol_take_rate = cfg.protocol_take_rate] \in ReserveConfig
    BY <1>1, <1>2 DEF ReserveConfig
  <2>2. config' \in [Reserves -> ReserveConfig]
    BY <1>6, <2>1 DEF UpdateReserveConfigBySolend, TypeOK
  <2>3. reserve_update' \in [Reserves -> LastUpdate]
    BY <1>6, UpdatesTyped DEF UpdateReserveConfigBySolend
  <2>. QED
    BY <1>6, <2>2, <2>3 DEF UpdateReserveConfigBySolend, TypeOK
<1>. QED
  BY <1>4, <1>5, <1>6 DEF ConfigStep

\* Every step keeps the types.
LEMMA NextTyped == TypeOK /\ [Next]_vars => TypeOK'
<1>. SUFFICES ASSUME TypeOK, [Next]_vars PROVE TypeOK'
  OBVIOUS
<1>. USE DEF clockVars, configVars, reserveVars, obligationVars
<1>1. CASE Tick
  BY <1>1, MarketAssumption DEF Tick, TypeOK
<1>2. CASE FlashRepayReserveLiquidity
  <2>1. flash.reserve \in Reserves
    BY <1>2 DEF FlashRepayReserveLiquidity, TypeOK
  <2>2. reserve' \in [Reserves -> ReserveRec] /\ token' \in [Reserves -> TokenRec]
    BY <1>2, <2>1, PackedTyped DEF FlashRepayReserveLiquidity
  <2>3. reserve_update' \in [Reserves -> LastUpdate]
    BY <1>2, <2>1, UpdatesTyped DEF FlashRepayReserveLiquidity
  <2>. QED
    BY <1>2, <2>2, <2>3 DEF FlashRepayReserveLiquidity, TypeOK
<1>3. ASSUME NEW o \in Obligations, InitObligation(o) PROVE TypeOK'
  <2>1. NewObligation \in ObligationRec
    BY WadAssumption DEF NewObligation, ObligationRec, U128
  <2>2. obligation_update' \in [Obligations -> LastUpdate]
    BY <1>3, UpdatesTyped DEF InitObligation, TypeOK
  <2>. QED
    BY <1>3, <2>1, <2>2 DEF InitObligation, TypeOK
<1>4. ASSUME NEW o \in Obligations, RefreshObligation(o) PROVE TypeOK'
  <2>1. obligation' \in [Obligations -> ObligationRec]
    BY <1>4, PackedTyped DEF RefreshObligation
  <2>2. obligation_update' \in [Obligations -> LastUpdate]
    BY <1>4, UpdatesTyped DEF RefreshObligation, TypeOK
  <2>. QED
    BY <1>4, <2>1, <2>2 DEF RefreshObligation, TypeOK
<1>5. ASSUME NEW owner \in Keys, NEW risk \in Keys, NEW liquidator \in Keys \cup {NoKey},
             NEW limiter \in MarketLimiterUpdates,
             SetLendingMarketOwnerAndConfig(owner, limiter, liquidator, risk)
      PROVE  TypeOK'
  <2>1. slot \in Nat /\ limiter \in RateLimiterConfig /\ market.rate_limiter \in RateLimiterRec
    BY MarketAssumption DEF TypeOK, MarketRec
  <2>2. RateLimiterNew(limiter, slot) \in RateLimiterRec
    BY <2>1, NewLimiter
  <2>3. market' \in MarketRec
    BY <1>5, <2>1, <2>2 DEF SetLendingMarketOwnerAndConfig, MarketRec
  <2>. QED
    BY <1>5, <2>3 DEF SetLendingMarketOwnerAndConfig, TypeOK
<1>6. CASE UNCHANGED vars
  BY <1>6 DEF vars, TypeOK
<1>. QED
  BY <1>1, <1>2, <1>3, <1>4, <1>5, <1>6, ReserveStepTyped, PositionStepTyped, ConfigStepTyped
  DEF Next

(***************************************************************************)
(* Every reachable state of a market is well typed: in particular both     *)
(* rate limiters are only ever charged with natural numbers, and no step   *)
(* leaves an account it does not pack outside its widths.                  *)
(***************************************************************************)
THEOREM MarketTyped == Spec => []TypeOK
  BY InitTyped, NextTyped, PTL DEF Spec

-----------------------------------------------------------------------------
(* The vault holds what the reserve says is available.                     *)

TokenFields == {"supply", "fee_receiver", "wallet", "ctoken_mint", "ctoken_supply", "ctoken_wallet"}

\* the balances of a reserve's accounts, within their width or not yet
Balances(t) == t = [f \in TokenFields |-> t[f]]

\* A transfer changes the two balances it names, and only those.
LEMMA TransferFields ==
  ASSUME NEW t, Balances(t), NEW a \in TokenFields, NEW b \in TokenFields, a # b, NEW x
  PROVE  /\ Balances(Transfer(t, a, b, x))
         /\ Transfer(t, a, b, x)[a] = t[a] - x
         /\ Transfer(t, a, b, x)[b] = t[b] + x
         /\ \A f \in TokenFields \ {a, b} : Transfer(t, a, b, x)[f] = t[f]
<1>. QED
  BY DEF Transfer, Balances

\* Minting and burning collateral tokens leaves the liquidity alone.
LEMMA MintFields ==
  ASSUME NEW t, Balances(t), NEW x
  PROVE  /\ Balances(MintTo(t, x)) /\ MintTo(t, x)["supply"] = t["supply"]
         /\ Balances(Burn(t, x)) /\ Burn(t, x)["supply"] = t["supply"]
<1>. QED
  BY DEF MintTo, Burn, Balances, TokenFields

\* The accounts of a market in a typed state are balances.
LEMMA TokenBalances ==
  ASSUME TypeOK, NEW r \in Reserves
  PROVE  Balances(token[r]) /\ token[r].supply \in Nat
<1>. QED
  BY WadAssumption DEF TypeOK, TokenRec, Balances, TokenFields, U64

\* How much liquidity each flow leaves in the vault.
LEMMA VaultFlows ==
  ASSUME NEW t, Balances(t), NEW x, NEW res, NEW c
  PROVE  /\ Transfer(t, "wallet", "supply", x).supply = t.supply + x
         /\ Transfer(t, "supply", "wallet", x).supply = t.supply - x
         /\ Transfer(t, "supply", "fee_receiver", x).supply = t.supply - x
         /\ Transfer(t, "wallet", "fee_receiver", x).supply = t.supply
         /\ Transfer(t, "ctoken_wallet", "ctoken_supply", x).supply = t.supply
         /\ Transfer(t, "ctoken_supply", "ctoken_wallet", x).supply = t.supply
         /\ Deposited(t, res, x).supply = t.supply + x
         /\ Redeemed(t, res, c).supply = t.supply - LiquidityFor(res, c)
         /\ Balances(Deposited(t, res, x)) /\ Balances(Redeemed(t, res, c))
<1>1. \A u, y : Balances(u) =>
         /\ Balances(Transfer(u, "wallet", "supply", y))
         /\ Transfer(u, "wallet", "supply", y).supply = u.supply + y
         /\ Balances(Transfer(u, "supply", "wallet", y))
         /\ Transfer(u, "supply", "wallet", y).supply = u.supply - y
  BY TransferFields DEF TokenFields
<1>2. /\ Transfer(t, "supply", "fee_receiver", x).supply = t.supply - x
      /\ Transfer(t, "wallet", "fee_receiver", x).supply = t.supply
      /\ Transfer(t, "ctoken_wallet", "ctoken_supply", x).supply = t.supply
      /\ Transfer(t, "ctoken_supply", "ctoken_wallet", x).supply = t.supply
  BY TransferFields DEF TokenFields
<1>3. \A u, y : Balances(u) =>
         /\ Balances(MintTo(u, y)) /\ MintTo(u, y).supply = u.supply
         /\ Balances(Burn(u, y)) /\ Burn(u, y).supply = u.supply
  BY MintFields
<1>4. Deposited(t, res, x).supply = t.supply + x /\ Balances(Deposited(t, res, x))
  BY <1>1, <1>3 DEF Deposited
<1>5. Redeemed(t, res, c).supply = t.supply - LiquidityFor(res, c) /\ Balances(Redeemed(t, res, c))
  BY <1>1, <1>3 DEF Redeemed
<1>. QED
  BY <1>1, <1>2, <1>4, <1>5

\* Interest does not touch the available liquidity.
LEMMA InterestKeepsAvailable ==
  ASSUME TypeOK, NEW r \in Reserves, NEW res \in WithInterest(r)
  PROVE  /\ res.available_amount = reserve[r].available_amount
         /\ \A x : DepositLiquidity(res, x).available_amount = reserve[r].available_amount + x
         /\ \A x, y : LiquidityRepay(res, x, y).available_amount = reserve[r].available_amount + x
         /\ \A x : LiquidityBorrow(res, x).available_amount
                       = reserve[r].available_amount - TryFloor(x)
         /\ \A m, p : [res EXCEPT !.market_price = m, !.smoothed_market_price = p].available_amount
                          = reserve[r].available_amount
<1>1. reserve[r] \in ReserveRec
  BY DEF TypeOK
<1>2. CASE res = reserve[r]
  BY <1>1, <1>2 DEF DepositLiquidity, LiquidityRepay, LiquidityBorrow, ReserveRec
<1>3. CASE res # reserve[r]
  <2>1. res = CompoundInterest(config[r], reserve[r], slot - reserve_update[r].slot)
    BY <1>3 DEF WithInterest, AccrueInterest, Result
  <2>2. PICK x, y, z : res = [reserve[r] EXCEPT !.cumulative_borrow_rate_wads = x,
                                                !.accumulated_protocol_fees_wads = y,
                                                !.borrowed_amount_wads = z]
    BY <2>1, Zenon DEF CompoundInterest
  <2>. QED
    BY <1>1, <2>2 DEF DepositLiquidity, LiquidityRepay, LiquidityBorrow, ReserveRec
<1>. QED
  BY <1>2, <1>3

\* A step that leaves one reserve's two records in agreement keeps the invariant.
LEMMA VaultKept ==
  ASSUME TypeOK, VaultMatchesAvailable, NEW r \in Reserves, NEW res, NEW t,
         PackReserve(r, res), SetToken(r, t), t.supply = res.available_amount
  PROVE  VaultMatchesAvailable'
<1>. QED
  BY DEF TypeOK, VaultMatchesAvailable, PackReserve, SetToken

\* The first deposit is minted by init_reserve itself.
LEMMA InitReserveVault ==
  ASSUME TypeOK, VaultMatchesAvailable, NEW r \in Reserves, NEW amount, NEW cfg, NEW setup,
         NEW reading, InitReserve(r, amount, cfg, setup, reading), reserve[r].available_amount = 0
  PROVE  VaultMatchesAvailable'
<1>1. PICK m, p, fresh :
         /\ fresh = [NoReserve EXCEPT !.cumulative_borrow_rate_wads = WAD, !.market_price = m,
                                      !.smoothed_market_price = p]
         /\ PackReserve(r, DepositLiquidity(fresh, amount))
         /\ SetToken(r, Deposited(token[r], fresh, amount))
  BY Zenon DEF InitReserve, Deposited
<1>2. DepositLiquidity(fresh, amount).available_amount = 0 + amount
  BY <1>1 DEF DepositLiquidity, NoReserve
<1>3. Deposited(token[r], fresh, amount).supply = token[r].supply + amount
  BY TokenBalances, VaultFlows
<1>4. token[r].supply = 0
  BY DEF VaultMatchesAvailable
<1>. QED
  BY <1>1, <1>2, <1>3, <1>4, VaultKept

\* The steps of one reserve keep its vault exact.
LEMMA ReserveStepVault ==
  ASSUME TypeOK, VaultMatchesAvailable, NEW r \in Reserves, ReserveStep(r),
         r \notin live => reserve[r].available_amount = 0
  PROVE  VaultMatchesAvailable'
<1>. USE DEF clockVars, configVars, obligationVars
<1>0. /\ token[r].supply = reserve[r].available_amount /\ Balances(token[r])
      /\ token[r].supply \in Nat /\ reserve[r] \in ReserveRec
  BY TokenBalances DEF VaultMatchesAvailable, TypeOK
<1>1. ASSUME NEW amount, NEW cfg, NEW setup, NEW reading,
             InitReserve(r, amount, cfg, setup, reading)
      PROVE  VaultMatchesAvailable'
  BY <1>1, InitReserveVault DEF InitReserve
<1>2. ASSUME NEW reading, RefreshReserve(r, reading)
      PROVE  VaultMatchesAvailable'
  <2>1. PICK res \in WithInterest(r) : \E m, p :
           PackReserve(r, [res EXCEPT !.market_price = m, !.smoothed_market_price = p])
    BY <1>2, Zenon DEF RefreshReserve
  <2>2. PICK m, p :
           PackReserve(r, [res EXCEPT !.market_price = m, !.smoothed_market_price = p])
    BY <2>1
  <2>3. [res EXCEPT !.market_price = m, !.smoothed_market_price = p].available_amount
           = reserve[r].available_amount
    BY InterestKeepsAvailable
  <2>. QED
    BY <1>2, <2>2, <2>3 DEF RefreshReserve, PackReserve, VaultMatchesAvailable, TypeOK
<1>3. ASSUME NEW amount, DepositReserveLiquidity(r, amount)
      PROVE  VaultMatchesAvailable'
  <2>1. PICK res \in WithInterest(r) : /\ PackReserve(r, DepositLiquidity(res, amount))
                                       /\ SetToken(r, Deposited(token[r], res, amount))
    BY <1>3 DEF DepositReserveLiquidity
  <2>2. DepositLiquidity(res, amount).available_amount = reserve[r].available_amount + amount
    BY InterestKeepsAvailable
  <2>3. Deposited(token[r], res, amount).supply = token[r].supply + amount
    BY <1>0, VaultFlows
  <2>. QED
    BY <1>0, <2>1, <2>2, <2>3, VaultKept
<1>4. ASSUME NEW amount, RedeemReserveCollateral(r, amount)
      PROVE  VaultMatchesAvailable'
  <2>1. /\ PackReserve(r, RedeemCollateral(reserve[r], amount))
        /\ SetToken(r, Redeemed(token[r], reserve[r], amount))
    BY <1>4 DEF RedeemReserveCollateral
  <2>2. RedeemCollateral(reserve[r], amount).available_amount
           = reserve[r].available_amount - LiquidityFor(reserve[r], amount)
    BY <1>0 DEF RedeemCollateral, ReserveRec
  <2>3. Redeemed(token[r], reserve[r], amount).supply
           = token[r].supply - LiquidityFor(reserve[r], amount)
    BY <1>0, VaultFlows
  <2>. QED
    BY <1>0, <2>1, <2>2, <2>3, VaultKept
<1>5. ASSUME RedeemFees(r)
      PROVE  VaultMatchesAvailable'
  <2>1. PICK amount : /\ PackReserve(r, LiquidityRedeemFees(reserve[r], amount))
                      /\ SetToken(r, Transfer(token[r], "supply", "fee_receiver", amount))
    BY <1>5 DEF RedeemFees
  <2>2. LiquidityRedeemFees(reserve[r], amount).available_amount
           = reserve[r].available_amount - amount
    BY <1>0 DEF LiquidityRedeemFees, ReserveRec
  <2>3. Transfer(token[r], "supply", "fee_receiver", amount).supply = token[r].supply - amount
    BY <1>0, VaultFlows
  <2>. QED
    BY <1>0, <2>1, <2>2, <2>3, VaultKept
<1>6. ASSUME NEW amount \in FlashAmounts, FlashBorrowReserveLiquidity(r, amount)
      PROVE  VaultMatchesAvailable'
  <2>1. PICK res \in WithInterest(r) : PackReserve(r, LiquidityBorrow(res, FromU64(amount)))
    BY <1>6 DEF FlashBorrowReserveLiquidity
  <2>2. SetToken(r, Transfer(token[r], "supply", "wallet", amount))
    BY <1>6 DEF FlashBorrowReserveLiquidity
  <2>3. amount \in Nat
    BY MarketAssumption, WadAssumption DEF U64
  <2>4. LiquidityBorrow(res, FromU64(amount)).available_amount = reserve[r].available_amount - amount
    BY <2>3, InterestKeepsAvailable, FloorOfWhole
  <2>5. Transfer(token[r], "supply", "wallet", amount).supply = token[r].supply - amount
    BY <1>0, VaultFlows
  <2>. QED
    BY <1>0, <2>1, <2>2, <2>4, <2>5, VaultKept
<1>. QED
  BY <1>1, <1>2, <1>3, <1>4, <1>5, <1>6 DEF ReserveStep

\* A borrow takes out of the vault what it takes off the books, fees included.
LEMMA BorrowVault ==
  ASSUME TypeOK, VaultMatchesAvailable, NEW o \in Obligations, NEW r \in Reserves,
         NEW amount \in Nat, NEW host \in BOOLEAN, BorrowObligationLiquidity(o, r, amount, host)
  PROVE  VaultMatchesAvailable'
<1>1. PICK terms \in BorrowTerms(o, r, amount) :
         /\ PackReserve(r, LiquidityBorrow(reserve[r], terms.borrow_amount))
         /\ SetToken(r, SplitFee(token[r], terms, host))
  BY DEF BorrowObligationLiquidity
<1>2. /\ terms.borrow_amount \in Nat /\ terms.receive_amount \in Nat
      /\ terms.borrow_fee \in Nat /\ terms.host_fee \in Nat
      /\ terms.receive_amount + terms.borrow_fee = TryFloor(terms.borrow_amount)
  BY TermsOfBorrow
<1>3. /\ token[r].supply = reserve[r].available_amount /\ Balances(token[r])
      /\ token[r].supply \in Nat /\ reserve[r] \in ReserveRec
  BY TokenBalances DEF VaultMatchesAvailable, TypeOK
<1>4. LiquidityBorrow(reserve[r], terms.borrow_amount).available_amount
         = reserve[r].available_amount - TryFloor(terms.borrow_amount)
  BY <1>3 DEF LiquidityBorrow, ReserveRec
<1>5. PICK h \in Nat :
         SplitFee(token[r], terms, host)
            = Transfer(Transfer(Transfer(token[r], "supply", "wallet", h),
                                "supply", "fee_receiver", terms.borrow_fee - h),
                       "supply", "wallet", terms.receive_amount)
  BY <1>2 DEF SplitFee
<1>6. PICK t1 : t1 = Transfer(token[r], "supply", "wallet", h)
  OBVIOUS
<1>7. Balances(t1) /\ t1.supply = token[r].supply - h
  BY <1>3, <1>6, TransferFields, VaultFlows DEF TokenFields
<1>8. PICK t2 : t2 = Transfer(t1, "supply", "fee_receiver", terms.borrow_fee - h)
  OBVIOUS
<1>9. Balances(t2) /\ t2.supply = t1.supply - (terms.borrow_fee - h)
  BY <1>7, <1>8, TransferFields, VaultFlows DEF TokenFields
<1>10. SplitFee(token[r], terms, host).supply = t2.supply - terms.receive_amount
  BY <1>5, <1>6, <1>8, <1>9, VaultFlows
<1>11. SplitFee(token[r], terms, host).supply = token[r].supply - TryFloor(terms.borrow_amount)
  BY <1>2, <1>3, <1>7, <1>9, <1>10
<1>. QED
  BY <1>1, <1>3, <1>4, <1>11, VaultKept

(***************************************************************************)
(* A liquidation pays the repaid tokens into one vault and redeems from    *)
(* another, or from the same one.                                          *)
(***************************************************************************)
LEMMA LiquidateVault ==
  ASSUME TypeOK, VaultMatchesAvailable, NEW o \in Obligations, NEW p \in Reserves,
         NEW w \in Reserves, NEW amount, NEW liquidator,
         LiquidateObligation(o, p, w, amount, liquidator)
  PROVE  VaultMatchesAvailable'
<1>. DEFINE terms  == LiquidationTerms(o, w, amount)
            repaid == [reserve EXCEPT ![p] = LiquidityRepay(@, terms.repay_amount,
                                                            terms.settle_amount)]
            paid   == [token EXCEPT ![p] = Transfer(@, "wallet", "supply", terms.repay_amount)]
            seized == [paid EXCEPT ![w] = Transfer(@, "ctoken_supply", "ctoken_wallet",
                                                   terms.withdraw_amount)]
<1>1. \/ reserve' = repaid /\ token' = seized
      \/ \E coll, fee :
            /\ reserve' = [repaid EXCEPT ![w] = RedeemCollateral(@, coll)]
            /\ token' = [seized EXCEPT ![w] = Transfer(Redeemed(@, repaid[w], coll),
                                                      "wallet", "fee_receiver", fee)]
  BY DEF LiquidateObligation, Seized
<1>. HIDE DEF terms
<1>2. /\ reserve \in [Reserves -> ReserveRec] /\ token \in [Reserves -> TokenRec]
      /\ \A r \in Reserves : Balances(token[r]) /\ token[r].supply = reserve[r].available_amount
  BY TokenBalances DEF TypeOK, VaultMatchesAvailable
<1>3. /\ paid = [r \in Reserves |-> paid[r]] /\ repaid = [r \in Reserves |-> repaid[r]]
      /\ \A r \in Reserves : Balances(paid[r]) /\ paid[r].supply = repaid[r].available_amount
  <2>1. LiquidityRepay(reserve[p], terms.repay_amount, terms.settle_amount).available_amount
           = reserve[p].available_amount + terms.repay_amount
    BY <1>2 DEF LiquidityRepay, ReserveRec
  <2>2. /\ Balances(Transfer(token[p], "wallet", "supply", terms.repay_amount))
        /\ Transfer(token[p], "wallet", "supply", terms.repay_amount).supply
              = token[p].supply + terms.repay_amount
    BY <1>2, TransferFields, VaultFlows DEF TokenFields
  <2>. QED
    BY <1>2, <2>1, <2>2
<1>4. DOMAIN repaid[w] = DOMAIN NoReserve
  BY <1>2 DEF LiquidityRepay, ReserveRec, NoReserve
<1>. HIDE DEF paid, repaid
<1>5. /\ seized = [r \in Reserves |-> seized[r]]
      /\ \A r \in Reserves : Balances(seized[r]) /\ seized[r].supply = repaid[r].available_amount
  <2>1. /\ Balances(Transfer(paid[w], "ctoken_supply", "ctoken_wallet", terms.withdraw_amount))
        /\ Transfer(paid[w], "ctoken_supply", "ctoken_wallet", terms.withdraw_amount).supply
              = paid[w].supply
    BY <1>3, TransferFields, VaultFlows DEF TokenFields
  <2>. QED
    BY <1>3, <2>1
<1>. HIDE DEF seized
<1>6. CASE reserve' = repaid /\ token' = seized
  BY <1>5, <1>6 DEF VaultMatchesAvailable
<1>7. ASSUME NEW coll, NEW fee,
             reserve' = [repaid EXCEPT ![w] = RedeemCollateral(@, coll)],
             token' = [seized EXCEPT ![w] = Transfer(Redeemed(@, repaid[w], coll),
                                                     "wallet", "fee_receiver", fee)]
      PROVE  VaultMatchesAvailable'
  <2>1. RedeemCollateral(repaid[w], coll).available_amount
           = repaid[w].available_amount - LiquidityFor(repaid[w], coll)
    BY <1>4 DEF RedeemCollateral, NoReserve
  <2>2. PICK t : t = Redeemed(seized[w], repaid[w], coll)
    OBVIOUS
  <2>3. Balances(t) /\ t.supply = seized[w].supply - LiquidityFor(repaid[w], coll)
    BY <1>5, <2>2, VaultFlows
  <2>4. Transfer(t, "wallet", "fee_receiver", fee).supply = t.supply
    BY <2>3, VaultFlows
  <2>5. reserve'[w].available_amount = token'[w].supply
    BY <1>3, <1>5, <1>7, <2>1, <2>2, <2>3, <2>4
  <2>6. \A r \in Reserves \ {w} : reserve'[r] = repaid[r] /\ token'[r] = seized[r]
    BY <1>3, <1>5, <1>7
  <2>. QED
    BY <1>5, <2>5, <2>6 DEF VaultMatchesAvailable
<1>. QED
  BY <1>1, <1>6, <1>7

\* The steps of one obligation with one reserve keep the vaults exact.
LEMMA PositionStepVault ==
  ASSUME TypeOK, VaultMatchesAvailable, NEW o \in Obligations, NEW r \in Reserves,
         PositionStep(o, r)
  PROVE  VaultMatchesAvailable'
<1>. USE DEF clockVars, configVars, reserveVars
<1>0. /\ token[r].supply = reserve[r].available_amount /\ Balances(token[r])
      /\ token[r].supply \in Nat /\ reserve[r] \in ReserveRec
  BY TokenBalances DEF VaultMatchesAvailable, TypeOK
<1>1. ASSUME NEW amount, DepositObligationCollateral(o, r, amount)
      PROVE  VaultMatchesAvailable'
  <2>1. PICK res \in WithInterest(r) : PackReserve(r, res)
    BY <1>1 DEF DepositObligationCollateral
  <2>2. SetToken(r, Transfer(token[r], "ctoken_wallet", "ctoken_supply", amount))
    BY <1>1 DEF DepositObligationCollateral
  <2>3. /\ res.available_amount = reserve[r].available_amount
        /\ Transfer(token[r], "ctoken_wallet", "ctoken_supply", amount).supply = token[r].supply
    BY <1>0, InterestKeepsAvailable, VaultFlows
  <2>. QED
    BY <1>0, <2>1, <2>2, <2>3, VaultKept
<1>2. ASSUME NEW amount, DepositReserveLiquidityAndObligationCollateral(o, r, amount)
      PROVE  VaultMatchesAvailable'
  <2>1. PICK res \in WithInterest(r) :
           /\ PackReserve(r, DepositLiquidity(res, amount))
           /\ SetToken(r, Transfer(Deposited(token[r], res, amount),
                                   "ctoken_wallet", "ctoken_supply", CollateralFor(res, amount)))
    BY <1>2 DEF DepositReserveLiquidityAndObligationCollateral
  <2>2. DepositLiquidity(res, amount).available_amount = reserve[r].available_amount + amount
    BY InterestKeepsAvailable
  <2>3. PICK t : t = Deposited(token[r], res, amount)
    OBVIOUS
  <2>4. Balances(t) /\ t.supply = token[r].supply + amount
    BY <1>0, <2>3, VaultFlows
  <2>5. Transfer(t, "ctoken_wallet", "ctoken_supply", CollateralFor(res, amount)).supply = t.supply
    BY <2>4, VaultFlows
  <2>. QED
    BY <1>0, <2>1, <2>2, <2>3, <2>4, <2>5, VaultKept
<1>3. ASSUME NEW amount, WithdrawObligationCollateral(o, r, amount)
      PROVE  VaultMatchesAvailable'
  <2>1. PICK withdraw : SetToken(r, Transfer(token[r], "ctoken_supply", "ctoken_wallet", withdraw))
    BY <1>3 DEF WithdrawObligationCollateral
  <2>2. Transfer(token[r], "ctoken_supply", "ctoken_wallet", withdraw).supply = token[r].supply
    BY <1>0, VaultFlows
  <2>. QED
    BY <1>3, <2>1, <2>2
    DEF WithdrawObligationCollateral, SetToken, VaultMatchesAvailable, TypeOK
<1>4. ASSUME NEW amount, WithdrawObligationCollateralAndRedeem(o, r, amount)
      PROVE  VaultMatchesAvailable'
  <2>1. PICK withdraw :
           /\ PackReserve(r, RedeemCollateral(reserve[r], withdraw))
           /\ SetToken(r, Redeemed(Transfer(token[r], "ctoken_supply", "ctoken_wallet", withdraw),
                                   reserve[r], withdraw))
    BY <1>4 DEF WithdrawObligationCollateralAndRedeem
  <2>2. RedeemCollateral(reserve[r], withdraw).available_amount
           = reserve[r].available_amount - LiquidityFor(reserve[r], withdraw)
    BY <1>0 DEF RedeemCollateral, ReserveRec
  <2>3. PICK t : t = Transfer(token[r], "ctoken_supply", "ctoken_wallet", withdraw)
    OBVIOUS
  <2>4. Balances(t) /\ t.supply = token[r].supply
    BY <1>0, <2>3, TransferFields, VaultFlows DEF TokenFields
  <2>5. Redeemed(t, reserve[r], withdraw).supply = t.supply - LiquidityFor(reserve[r], withdraw)
    BY <2>4, VaultFlows
  <2>. QED
    BY <1>0, <2>1, <2>2, <2>3, <2>4, <2>5, VaultKept
<1>5. ASSUME NEW amount \in BorrowAmounts, NEW host \in BOOLEAN,
             BorrowObligationLiquidity(o, r, amount, host)
      PROVE  VaultMatchesAvailable'
  <2>1. amount \in Nat
    BY MarketAssumption, WadAssumption DEF U64
  <2>. QED
    BY <1>5, <2>1, BorrowVault
<1>6. ASSUME NEW amount, RepayObligationLiquidity(o, r, amount)
      PROVE  VaultMatchesAvailable'
  <2>1. PICK res \in WithInterest(r) : \E pay, settle :
           /\ PackReserve(r, LiquidityRepay(res, pay, settle))
           /\ SetToken(r, Transfer(token[r], "wallet", "supply", pay))
    BY <1>6 DEF RepayObligationLiquidity
  <2>2. PICK pay, settle : /\ PackReserve(r, LiquidityRepay(res, pay, settle))
                           /\ SetToken(r, Transfer(token[r], "wallet", "supply", pay))
    BY <2>1
  <2>3. /\ LiquidityRepay(res, pay, settle).available_amount = reserve[r].available_amount + pay
        /\ Transfer(token[r], "wallet", "supply", pay).supply = token[r].supply + pay
    BY <1>0, InterestKeepsAvailable, VaultFlows
  <2>. QED
    BY <1>0, <2>2, <2>3, VaultKept
<1>7. ASSUME NEW amount, ForgiveDebt(o, r, amount)
      PROVE  VaultMatchesAvailable'
  <2>1. PICK forgive : PackReserve(r, LiquidityForgiveDebt(reserve[r], forgive))
    BY <1>7 DEF ForgiveDebt
  <2>2. LiquidityForgiveDebt(reserve[r], forgive).available_amount = reserve[r].available_amount
    BY <1>0 DEF LiquidityForgiveDebt, ReserveRec
  <2>. QED
    BY <1>7, <2>1, <2>2 DEF ForgiveDebt, PackReserve, VaultMatchesAvailable, TypeOK
<1>. QED
  BY <1>1, <1>2, <1>3, <1>4, <1>5, <1>6, <1>7, LiquidateVault DEF PositionStep

(***************************************************************************)
(* A reserve that is not initialised is empty, and a flash loan is out of  *)
(* one that is: what init_reserve, which starts the reserve's books        *)
(* afresh, relies on.                                                      *)
(***************************************************************************)
IdleEmpty ==
    /\ \A r \in Reserves \ live : reserve[r] = NoReserve
    /\ flash # NoFlash => flash.reserve \in live

VaultInv == TypeOK /\ VaultMatchesAvailable /\ IdleEmpty

\* A step that changes only initialised reserves leaves the others empty.
LEMMA IdleKept ==
  ASSUME IdleEmpty, live \subseteq live', flash' = flash \/ flash' = NoFlash,
         \A r \in Reserves \ live' : reserve'[r] = reserve[r]
  PROVE  IdleEmpty'
<1>. QED
  BY DEF IdleEmpty

\* Packing one reserve changes no other.
LEMMA OtherReserves ==
  ASSUME TypeOK, NEW r \in Reserves, NEW res, PackReserve(r, res)
  PROVE  \A q \in Reserves \ {r} : reserve'[q] = reserve[q]
<1>. QED
  BY DEF TypeOK, PackReserve

\* Every instruction asks for an initialised reserve, or makes one.
LEMMA NextIdle ==
  ASSUME TypeOK, IdleEmpty, Next
  PROVE  IdleEmpty'
<1>. USE DEF clockVars, configVars, reserveVars, obligationVars
<1>1. CASE Tick
  BY <1>1, IdleKept DEF Tick
<1>2. CASE FlashRepayReserveLiquidity
  <2>1. flash.reserve \in live /\ flash.reserve \in Reserves
    BY <1>2 DEF FlashRepayReserveLiquidity, IdleEmpty, TypeOK
  <2>2. \A q \in Reserves \ {flash.reserve} : reserve'[q] = reserve[q]
    BY <1>2, <2>1, OtherReserves DEF FlashRepayReserveLiquidity
  <2>. QED
    BY <1>2, <2>1, <2>2, IdleKept DEF FlashRepayReserveLiquidity
<1>3. ASSUME NEW r \in Reserves, ReserveStep(r) PROVE IdleEmpty'
  <2>1. \A q \in Reserves \ {r} : reserve'[q] = reserve[q]
    BY <1>3, OtherReserves
    DEF ReserveStep, InitReserve, RefreshReserve, DepositReserveLiquidity,
        RedeemReserveCollateral, RedeemFees, FlashBorrowReserveLiquidity
  <2>2. live \subseteq live' /\ r \in live'
    BY <1>3
    DEF ReserveStep, InitReserve, RefreshReserve, DepositReserveLiquidity,
        RedeemReserveCollateral, RedeemFees, FlashBorrowReserveLiquidity
  <2>3. CASE \E amount \in FlashAmounts : FlashBorrowReserveLiquidity(r, amount)
    BY <2>1, <2>2, <2>3 DEF FlashBorrowReserveLiquidity, IdleEmpty
  <2>4. CASE ~\E amount \in FlashAmounts : FlashBorrowReserveLiquidity(r, amount)
    <3>1. flash' = flash
      BY <1>3, <2>4
      DEF ReserveStep, InitReserve, RefreshReserve, DepositReserveLiquidity,
          RedeemReserveCollateral, RedeemFees
    <3>. QED
      BY <2>1, <2>2, <3>1, IdleKept
  <2>. QED
    BY <2>3, <2>4
<1>4. ASSUME NEW o \in Obligations, InitObligation(o) \/ RefreshObligation(o) PROVE IdleEmpty'
  BY <1>4, IdleKept DEF InitObligation, RefreshObligation
<1>5. ASSUME NEW o \in Obligations, NEW r \in Reserves, PositionStep(o, r) PROVE IdleEmpty'
  <2>1. CASE \E w \in Reserves : \E amount, liquidator :
                LiquidateObligation(o, r, w, amount, liquidator)
    <3>1. PICK w \in Reserves : \E x, y :
             /\ r \in live /\ w \in live /\ UNCHANGED <<live, flash>>
             /\ reserve' = [reserve EXCEPT ![r] = x]
                \/ reserve' = [[reserve EXCEPT ![r] = x] EXCEPT ![w] = y]
      BY <2>1 DEF LiquidateObligation, CanLiquidate
    <3>. QED
      BY <3>1, IdleKept DEF TypeOK
  <2>2. CASE ~\E w \in Reserves : \E amount, liquidator :
                LiquidateObligation(o, r, w, amount, liquidator)
    <3>1. r \in live /\ UNCHANGED <<live, flash>>
      BY <1>5, <2>2
      DEF PositionStep, DepositObligationCollateral, DepositReserveLiquidityAndObligationCollateral,
          WithdrawObligationCollateral, WithdrawObligationCollateralAndRedeem, CanWithdraw,
          BorrowObligationLiquidity, CanBorrow, RepayObligationLiquidity, ForgiveDebt
    <3>2. \A q \in Reserves \ {r} : reserve'[q] = reserve[q]
      BY <1>5, <2>2, OtherReserves
      DEF PositionStep, DepositObligationCollateral, DepositReserveLiquidityAndObligationCollateral,
          WithdrawObligationCollateral, WithdrawObligationCollateralAndRedeem,
          BorrowObligationLiquidity, RepayObligationLiquidity, ForgiveDebt
    <3>. QED
      BY <3>1, <3>2, IdleKept
  <2>. QED
    BY <2>1, <2>2
<1>6. ASSUME NEW r \in Reserves, NEW signer \in Keys, ConfigStep(r, signer) PROVE IdleEmpty'
  BY <1>6, IdleKept
  DEF ConfigStep, UpdateReserveConfigByOwner, UpdateReserveConfigByRiskAuthority,
      UpdateReserveConfigBySolend
<1>7. ASSUME NEW owner, NEW limiter, NEW liquidator, NEW risk,
             SetLendingMarketOwnerAndConfig(owner, limiter, liquidator, risk)
      PROVE  IdleEmpty'
  BY <1>7, IdleKept DEF SetLendingMarketOwnerAndConfig
<1>. QED
  BY <1>1, <1>2, <1>3, <1>4, <1>5, <1>6, <1>7 DEF Next

\* Every step keeps the invariant.
LEMMA NextVaultInv == VaultInv /\ [Next]_vars => VaultInv'
<1>. SUFFICES ASSUME VaultInv, [Next]_vars PROVE VaultInv'
  OBVIOUS
<1>. USE DEF clockVars, configVars, reserveVars, obligationVars
<1>0. TypeOK /\ VaultMatchesAvailable /\ IdleEmpty
  BY DEF VaultInv
<1>1. CASE UNCHANGED vars
  BY <1>0, <1>1, NextTyped DEF vars, VaultInv, VaultMatchesAvailable, IdleEmpty
<1>2. CASE Next
  <2>1. ASSUME FlashRepayReserveLiquidity PROVE VaultMatchesAvailable'
    <3>1. PICK r, f : /\ r = flash.reserve
                      /\ PackReserve(r, LiquidityRepay(reserve[r], flash.amount, FromU64(flash.amount)))
                      /\ SetToken(r, Transfer(Transfer(token[r], "wallet", "supply", flash.amount),
                                              "wallet", "fee_receiver", f))
      BY <2>1 DEF FlashRepayReserveLiquidity
    <3>2. r \in Reserves
      BY <1>0, <2>1, <3>1 DEF FlashRepayReserveLiquidity, TypeOK
    <3>3. reserve[r] \in ReserveRec /\ Balances(token[r])
          /\ token[r].supply = reserve[r].available_amount
      BY <1>0, <3>2, TokenBalances DEF TypeOK, VaultMatchesAvailable
    <3>4. LiquidityRepay(reserve[r], flash.amount, FromU64(flash.amount)).available_amount
             = reserve[r].available_amount + flash.amount
      BY <3>3 DEF LiquidityRepay, ReserveRec
    <3>5. PICK t : t = Transfer(token[r], "wallet", "supply", flash.amount)
      OBVIOUS
    <3>6. Balances(t) /\ t.supply = token[r].supply + flash.amount
      BY <3>3, <3>5, TransferFields, VaultFlows DEF TokenFields
    <3>7. Transfer(t, "wallet", "fee_receiver", f).supply = t.supply
      BY <3>6, VaultFlows
    <3>. QED
      BY <1>0, <3>1, <3>2, <3>3, <3>4, <3>5, <3>6, <3>7, VaultKept
  <2>2. ASSUME NEW r \in Reserves, ReserveStep(r) PROVE VaultMatchesAvailable'
    BY <1>0, <2>2, ReserveStepVault DEF IdleEmpty, NoReserve
  <2>3. ASSUME NEW o \in Obligations, NEW r \in Reserves, PositionStep(o, r)
        PROVE  VaultMatchesAvailable'
    BY <1>0, <2>3, PositionStepVault
  <2>4. ASSUME UNCHANGED <<reserve, token>> PROVE VaultMatchesAvailable'
    BY <1>0, <2>4 DEF VaultMatchesAvailable
  <2>5. Tick => UNCHANGED <<reserve, token>>
    BY DEF Tick
  <2>6. \A o \in Obligations : InitObligation(o) \/ RefreshObligation(o) => UNCHANGED <<reserve, token>>
    BY DEF InitObligation, RefreshObligation
  <2>7. \A r \in Reserves, signer \in Keys : ConfigStep(r, signer) => UNCHANGED <<reserve, token>>
    BY DEF ConfigStep, UpdateReserveConfigByOwner, UpdateReserveConfigByRiskAuthority,
           UpdateReserveConfigBySolend
  <2>8. \A owner, limiter, liquidator, risk :
           SetLendingMarketOwnerAndConfig(owner, limiter, liquidator, risk)
              => UNCHANGED <<reserve, token>>
    BY DEF SetLendingMarketOwnerAndConfig
  <2>9. VaultMatchesAvailable'
    BY <1>2, <2>1, <2>2, <2>3, <2>4, <2>5, <2>6, <2>7, <2>8 DEF Next
  <2>. QED
    BY <1>0, <1>2, <2>9, NextTyped, NextIdle DEF VaultInv
<1>. QED
  BY <1>1, <1>2

(***************************************************************************)
(* VaultMatchesAvailable holds in every reachable state: available_amount, *)
(* which the program keeps itself, never drifts from the balance of the    *)
(* liquidity supply account, whatever is rounded or split on the way.      *)
(***************************************************************************)
THEOREM VaultExact == Spec => []VaultMatchesAvailable
<1>1. Init => VaultInv
  <2>1. Init => TypeOK
    BY InitTyped
  <2>2. Init => VaultMatchesAvailable /\ IdleEmpty
    BY DEF Init, VaultMatchesAvailable, IdleEmpty, NoReserve
  <2>. QED
    BY <2>1, <2>2 DEF VaultInv
<1>2. Spec => []VaultInv
  BY <1>1, NextVaultInv, PTL DEF Spec
<1>. QED
  BY <1>2, PTL DEF VaultInv

-----------------------------------------------------------------------------
(* Instructions on obligations.                                            *)

\* Packing one obligation changes no other.
LEMMA OtherObligations ==
    ASSUME TypeOK, NEW o \in Obligations, NEW ob, PackObligation(o, ob)
    PROVE  \A q \in Obligations \ {o} : obligation'[q] = obligation[q]
<1> QED BY DEF TypeOK, PackObligation

(***************************************************************************)
(* What an instruction on a position does: it writes one obligation, which *)
(* is initialised, marks it stale and reads no price.                      *)
(***************************************************************************)
WritesPosition(o) ==
    /\ o \in open /\ \E ob : PackObligation(o, ob)
    /\ obligation_update' = MarkStale(obligation_update, o)
    /\ UNCHANGED <<open, slot, live, config, price_slot>>

\* It writes one obligation.
LEMMA PositionStepWrites ==
    ASSUME NEW o, NEW r, PositionStep(o, r)
    PROVE  WritesPosition(o)
<1> USE DEF WritesPosition, clockVars, configVars, reserveVars
<1>1. ASSUME NEW amount PROVE DepositObligationCollateral(o, r, amount) => WritesPosition(o)
    BY DEF DepositObligationCollateral
<1>2. ASSUME NEW amount
      PROVE  DepositReserveLiquidityAndObligationCollateral(o, r, amount) => WritesPosition(o)
    BY DEF DepositReserveLiquidityAndObligationCollateral
<1>3. ASSUME NEW amount PROVE WithdrawObligationCollateral(o, r, amount) => WritesPosition(o)
    BY DEF WithdrawObligationCollateral, CanWithdraw
<1>4. ASSUME NEW amount
      PROVE  WithdrawObligationCollateralAndRedeem(o, r, amount) => WritesPosition(o)
    BY DEF WithdrawObligationCollateralAndRedeem, CanWithdraw
<1>5. ASSUME NEW amount, NEW host
      PROVE  BorrowObligationLiquidity(o, r, amount, host) => WritesPosition(o)
    BY DEF BorrowObligationLiquidity, CanBorrow
<1>6. ASSUME NEW amount PROVE RepayObligationLiquidity(o, r, amount) => WritesPosition(o)
    BY DEF RepayObligationLiquidity
<1>7. ASSUME NEW w, NEW amount, NEW liquidator
      PROVE  LiquidateObligation(o, r, w, amount, liquidator) => WritesPosition(o)
    BY DEF LiquidateObligation, CanLiquidate
<1>8. ASSUME NEW amount PROVE ForgiveDebt(o, r, amount) => WritesPosition(o)
    BY DEF ForgiveDebt
<1> HIDE DEF WritesPosition
<1> QED BY <1>1, <1>2, <1>3, <1>4, <1>5, <1>6, <1>7, <1>8 DEF PositionStep

\* The other instructions leave every obligation alone.
LEMMA ObligationsWritten ==
    ASSUME Next
    PROVE  \/ UNCHANGED obligationVars
           \/ \E o \in Obligations : InitObligation(o) \/ RefreshObligation(o)
           \/ \E o \in Obligations, r \in Reserves : PositionStep(o, r)
<1>1. Tick \/ FlashRepayReserveLiquidity => UNCHANGED obligationVars
    BY DEF Tick, FlashRepayReserveLiquidity
<1>2. ASSUME NEW r PROVE ReserveStep(r) => UNCHANGED obligationVars
    <2>1. ASSUME NEW amount, NEW cfg, NEW setup, NEW reading
          PROVE  InitReserve(r, amount, cfg, setup, reading) => UNCHANGED obligationVars
        BY DEF InitReserve
    <2>2. ASSUME NEW reading
          PROVE  RefreshReserve(r, reading) \/ RedeemFees(r) => UNCHANGED obligationVars
        BY Zenon DEF RefreshReserve, RedeemFees
    <2>3. ASSUME NEW amount
          PROVE  DepositReserveLiquidity(r, amount) \/ RedeemReserveCollateral(r, amount)
                    \/ FlashBorrowReserveLiquidity(r, amount) => UNCHANGED obligationVars
        BY DEF DepositReserveLiquidity, RedeemReserveCollateral, FlashBorrowReserveLiquidity
    <2> QED BY <2>1, <2>2, <2>3 DEF ReserveStep
<1>3. ASSUME NEW r, NEW signer PROVE ConfigStep(r, signer) => UNCHANGED obligationVars
    BY DEF ConfigStep, UpdateReserveConfigByOwner, UpdateReserveConfigByRiskAuthority,
           UpdateReserveConfigBySolend
<1>4. ASSUME NEW owner, NEW limiter, NEW liquidator, NEW risk
      PROVE  SetLendingMarketOwnerAndConfig(owner, limiter, liquidator, risk)
                => UNCHANGED obligationVars
    BY DEF SetLendingMarketOwnerAndConfig
<1> QED BY <1>1, <1>2, <1>3, <1>4 DEF Next

\* A step of the market in which the clock does not move reads prices, if
\* any, in the current slot.
LEMMA PricesRead ==
    ASSUME PriceInv, Next
    PROVE  \/ Tick
           \/ /\ slot' = slot
              /\ \A r \in Reserves : price_slot'[r] \in {price_slot[r], slot}
<1> DEFINE Reads == /\ slot' = slot
                    /\ \A r \in Reserves : price_slot'[r] \in {price_slot[r], slot}
<1> USE DEF clockVars, configVars, reserveVars, obligationVars, PriceInv
<1>1. FlashRepayReserveLiquidity => Reads
    BY DEF FlashRepayReserveLiquidity
<1>2. ASSUME NEW r \in Reserves PROVE ReserveStep(r) => Reads
    <2>1. ASSUME NEW amount, NEW cfg, NEW setup, NEW reading
          PROVE  InitReserve(r, amount, cfg, setup, reading) => Reads
        BY DEF InitReserve
    <2>2. ASSUME NEW reading PROVE RefreshReserve(r, reading) => Reads
        BY DEF RefreshReserve
    <2>3. ASSUME NEW amount
          PROVE  DepositReserveLiquidity(r, amount) \/ RedeemReserveCollateral(r, amount)
                    \/ FlashBorrowReserveLiquidity(r, amount) => Reads
        BY DEF DepositReserveLiquidity, RedeemReserveCollateral, FlashBorrowReserveLiquidity
    <2>4. RedeemFees(r) => Reads
        BY DEF RedeemFees
    <2> HIDE DEF Reads
    <2> QED BY <2>1, <2>2, <2>3, <2>4 DEF ReserveStep
<1>3. ASSUME NEW r, NEW signer PROVE ConfigStep(r, signer) => Reads
    BY DEF ConfigStep, UpdateReserveConfigByOwner, UpdateReserveConfigByRiskAuthority,
           UpdateReserveConfigBySolend
<1>4. ASSUME NEW owner, NEW limiter, NEW liquidator, NEW risk
      PROVE  SetLendingMarketOwnerAndConfig(owner, limiter, liquidator, risk) => Reads
    BY DEF SetLendingMarketOwnerAndConfig
<1>5. ASSUME NEW o PROVE InitObligation(o) \/ RefreshObligation(o) => Reads
    BY DEF InitObligation, RefreshObligation
<1>6. ASSUME NEW o, NEW r, PositionStep(o, r) PROVE Reads
    BY <1>6, PositionStepWrites DEF WritesPosition
<1> HIDE DEF Reads
<1>7. Tick \/ Reads
    BY <1>1, <1>2, <1>3, <1>4, <1>5, <1>6 DEF Next
<1> QED BY <1>7 DEF Reads

-----------------------------------------------------------------------------
(* An obligation that passes the staleness check was valued in this slot.  *)

\* A refresh adds no position: its lists refer to reserves they referred to.
LEMMA RefreshKeepsReserves ==
    ASSUME NEW ob \in ObligationRec, NEW res, NEW cfg \in [Reserves -> ReserveConfig],
           RefreshedObligation(ob, res, cfg) \in ObligationRec
    PROVE  /\ DepositReserves(RefreshedObligation(ob, res, cfg)) \subseteq DepositReserves(ob)
           /\ BorrowReserves(RefreshedObligation(ob, res, cfg)) \subseteq BorrowReserves(ob)
<1>1. PICK t \in ObligationRec : t = RefreshedObligation(ob, res, cfg)
    OBVIOUS
<1>2. /\ DOMAIN ob.borrows = 1..Len(ob.borrows) /\ DOMAIN t.borrows = 1..Len(t.borrows)
      /\ DOMAIN ob.deposits = 1..Len(ob.deposits) /\ DOMAIN t.deposits = 1..Len(t.deposits)
    BY DEF ObligationRec
<1>3. BorrowReserves(t) \subseteq BorrowReserves(ob)
    <2>1. PICK m : BorrowsRefreshed(ob.borrows, t.borrows, res, cfg, m)
        BY <1>1, RefreshedBorrows
    <2>2. \A k \in 1..Len(t.borrows) :
             m[k] \in 1..Len(ob.borrows)
             /\ t.borrows[k].borrow_reserve = ob.borrows[m[k]].borrow_reserve
        BY <2>1 DEF BorrowsRefreshed
    <2> QED BY <1>2, <2>2 DEF BorrowReserves
<1>4. DepositReserves(t) \subseteq DepositReserves(ob)
    <2>1. PICK w, m : DepositsRefreshed(ob.deposits, t.deposits, w, m)
        BY <1>1, RefreshedDeposits
    <2>2. /\ Kept(w, Funded(w), Len(w), t.deposits, m) /\ Len(w) = Len(ob.deposits)
          /\ \A i \in 1..Len(ob.deposits) : w[i].deposit_reserve = ob.deposits[i].deposit_reserve
        BY <2>1 DEF DepositsRefreshed
    <2>3. \A k \in 1..Len(t.deposits) :
             m[k] \in 1..Len(ob.deposits)
             /\ t.deposits[k].deposit_reserve = ob.deposits[m[k]].deposit_reserve
        BY <2>2 DEF Kept
    <2> QED BY <1>2, <2>3 DEF DepositReserves
<1> QED BY <1>1, <1>3, <1>4

\* ObligationFresh of one obligation
ValuedNow(o) ==
    ~IsStale(obligation_update[o]) =>
        \A r \in DepositReserves(obligation[o]) \cup BorrowReserves(obligation[o]) :
            price_slot[r] = slot

(***************************************************************************)
(* ObligationFresh is inductive together with the freshness of reserves,   *)
(* and because no update of an obligation is from the future: otherwise    *)
(* one marked fresh for a later slot would outlive the tick of the clock.  *)
(***************************************************************************)
FreshInv ==
    /\ TypeOK /\ PriceInv
    /\ \A o \in Obligations : obligation_update[o].slot <= slot
    /\ \A o \in open : ValuedNow(o)

\* The reserves of an obligation are reserves of the market.
LEMMA PositionReserves ==
    ASSUME NEW ob \in ObligationRec
    PROVE  DepositReserves(ob) \subseteq Reserves /\ BorrowReserves(ob) \subseteq Reserves
<1>1. ASSUME NEW i \in DOMAIN ob.deposits PROVE ob.deposits[i].deposit_reserve \in Reserves
    <2>1. ob.deposits[i] \in ObligationCollateral
        BY DEF ObligationRec
    <2> QED BY <2>1 DEF ObligationCollateral
<1>2. ASSUME NEW i \in DOMAIN ob.borrows PROVE ob.borrows[i].borrow_reserve \in Reserves
    <2>1. ob.borrows[i] \in ObligationLiquidity
        BY DEF ObligationRec
    <2> QED BY <2>1 DEF ObligationLiquidity
<1> QED BY <1>1, <1>2 DEF DepositReserves, BorrowReserves

\* Every instruction keeps recorded values of the slot they say.
LEMMA NextFreshInv == FreshInv /\ [Next]_vars => FreshInv'
<1> SUFFICES ASSUME FreshInv, [Next]_vars PROVE FreshInv'
    OBVIOUS
<1>1. TypeOK /\ PriceInv /\ TypeOK' /\ PriceInv'
    BY NextTyped, NextPriceInv DEF FreshInv
<1> DEFINE NotFuture == \A o \in Obligations : obligation_update[o].slot <= slot
           AllValued == \A o \in open : ValuedNow(o)
<1>2. NotFuture /\ AllValued /\ open \subseteq Obligations /\ open' \subseteq Obligations
    BY <1>1 DEF FreshInv, TypeOK
<1>3. \A o \in Obligations : /\ obligation[o] \in ObligationRec
                             /\ obligation_update[o] \in LastUpdate /\ obligation_update[o].slot \in Int
    BY <1>1 DEF TypeOK, LastUpdate
<1>4. slot \in Int /\ slot' \in Int
    BY <1>1 DEF PriceInv
<1>5. CASE Tick
    <2>1. UNCHANGED <<open, obligation_update>> /\ slot' = slot + 1
        BY <1>5 DEF Tick, obligationVars
    <2>2. NotFuture'
        BY <1>2, <1>3, <1>4, <2>1
    <2>3. \A o \in open : IsStale(obligation_update[o])'
        BY <1>2, <1>3, <1>4, <2>1 DEF IsStale
    <2> QED BY <1>1, <2>1, <2>2, <2>3 DEF FreshInv, ValuedNow
<1>6. CASE UNCHANGED vars
    BY <1>1, <1>2, <1>6 DEF FreshInv, ValuedNow, IsStale, vars
<1>7. CASE Next /\ ~Tick
    <2>1. slot' = slot /\ \A r \in Reserves : price_slot'[r] \in {price_slot[r], slot}
        BY <1>1, <1>7, PricesRead
    <2>2. ASSUME NEW o \in Obligations, o \in open, obligation'[o] = obligation[o],
                 obligation_update'[o] = obligation_update[o]
          PROVE  ValuedNow(o)'
        <3>1. \A r \in DepositReserves(obligation[o]) \cup BorrowReserves(obligation[o]) :
                 price_slot'[r] \in {price_slot[r], slot}
            BY <1>3, <2>1, PositionReserves
        <3>2. ValuedNow(o)
            BY <1>2, <2>2
        <3>3. /\ (DepositReserves(obligation[o]) \cup BorrowReserves(obligation[o]))'
                    = DepositReserves(obligation[o]) \cup BorrowReserves(obligation[o])
              /\ IsStale(obligation_update[o])' = IsStale(obligation_update[o])
            BY <2>1, <2>2 DEF DepositReserves, BorrowReserves, IsStale
        <3> QED BY <2>1, <3>1, <3>2, <3>3 DEF ValuedNow
    <2>3. ASSUME NEW o \in Obligations, obligation_update'[o].stale PROVE ValuedNow(o)'
        BY <2>3 DEF ValuedNow, IsStale
    <2>4. CASE UNCHANGED obligationVars
        <3>1. UNCHANGED <<open, obligation, obligation_update>>
            BY <2>4 DEF obligationVars
        <3> QED BY <1>1, <1>2, <2>1, <2>2, <3>1 DEF FreshInv
    <2>5. ASSUME NEW o \in Obligations, NEW u, u.slot <= slot,
                 obligation_update' = [obligation_update EXCEPT ![o] = u],
                 \A q \in Obligations \ {o} : obligation'[q] = obligation[q],
                 open' \subseteq open \cup {o}, ValuedNow(o)'
          PROVE  FreshInv'
        <3>1. /\ obligation_update'[o] = u
              /\ \A q \in Obligations \ {o} : obligation_update'[q] = obligation_update[q]
            BY <1>1, <2>5 DEF TypeOK
        <3>2. NotFuture'
            BY <1>2, <2>1, <2>5, <3>1
        <3>3. \A q \in open' : ValuedNow(q)'
            BY <1>2, <2>2, <2>5, <3>1
        <3> QED BY <1>1, <3>2, <3>3 DEF FreshInv
    <2>6. ASSUME NEW o \in Obligations, InitObligation(o) PROVE FreshInv'
        <3>1. /\ obligation_update' = [obligation_update EXCEPT ![o] = LastUpdateNew]
              /\ obligation' = [obligation EXCEPT ![o] = NewObligation] /\ open' = open \cup {o}
            BY <2>6 DEF InitObligation
        <3>2. LastUpdateNew.slot <= slot /\ LastUpdateNew.stale
            BY <1>4 DEF LastUpdateNew
        <3>3. \A q \in Obligations \ {o} : obligation'[q] = obligation[q]
            BY <1>1, <3>1 DEF TypeOK
        <3>4. ValuedNow(o)'
            BY <1>1, <2>3, <3>1, <3>2 DEF TypeOK
        <3> QED BY <2>5, <3>1, <3>2, <3>3, <3>4
    <2>7. ASSUME NEW o \in Obligations, RefreshObligation(o) PROVE FreshInv'
        <3>1. PICK ob \in ObligationRec :
                 /\ ob = RefreshedObligation(obligation[o], reserve, config)
                 /\ PackObligation(o, ob)
            BY <2>7 DEF RefreshObligation, PackObligation
        <3>2. /\ obligation_update' = [obligation_update EXCEPT ![o] = Fresh]
              /\ CanValue(obligation[o]) /\ UNCHANGED <<open, price_slot>>
            BY <2>7 DEF RefreshObligation, reserveVars
        <3>3. Fresh.slot <= slot
            BY <1>4 DEF Fresh
        <3>4. obligation'[o] = ob
            BY <1>1, <3>1 DEF TypeOK, PackObligation
        <3>5. ASSUME NEW r \in DepositReserves(obligation[o]) \cup BorrowReserves(obligation[o])
              PROVE  price_slot[r] = slot
            <4>1. r \in Reserves
                BY <1>3, PositionReserves
            <4>2. ~IsStale(reserve_update[r])
                BY <3>2 DEF CanValue
            <4>3. reserve_update[r].slot <= slot /\ reserve_update[r].slot \in Int
                BY <1>1, <4>1 DEF PriceInv, PastUpdate
            <4>4. ~reserve_update[r].stale /\ reserve_update[r].slot = slot
                BY <1>4, <4>2, <4>3 DEF IsStale
            <4> QED BY <1>1, <4>1, <4>4 DEF PriceInv, AllFresh
        <3>6. /\ DepositReserves(ob) \subseteq DepositReserves(obligation[o])
              /\ BorrowReserves(ob) \subseteq BorrowReserves(obligation[o])
            <4>1. config \in [Reserves -> ReserveConfig]
                BY <1>1 DEF TypeOK
            <4> QED BY <1>3, <3>1, <4>1, RefreshKeepsReserves
        <3>7. ValuedNow(o)'
            <4>1. DepositReserves(obligation[o])' = DepositReserves(ob)
                  /\ BorrowReserves(obligation[o])' = BorrowReserves(ob)
                BY <3>4 DEF DepositReserves, BorrowReserves
            <4> QED BY <2>1, <3>2, <3>5, <3>6, <4>1 DEF ValuedNow
        <3> QED BY <1>1, <2>5, <3>1, <3>2, <3>3, <3>7, OtherObligations
    <2>8. ASSUME NEW o \in Obligations, WritesPosition(o) PROVE FreshInv'
        <3>1. PICK u : /\ u = [slot |-> obligation_update[o].slot, stale |-> TRUE]
                       /\ obligation_update' = [obligation_update EXCEPT ![o] = u]
            BY <2>8 DEF WritesPosition, MarkStale
        <3>2. u.slot <= slot /\ u.stale
            BY <1>2, <3>1
        <3>3. \A q \in Obligations \ {o} : obligation'[q] = obligation[q]
            BY <1>1, <2>8, OtherObligations DEF WritesPosition
        <3>4. ValuedNow(o)'
            BY <1>1, <2>3, <3>1, <3>2 DEF TypeOK
        <3> QED BY <2>5, <2>8, <3>1, <3>2, <3>3, <3>4 DEF WritesPosition
    <2> QED BY <1>7, <2>4, <2>6, <2>7, <2>8, ObligationsWritten, PositionStepWrites
<1> QED BY <1>5, <1>6, <1>7

(***************************************************************************)
(* ObligationFresh holds in every reachable state: whatever instructions   *)
(* run between the refresh of an obligation and its use in the same slot,  *)
(* the values recorded in it are of prices read in that slot.              *)
(***************************************************************************)
THEOREM ObligationsAreFresh == Spec => []ObligationFresh
<1>1. Init => FreshInv
    <2>1. Init => \A o \in Obligations : obligation_update[o].slot <= slot
        BY DEF Init
    <2>2. Init => open = {}
        BY DEF Init
    <2> QED BY <2>1, <2>2, InitTyped, InitPriceInv DEF FreshInv
<1>2. Spec => []FreshInv
    BY <1>1, NextFreshInv, PTL DEF Spec
<1>3. FreshInv => ObligationFresh
    BY DEF FreshInv, ValuedNow, ObligationFresh
<1> QED BY <1>2, <1>3, PTL

-----------------------------------------------------------------------------
(* The reserves a list of positions names, in order, and what the          *)
(* operations on positions do to them.                                     *)

DepositKeys(s) == [i \in 1..Len(s) |-> s[i].deposit_reserve]

BorrowKeys(s) == [i \in 1..Len(s) |-> s[i].borrow_reserve]

\* m picks l different entries of the n in u, which are those of v
Picks(m, n, u, l, v) ==
    /\ m \in [1..l -> 1..n]
    /\ \A j, k \in 1..l : m[j] = m[k] => j = k
    /\ \A k \in 1..l : v[k] = u[m[k]]

SubKeys(n, u, l, v) == l <= n /\ \E m : Picks(m, n, u, l, v)

SubDeposits(s, t) == SubKeys(Len(s), DepositKeys(s), Len(t), DepositKeys(t))

SubBorrows(s, t) == SubKeys(Len(s), BorrowKeys(s), Len(t), BorrowKeys(t))

\* Entries updated in place name the same reserves.
LEMMA SameKeys ==
    ASSUME NEW n \in Nat, NEW u, NEW v, \A k \in 1..n : v[k] = u[k]
    PROVE  SubKeys(n, u, n, v)
<1>1. Picks([k \in 1..n |-> k], n, u, n, v)
    BY DEF Picks
<1> QED BY <1>1 DEF SubKeys

\* One entry taken out.
LEMMA RemovedKeys ==
    ASSUME NEW n \in Nat, NEW i \in 1..n, NEW u, NEW v,
           \A k \in 1..(n - 1) : v[k] = u[IF k < i THEN k ELSE k + 1]
    PROVE  SubKeys(n, u, n - 1, v)
<1>1. Picks([k \in 1..(n - 1) |-> IF k < i THEN k ELSE k + 1], n, u, n - 1, v)
    <2>1. PICK m : m = [k \in 1..(n - 1) |-> IF k < i THEN k ELSE k + 1]
        OBVIOUS
    <2>2. \A k \in 1..(n - 1) : m[k] = (IF k < i THEN k ELSE k + 1) /\ m[k] \in 1..n
        BY <2>1
    <2>3. m \in [1..(n - 1) -> 1..n]
        BY <2>1, <2>2
    <2>4. \A j, k \in 1..(n - 1) : m[j] = m[k] => j = k
        BY <2>2
    <2> QED BY <2>1, <2>2, <2>3, <2>4 DEF Picks
<1> QED BY <1>1 DEF SubKeys

\* An entry of a list of positions replaced by one that names the same reserve.
LEMMA ReplacedDeposit ==
    ASSUME NEW s \in Seq(ObligationCollateral), NEW i \in 1..Len(s), NEW d,
           d.deposit_reserve = s[i].deposit_reserve
    PROVE  SubDeposits(s, [s EXCEPT ![i] = d])
<1>1. PICK t : t = [s EXCEPT ![i] = d]
    OBVIOUS
<1>2. Len(t) = Len(s) /\ Len(s) \in Nat /\ t[i] = d /\ \A k \in (1..Len(s)) \ {i} : t[k] = s[k]
    BY <1>1
<1>3. \A k \in 1..Len(s) : DepositKeys(t)[k] = DepositKeys(s)[k]
    BY <1>2 DEF DepositKeys
<1> QED BY <1>1, <1>2, <1>3, SameKeys DEF SubDeposits

\* An entry replaced by one of the same reserve.
LEMMA ReplacedBorrow ==
    ASSUME NEW X, NEW s \in Seq(X), NEW i \in 1..Len(s), NEW b,
           b.borrow_reserve = s[i].borrow_reserve
    PROVE  SubBorrows(s, [s EXCEPT ![i] = b])
<1>1. PICK t : t = [s EXCEPT ![i] = b]
    OBVIOUS
<1>2. Len(t) = Len(s) /\ Len(s) \in Nat /\ t[i] = b /\ \A k \in (1..Len(s)) \ {i} : t[k] = s[k]
    BY <1>1
<1>3. \A k \in 1..Len(s) : BorrowKeys(t)[k] = BorrowKeys(s)[k]
    BY <1>2 DEF BorrowKeys
<1> QED BY <1>1, <1>2, <1>3, SameKeys DEF SubBorrows

\* A withdrawal and a repayment, whatever the amount.
LEMMA WithdrawShrinks ==
    ASSUME NEW ob, "deposits" \in DOMAIN ob, ob.deposits \in Seq(ObligationCollateral),
           NEW i \in 1..Len(ob.deposits), NEW x
    PROVE  SubDeposits(ob.deposits, ObligationWithdraw(ob, i, x).deposits)
<1>1. PICK s : s = ob.deposits /\ s \in Seq(ObligationCollateral) /\ i \in 1..Len(s)
    OBVIOUS
<1>2. PICK t : t = ObligationWithdraw(ob, i, x).deposits
    OBVIOUS
<1>3. CASE x = s[i].deposited_amount
    <2>1. t = RemoveAt(s, i)
        BY <1>1, <1>2, <1>3 DEF ObligationWithdraw
    <2>2. PICK n \in Nat : n = Len(s)
        BY <1>1
    <2>3. Len(t) = n - 1 /\ \A k \in 1..(n - 1) : t[k] = s[IF k < i THEN k ELSE k + 1]
        BY <1>1, <2>1, <2>2, RemoveAtList
    <2>4. \A k \in 1..(n - 1) : DepositKeys(t)[k] = DepositKeys(s)[IF k < i THEN k ELSE k + 1]
        BY <2>2, <2>3 DEF DepositKeys
    <2>5. SubKeys(n, DepositKeys(s), n - 1, DepositKeys(t))
        BY <1>1, <2>2, <2>4, RemovedKeys
    <2> QED BY <1>1, <1>2, <2>2, <2>3, <2>5 DEF SubDeposits
<1>4. CASE x # s[i].deposited_amount
    <2>1. PICK d : d = [s[i] EXCEPT !.deposited_amount = @ - x]
        OBVIOUS
    <2>2. t = [s EXCEPT ![i] = d]
        BY <1>1, <1>2, <1>4, <2>1 DEF ObligationWithdraw
    <2>3. d.deposit_reserve = s[i].deposit_reserve
        BY <1>1, <2>1 DEF ObligationCollateral
    <2> QED BY <1>1, <1>2, <2>2, <2>3, ReplacedDeposit
<1> QED BY <1>3, <1>4

\* A repayment leaves the borrows in place, or drops the one repaid.
LEMMA RepayShrinks ==
    ASSUME NEW ob, "borrows" \in DOMAIN ob, NEW X, ob.borrows \in Seq(X),
           NEW i \in 1..Len(ob.borrows), "borrow_reserve" \in DOMAIN ob.borrows[i], NEW x
    PROVE  SubBorrows(ob.borrows, ObligationRepay(ob, i, x).borrows)
<1>1. PICK s : s = ob.borrows /\ s \in Seq(X) /\ i \in 1..Len(s)
    OBVIOUS
<1>2. PICK t : t = ObligationRepay(ob, i, x).borrows
    OBVIOUS
<1>3. CASE x = s[i].borrowed_amount_wads
    <2>1. t = RemoveAt(s, i)
        BY <1>1, <1>2, <1>3 DEF ObligationRepay
    <2>2. PICK n \in Nat : n = Len(s)
        BY <1>1
    <2>3. Len(t) = n - 1 /\ \A k \in 1..(n - 1) : t[k] = s[IF k < i THEN k ELSE k + 1]
        BY <1>1, <2>1, <2>2, RemoveAtList
    <2>4. \A k \in 1..(n - 1) : BorrowKeys(t)[k] = BorrowKeys(s)[IF k < i THEN k ELSE k + 1]
        BY <2>2, <2>3 DEF BorrowKeys
    <2>5. SubKeys(n, BorrowKeys(s), n - 1, BorrowKeys(t))
        BY <1>1, <2>2, <2>4, RemovedKeys
    <2> QED BY <1>1, <1>2, <2>2, <2>3, <2>5 DEF SubBorrows
<1>4. CASE x # s[i].borrowed_amount_wads
    <2>1. PICK b : b = [s[i] EXCEPT !.borrowed_amount_wads = @ - x]
        OBVIOUS
    <2>2. t = [s EXCEPT ![i] = b]
        BY <1>1, <1>2, <1>4, <2>1 DEF ObligationRepay
    <2>3. b.borrow_reserve = s[i].borrow_reserve
        BY <1>1, <2>1
    <2> QED BY <1>1, <1>2, <2>2, <2>3, ReplacedBorrow
<1> QED BY <1>3, <1>4

\* No list picks more entries than there are.
LEMMA PicksFewer ==
    ASSUME NEW n \in Nat, NEW l \in Nat, NEW u, NEW v, NEW m, Picks(m, n, u, l, v)
    PROVE  l <= n
<1>1. m \in Injection(1..l, 1..n)
    BY DEF Picks, Injection, IsInjective
<1>2. IsFiniteSet(1..n) /\ Cardinality(1..n) = n /\ Cardinality(1..l) = l
    <2>1. n \in Int /\ l \in Int /\ 1 \in Int
        OBVIOUS
    <2>2. /\ IsFiniteSet(1..n) /\ Cardinality(1..n) = IF 1 > n THEN 0 ELSE n - 1 + 1
          /\ Cardinality(1..l) = IF 1 > l THEN 0 ELSE l - 1 + 1
        BY <2>1, FS_Interval
    <2> QED BY <2>2
<1> QED BY <1>1, <1>2, FS_Injection

\* A refresh.
LEMMA RefreshShrinks ==
    ASSUME NEW ob \in ObligationRec, NEW res, NEW cfg \in [Reserves -> ReserveConfig],
           RefreshedObligation(ob, res, cfg) \in ObligationRec
    PROVE  /\ SubDeposits(ob.deposits, RefreshedObligation(ob, res, cfg).deposits)
           /\ SubBorrows(ob.borrows, RefreshedObligation(ob, res, cfg).borrows)
<1>1. PICK t \in ObligationRec : t = RefreshedObligation(ob, res, cfg)
    OBVIOUS
<1>2. /\ Len(ob.borrows) \in Nat /\ Len(t.borrows) \in Nat
      /\ Len(ob.deposits) \in Nat /\ Len(t.deposits) \in Nat
    BY DEF ObligationRec
<1>3. SubBorrows(ob.borrows, t.borrows)
    <2>1. PICK m : BorrowsRefreshed(ob.borrows, t.borrows, res, cfg, m)
        BY <1>1, RefreshedBorrows
    <2>2. Picks(m, Len(ob.borrows), BorrowKeys(ob.borrows), Len(t.borrows), BorrowKeys(t.borrows))
        BY <2>1 DEF BorrowsRefreshed, Picks, BorrowKeys
    <2> QED BY <1>2, <2>2, PicksFewer DEF SubBorrows, SubKeys
<1>4. SubDeposits(ob.deposits, t.deposits)
    <2>1. PICK w, m : DepositsRefreshed(ob.deposits, t.deposits, w, m)
        BY <1>1, RefreshedDeposits
    <2>2. /\ Kept(w, Funded(w), Len(w), t.deposits, m) /\ Len(w) = Len(ob.deposits)
          /\ \A i \in 1..Len(ob.deposits) : w[i].deposit_reserve = ob.deposits[i].deposit_reserve
        BY <2>1 DEF DepositsRefreshed
    <2>3. /\ m \in [1..Len(t.deposits) -> 1..Len(ob.deposits)]
          /\ \A k \in 1..Len(t.deposits) :
                t.deposits[k].deposit_reserve = ob.deposits[m[k]].deposit_reserve
        BY <2>2 DEF Kept
    <2>4. \A j, k \in 1..Len(t.deposits) : m[j] = m[k] => j = k
        <3>1. \A j, k \in 1..Len(t.deposits) : j < k => m[j] < m[k]
            BY <2>2 DEF Kept
        <3> QED BY <1>2, <2>3, <3>1
    <2>5. Picks(m, Len(ob.deposits), DepositKeys(ob.deposits), Len(t.deposits),
                DepositKeys(t.deposits))
        BY <2>3, <2>4 DEF Picks, DepositKeys
    <2> QED BY <1>2, <2>5, PicksFewer DEF SubDeposits, SubKeys
<1> QED BY <1>1, <1>3, <1>4

-----------------------------------------------------------------------------
(* What a step does to the lists of one obligation.                        *)

\* s becomes t without a new position
Shrinks(s, t) == SubDeposits(s.deposits, t.deposits) /\ SubBorrows(s.borrows, t.borrows)

\* v is u with one key more, which was not in it
Adds(n, u, r, l, v) ==
    /\ l = n + 1 /\ v[n + 1] = r
    /\ \A k \in 1..n : v[k] = u[k] /\ u[k] # r

AddsDeposit(s, t, r) ==
    /\ HasRoom(s) /\ t.borrows = s.borrows
    /\ Adds(Len(s.deposits), DepositKeys(s.deposits), r, Len(t.deposits), DepositKeys(t.deposits))

AddsBorrow(s, t, r) ==
    /\ HasRoom(s) /\ t.deposits = s.deposits
    /\ Adds(Len(s.borrows), BorrowKeys(s.borrows), r, Len(t.borrows), BorrowKeys(t.borrows))

\* find_or_add_collateral_to_deposits.
LEMMA DepositShape ==
    ASSUME NEW ob \in ObligationRec, NEW r, NEW x, CanDepositCollateral(ob, r)
    PROVE  \/ Shrinks(ob, ObligationDeposit(ob, r, x))
           \/ AddsDeposit(ob, ObligationDeposit(ob, r, x), r)
<1>1. PICK s, t : s = ob.deposits /\ t = ObligationDeposit(ob, r, x)
    OBVIOUS
<1>2. s \in Seq(ObligationCollateral) /\ Len(ob.borrows) \in Nat /\ Len(s) \in Nat
    BY <1>1 DEF ObligationRec
<1>3. t.borrows = ob.borrows
    BY <1>1 DEF ObligationDeposit, ObligationRec
<1>4. PICK i : i = DepositIndex(ob, r)
    OBVIOUS
<1>5. CASE i # 0
    <2>1. i \in 1..Len(s) /\ s[i] \in ObligationCollateral
        BY <1>1, <1>4, <1>5, DepositIndexIn
    <2>2. PICK d : d = [s[i] EXCEPT !.deposited_amount = @ + x]
        OBVIOUS
    <2>3. t.deposits = [s EXCEPT ![i] = d]
        BY <1>1, <1>4, <1>5, <2>2 DEF ObligationDeposit, ObligationRec
    <2>4. d.deposit_reserve = s[i].deposit_reserve
        BY <2>1, <2>2 DEF ObligationCollateral
    <2>5. SubDeposits(s, t.deposits)
        BY <1>2, <2>1, <2>3, <2>4, ReplacedDeposit
    <2>6. SubBorrows(ob.borrows, t.borrows)
        BY <1>2, <1>3, SameKeys DEF SubBorrows
    <2> QED BY <1>1, <2>5, <2>6 DEF Shrinks
<1>6. CASE i = 0
    <2>1. PICK d : d = [deposit_reserve |-> r, deposited_amount |-> x, market_value |-> 0]
        OBVIOUS
    <2>2. t.deposits = Append(s, d)
        BY <1>1, <1>4, <1>6, <2>1 DEF ObligationDeposit, ObligationRec
    <2>3. PICK n, v : n \in Nat /\ n = Len(s) /\ v = t.deposits
        BY <1>2
    <2>4. Len(v) = n + 1 /\ v[n + 1] = d /\ \A k \in 1..n : v[k] = s[k]
        BY <1>2, <2>2, <2>3
    <2>5. \A k \in 1..n : s[k].deposit_reserve # r
        <3>1. DepositIndex(ob, r) = 0
            BY <1>4, <1>6
        <3>2. \A k \in 1..Len(ob.deposits) : ob.deposits[k].deposit_reserve # r
            BY <3>1, DepositIndexIn
        <3> QED BY <1>1, <2>3, <3>2
    <2>6. Adds(n, DepositKeys(s), r, Len(v), DepositKeys(v))
        BY <2>1, <2>3, <2>4, <2>5 DEF Adds, DepositKeys
    <2>7. HasRoom(ob)
        BY <1>4, <1>6 DEF CanDepositCollateral
    <2> QED BY <1>1, <1>3, <2>3, <2>6, <2>7 DEF AddsDeposit
<1> QED BY <1>5, <1>6

\* find_or_add_liquidity_to_borrows.
LEMMA BorrowShape ==
    ASSUME NEW ob \in ObligationRec, NEW r, NEW rate, NEW x, CanAddBorrow(ob, r)
    PROVE  \/ Shrinks(ob, ObligationBorrow(ob, r, rate, x))
           \/ AddsBorrow(ob, ObligationBorrow(ob, r, rate, x), r)
<1>1. PICK s, t : s = ob.borrows /\ t = ObligationBorrow(ob, r, rate, x)
    OBVIOUS
<1>2. s \in Seq(ObligationLiquidity) /\ Len(ob.deposits) \in Nat /\ Len(s) \in Nat
    BY <1>1 DEF ObligationRec
<1>3. t.deposits = ob.deposits
    BY <1>1 DEF ObligationBorrow, ObligationRec
<1>4. PICK i : i = BorrowIndex(ob, r)
    OBVIOUS
<1>5. CASE i # 0
    <2>1. i \in 1..Len(s) /\ s[i] \in ObligationLiquidity
        BY <1>1, <1>4, <1>5, BorrowIndexIn
    <2>2. PICK b : b = [s[i] EXCEPT !.borrowed_amount_wads = @ + x]
        OBVIOUS
    <2>3. t.borrows = [s EXCEPT ![i] = b]
        BY <1>1, <1>4, <1>5, <2>2 DEF ObligationBorrow, ObligationRec
    <2>4. b.borrow_reserve = s[i].borrow_reserve
        BY <2>1, <2>2 DEF ObligationLiquidity
    <2>5. SubBorrows(s, t.borrows)
        BY <1>2, <2>1, <2>3, <2>4, ReplacedBorrow
    <2>6. SubDeposits(ob.deposits, t.deposits)
        BY <1>2, <1>3, SameKeys DEF SubDeposits
    <2> QED BY <1>1, <2>5, <2>6 DEF Shrinks
<1>6. CASE i = 0
    <2>1. PICK b : b = [borrow_reserve |-> r, cumulative_borrow_rate_wads |-> rate,
                        borrowed_amount_wads |-> x, market_value |-> 0]
        OBVIOUS
    <2>2. t.borrows = Append(s, b)
        BY <1>1, <1>4, <1>6, <2>1 DEF ObligationBorrow, ObligationRec
    <2>3. PICK n, v : n \in Nat /\ n = Len(s) /\ v = t.borrows
        BY <1>2
    <2>4. Len(v) = n + 1 /\ v[n + 1] = b /\ \A k \in 1..n : v[k] = s[k]
        BY <1>2, <2>2, <2>3
    <2>5. \A k \in 1..n : s[k].borrow_reserve # r
        <3>1. BorrowIndex(ob, r) = 0
            BY <1>4, <1>6
        <3>2. \A k \in 1..Len(ob.borrows) : ob.borrows[k].borrow_reserve # r
            BY <3>1, BorrowIndexIn
        <3> QED BY <1>1, <2>3, <3>2
    <2>6. Adds(n, BorrowKeys(s), r, Len(v), BorrowKeys(v))
        BY <2>1, <2>3, <2>4, <2>5 DEF Adds, BorrowKeys
    <2>7. HasRoom(ob)
        BY <1>4, <1>6 DEF CanAddBorrow
    <2> QED BY <1>1, <1>3, <2>3, <2>6, <2>7 DEF AddsBorrow
<1> QED BY <1>5, <1>6

\* A repayment first accrues the debt it repays, which stays owed to its reserve.
LEMMA RepayAccruedShrinks ==
    ASSUME NEW ob \in ObligationRec, NEW i \in 1..Len(ob.borrows), NEW rate, NEW x
    PROVE  SubBorrows(ob.borrows,
               ObligationRepay([ob EXCEPT !.borrows[i] = AccrueBorrow(ob.borrows[i], rate)],
                               i, x).borrows)
<1>1. PICK s : s = ob.borrows /\ s \in Seq(ObligationLiquidity) /\ i \in 1..Len(s)
    BY DEF ObligationRec
<1>2. PICK b : b = AccrueBorrow(s[i], rate)
    OBVIOUS
<1>3. b.borrow_reserve = s[i].borrow_reserve /\ "borrow_reserve" \in DOMAIN b
    <2>1. s[i] \in ObligationLiquidity
        BY <1>1
    <2> QED BY <1>2, <2>1 DEF AccrueBorrow, ObligationLiquidity
<1>4. PICK u, ab : u = [s EXCEPT ![i] = b] /\ ab = [ob EXCEPT !.borrows[i] = b]
    OBVIOUS
<1>5. ab.borrows = u /\ "borrows" \in DOMAIN ab
    BY <1>1, <1>4 DEF ObligationRec
<1>6. PICK X : X = ObligationLiquidity \cup {b}
    OBVIOUS
<1>7. u \in Seq(X) /\ Len(u) = Len(s) /\ u[i] = b /\ \A k \in (1..Len(s)) \ {i} : u[k] = s[k]
    BY <1>1, <1>4, <1>6
<1>8. BorrowKeys(u) = BorrowKeys(s)
    BY <1>3, <1>7 DEF BorrowKeys
<1>9. SubBorrows(u, ObligationRepay(ab, i, x).borrows)
    BY <1>1, <1>3, <1>5, <1>7, RepayShrinks
<1>10. SubBorrows(s, ObligationRepay(ab, i, x).borrows)
    BY <1>7, <1>8, <1>9 DEF SubBorrows
<1> QED BY <1>1, <1>2, <1>4, <1>10

(***************************************************************************)
(* An instruction on a position adds at most one entry, of a reserve that  *)
(* is live and that the list did not have.  A borrow is added only while   *)
(* there is a deposit, to an obligation that is fresh and whose tier       *)
(* allows it.                                                              *)
(***************************************************************************)
PositionChange(o, r) ==
    \/ Shrinks(obligation[o], obligation'[o])
    \/ r \in live /\ AddsDeposit(obligation[o], obligation'[o], r)
    \/ /\ r \in live /\ AddsBorrow(obligation[o], obligation'[o], r)
       /\ obligation[o].deposits # <<>> /\ TierAllows(obligation[o], r)
       /\ ~IsStale(obligation_update[o])

\* The obligation that is packed has its type.
LEMMA Packed ==
    ASSUME TypeOK, NEW o \in Obligations, NEW ob, PackObligation(o, ob)
    PROVE  obligation[o] \in ObligationRec /\ ob \in ObligationRec /\ obligation'[o] = ob
<1> QED BY DEF TypeOK, PackObligation

\* Each of those instructions changes the lists in one of these ways.
LEMMA PositionStepShape ==
    ASSUME TypeOK, NEW o \in Obligations, NEW r \in Reserves, PositionStep(o, r)
    PROVE  PositionChange(o, r)
<1>1. ASSUME NEW amount, DepositObligationCollateral(o, r, amount) PROVE PositionChange(o, r)
    <2>1. /\ CanDepositCollateral(obligation[o], r) /\ r \in live
          /\ PackObligation(o, ObligationDeposit(obligation[o], r, amount))
        BY <1>1 DEF DepositObligationCollateral
    <2> QED BY <2>1, Packed, DepositShape DEF PositionChange
<1>2. ASSUME NEW amount, DepositReserveLiquidityAndObligationCollateral(o, r, amount)
      PROVE  PositionChange(o, r)
    <2>1. PICK x : /\ CanDepositCollateral(obligation[o], r) /\ r \in live
                   /\ PackObligation(o, ObligationDeposit(obligation[o], r, x))
        BY <1>2 DEF DepositReserveLiquidityAndObligationCollateral
    <2> QED BY <2>1, Packed, DepositShape DEF PositionChange
<1>3. ASSUME NEW x, DepositIndex(obligation[o], r) # 0, PackObligation(o, Withdrawn(o, r, x))
      PROVE  PositionChange(o, r)
    <2>1. PICK i, s, t : /\ i = DepositIndex(obligation[o], r) /\ s = obligation[o]
                         /\ t = ObligationWithdraw(s, i, x)
        OBVIOUS
    <2>2. s \in ObligationRec /\ obligation'[o] = t
        BY <1>3, <2>1, Packed DEF Withdrawn
    <2>3. s.deposits \in Seq(ObligationCollateral) /\ "deposits" \in DOMAIN s
          /\ Len(s.borrows) \in Nat
        BY <2>2 DEF ObligationRec
    <2>4. i \in 1..Len(s.deposits)
        BY <1>3, <2>1, <2>2, DepositIndexIn
    <2>5. SubDeposits(s.deposits, t.deposits)
        BY <2>1, <2>3, <2>4, WithdrawShrinks
    <2>6. t.borrows = s.borrows
        BY <2>1, <2>2 DEF ObligationWithdraw, ObligationRec
    <2>7. SubBorrows(s.borrows, t.borrows)
        BY <2>3, <2>6, SameKeys DEF SubBorrows
    <2> QED BY <2>1, <2>2, <2>5, <2>7 DEF PositionChange, Shrinks
<1>4. ASSUME NEW amount, WithdrawObligationCollateral(o, r, amount) PROVE PositionChange(o, r)
    BY <1>3, <1>4 DEF WithdrawObligationCollateral, CanWithdraw
<1>5. ASSUME NEW amount, WithdrawObligationCollateralAndRedeem(o, r, amount)
      PROVE  PositionChange(o, r)
    BY <1>3, <1>5 DEF WithdrawObligationCollateralAndRedeem, CanWithdraw
<1>6. ASSUME NEW amount, NEW host, BorrowObligationLiquidity(o, r, amount, host)
      PROVE  PositionChange(o, r)
    <2>1. PICK rate, x : PackObligation(o, ObligationBorrow(obligation[o], r, rate, x))
        BY <1>6 DEF BorrowObligationLiquidity
    <2>2. /\ CanAddBorrow(obligation[o], r) /\ r \in live /\ obligation[o].deposits # <<>>
          /\ TierAllows(obligation[o], r) /\ ~IsStale(obligation_update[o])
        BY <1>6 DEF BorrowObligationLiquidity, CanBorrow
    <2> QED BY <2>1, <2>2, Packed, BorrowShape DEF PositionChange
<1>7. ASSUME NEW amount, RepayObligationLiquidity(o, r, amount) PROVE PositionChange(o, r)
    <2>1. PICK i, b, s : i = BorrowIndex(obligation[o], r) /\ s = obligation[o] /\ b = s.borrows[i]
        OBVIOUS
    <2>2. PICK rate, x, d : /\ i # 0 /\ d = AccrueBorrow(b, rate)
                            /\ PackObligation(o, ObligationRepay([s EXCEPT !.borrows[i] = d], i, x))
        BY <1>7, <2>1 DEF RepayObligationLiquidity
    <2>3. PICK t : t = ObligationRepay([s EXCEPT !.borrows[i] = d], i, x)
        OBVIOUS
    <2>4. s \in ObligationRec /\ obligation'[o] = t
        BY <2>1, <2>2, <2>3, Packed
    <2>5. i \in 1..Len(s.borrows) /\ b \in ObligationLiquidity
        BY <2>1, <2>2, <2>4, BorrowIndexIn
    <2>6. SubBorrows(s.borrows, t.borrows)
        BY <2>1, <2>2, <2>3, <2>4, <2>5, RepayAccruedShrinks
    <2>7. t.deposits = s.deposits /\ Len(s.deposits) \in Nat
        BY <2>3, <2>4 DEF ObligationRepay, ObligationRec
    <2>8. SubDeposits(s.deposits, t.deposits)
        BY <2>7, SameKeys DEF SubDeposits
    <2> QED BY <2>1, <2>4, <2>6, <2>8 DEF PositionChange, Shrinks
<1>8. ASSUME NEW ob \in ObligationRec, NEW i \in 1..Len(ob.borrows), NEW x
      PROVE  /\ SubBorrows(ob.borrows, ObligationRepay(ob, i, x).borrows)
             /\ ObligationRepay(ob, i, x).deposits = ob.deposits
             /\ "deposits" \in DOMAIN ObligationRepay(ob, i, x)
             /\ "borrows" \in DOMAIN ObligationRepay(ob, i, x)
    <2>1. /\ ob.borrows \in Seq(ObligationLiquidity) /\ ob.borrows[i] \in ObligationLiquidity
          /\ "borrows" \in DOMAIN ob
        BY DEF ObligationRec
    <2>2. "borrow_reserve" \in DOMAIN ob.borrows[i]
        BY <2>1 DEF ObligationLiquidity
    <2>3. SubBorrows(ob.borrows, ObligationRepay(ob, i, x).borrows)
        BY <2>1, <2>2, RepayShrinks
    <2> QED BY <2>3 DEF ObligationRepay, ObligationRec
<1>9. ASSUME NEW w \in Reserves, NEW amount, NEW liquidator,
             LiquidateObligation(o, r, w, amount, liquidator)
      PROVE  PositionChange(o, r)
    <2>1. PICK s, x, y, ab, i, t :
             /\ s = obligation[o] /\ ab = ObligationRepay(s, 1, x) /\ i = DepositIndex(ab, w)
             /\ t = ObligationWithdraw(ab, i, y) /\ PackObligation(o, t)
        BY <1>9 DEF LiquidateObligation
    <2>2. BorrowIndex(s, r) = 1 /\ DepositIndex(s, w) # 0
        BY <1>9, <2>1 DEF LiquidateObligation, CanLiquidate
    <2>3. s \in ObligationRec /\ obligation'[o] = t
        BY <2>1, Packed
    <2>4. 1 \in 1..Len(s.borrows)
        <3>1. BorrowIndex(s, r) # 0
            BY <2>2
        <3> QED BY <2>2, <2>3, <3>1, BorrowIndexIn
    <2>5. /\ SubBorrows(s.borrows, ab.borrows) /\ ab.deposits = s.deposits
          /\ "deposits" \in DOMAIN ab /\ "borrows" \in DOMAIN ab
        BY <1>8, <2>1, <2>3, <2>4
    <2>6. i = DepositIndex(s, w)
        BY <2>1, <2>5 DEF DepositIndex
    <2>7. i \in 1..Len(s.deposits) /\ s.deposits \in Seq(ObligationCollateral)
        BY <2>2, <2>3, <2>6, DepositIndexIn DEF ObligationRec
    <2>8. SubDeposits(s.deposits, t.deposits)
        BY <2>1, <2>5, <2>7, WithdrawShrinks
    <2>9. t.borrows = ab.borrows
        BY <2>1, <2>5 DEF ObligationWithdraw
    <2> QED BY <2>1, <2>3, <2>5, <2>8, <2>9 DEF PositionChange, Shrinks
<1>10. ASSUME NEW amount, ForgiveDebt(o, r, amount) PROVE PositionChange(o, r)
    <2>1. PICK s, x, i, t : /\ s = obligation[o] /\ i = BorrowIndex(s, r) /\ i # 0
                            /\ t = ObligationRepay(s, i, x) /\ PackObligation(o, t)
        BY <1>10 DEF ForgiveDebt
    <2>2. s \in ObligationRec /\ obligation'[o] = t
        BY <2>1, Packed
    <2>3. i \in 1..Len(s.borrows)
        BY <2>1, <2>2, BorrowIndexIn
    <2>4. SubBorrows(s.borrows, t.borrows) /\ t.deposits = s.deposits
        BY <1>8, <2>1, <2>2, <2>3
    <2>5. SubDeposits(s.deposits, t.deposits)
        <3>1. Len(s.deposits) \in Nat
            BY <2>2 DEF ObligationRec
        <3> QED BY <2>4, <3>1, SameKeys DEF SubDeposits
    <2> QED BY <2>1, <2>2, <2>4, <2>5 DEF PositionChange, Shrinks
<1> QED BY <1>1, <1>2, <1>4, <1>5, <1>6, <1>7, <1>9, <1>10 DEF PositionStep

-----------------------------------------------------------------------------
(* The lists fit the account.                                              *)

Distinct(n, u) == \A j, k \in 1..n : u[j] = u[k] => j = k

(***************************************************************************)
(* One entry per reserve and side, no more entries than the account has    *)
(* room for, and one place that no borrow ever takes: a borrow is only     *)
(* added next to a deposit.  Without the last part a full list of borrows  *)
(* whose last deposit was taken out would not fit the 88 bytes.            *)
(***************************************************************************)
FitsIn(ob) ==
    /\ Distinct(Len(ob.deposits), DepositKeys(ob.deposits))
    /\ Distinct(Len(ob.borrows), BorrowKeys(ob.borrows))
    /\ Len(ob.deposits) + Len(ob.borrows) <= MAX_OBLIGATION_RESERVES
    /\ Len(ob.borrows) <= MAX_OBLIGATION_RESERVES - 1

\* PositionsFit of one obligation
FitsAccount(ob) ==
    /\ Cardinality(DepositReserves(ob)) = Len(ob.deposits)
    /\ Cardinality(BorrowReserves(ob)) = Len(ob.borrows)
    /\ 88 * Len(ob.deposits) + 112 * Len(ob.borrows)
          <= 88 + 112 * (MAX_OBLIGATION_RESERVES - 1)

\* As many keys as entries, when no key comes twice.
LEMMA DistinctCount ==
    ASSUME NEW n \in Nat, NEW u, Distinct(n, u), NEW S, S = {u[i] : i \in 1..n}
    PROVE  Cardinality(S) = n
<1>1. PICK f : f = [i \in 1..n |-> u[i]]
    OBVIOUS
<1>2. f \in Surjection(1..n, S)
    BY <1>1 DEF Surjection
<1>3. f \in Injection(1..n, S)
    BY <1>1 DEF Injection, IsInjective, Distinct
<1>4. IsFiniteSet(1..n) /\ Cardinality(1..n) = n
    <2>1. n \in Int /\ 1 \in Int
        OBVIOUS
    <2>2. IsFiniteSet(1..n) /\ Cardinality(1..n) = IF 1 > n THEN 0 ELSE n - 1 + 1
        BY <2>1, FS_Interval
    <2> QED BY <2>2
<1> QED BY <1>2, <1>3, <1>4, FS_Surjection

\* Lists that leave the place of a deposit free of borrows fit the account.
LEMMA FitsMeans ==
    ASSUME NEW ob \in ObligationRec, FitsIn(ob)
    PROVE  FitsAccount(ob)
<1>1. PICK d \in Nat, b \in Nat, max \in Nat :
         d = Len(ob.deposits) /\ b = Len(ob.borrows) /\ max = MAX_OBLIGATION_RESERVES
    BY ObligationAssumption DEF ObligationRec
<1>2. DOMAIN ob.deposits = 1..d /\ DOMAIN ob.borrows = 1..b
    BY <1>1 DEF ObligationRec
<1>3. Cardinality(DepositReserves(ob)) = d
    <2>1. DepositReserves(ob) = {DepositKeys(ob.deposits)[i] : i \in 1..d}
        BY <1>1, <1>2 DEF DepositReserves, DepositKeys
    <2> QED BY <1>1, <2>1, DistinctCount DEF FitsIn
<1>4. Cardinality(BorrowReserves(ob)) = b
    <2>1. BorrowReserves(ob) = {BorrowKeys(ob.borrows)[i] : i \in 1..b}
        BY <1>1, <1>2 DEF BorrowReserves, BorrowKeys
    <2> QED BY <1>1, <2>1, DistinctCount DEF FitsIn
<1>5. d + b <= max /\ b <= max - 1
    BY <1>1 DEF FitsIn
<1>6. 88 * d + 112 * b <= 88 + 112 * (max - 1)
    BY <1>5
<1> QED BY <1>1, <1>3, <1>4, <1>6 DEF FitsAccount

\* Part of a list without repetition has none.
LEMMA SubDistinct ==
    ASSUME NEW n, NEW u, Distinct(n, u), NEW l, NEW v, SubKeys(n, u, l, v)
    PROVE  Distinct(l, v)
<1>1. PICK m : Picks(m, n, u, l, v)
    BY DEF SubKeys
<1> QED BY <1>1 DEF Picks, Distinct

\* Nor has a list with a new entry.
LEMMA AddsDistinct ==
    ASSUME NEW n \in Nat, NEW u, Distinct(n, u), NEW r, NEW l, NEW v, Adds(n, u, r, l, v)
    PROVE  Distinct(l, v)
<1> QED BY DEF Adds, Distinct

\* Every change an instruction on a position may make keeps the lists fitting.
LEMMA ChangeFits ==
    ASSUME NEW s \in ObligationRec, NEW t \in ObligationRec, FitsIn(s), NEW r,
           \/ Shrinks(s, t)
           \/ AddsDeposit(s, t, r)
           \/ AddsBorrow(s, t, r) /\ s.deposits # <<>>
    PROVE  FitsIn(t)
<1>1. PICK d \in Nat, b \in Nat, e \in Nat, c \in Nat, max \in Nat :
         /\ d = Len(s.deposits) /\ b = Len(s.borrows) /\ e = Len(t.deposits) /\ c = Len(t.borrows)
         /\ max = MAX_OBLIGATION_RESERVES
    BY ObligationAssumption DEF ObligationRec
<1>2. d + b <= max /\ b <= max - 1
    BY <1>1 DEF FitsIn
<1>3. CASE Shrinks(s, t)
    <2>1. e <= d /\ c <= b
        BY <1>1, <1>3 DEF Shrinks, SubDeposits, SubBorrows, SubKeys
    <2>2. /\ Distinct(e, DepositKeys(t.deposits)) /\ Distinct(c, BorrowKeys(t.borrows))
        BY <1>1, <1>3, SubDistinct DEF Shrinks, SubDeposits, SubBorrows, FitsIn
    <2>3. e + c <= max /\ c <= max - 1
        BY <1>2, <2>1
    <2> QED BY <1>1, <2>2, <2>3 DEF FitsIn
<1>4. CASE AddsDeposit(s, t, r)
    <2>1. e = d + 1 /\ c = b /\ d + b < max
        BY <1>1, <1>4 DEF AddsDeposit, Adds, HasRoom
    <2>2. Distinct(e, DepositKeys(t.deposits))
        BY <1>1, <1>4, AddsDistinct DEF AddsDeposit, FitsIn
    <2>3. Distinct(c, BorrowKeys(t.borrows))
        BY <1>1, <1>4, <2>1 DEF AddsDeposit, FitsIn
    <2>4. e + c <= max /\ c <= max - 1
        BY <1>2, <2>1
    <2> QED BY <1>1, <2>2, <2>3, <2>4 DEF FitsIn
<1>5. CASE AddsBorrow(s, t, r) /\ s.deposits # <<>>
    <2>1. c = b + 1 /\ e = d /\ d + b < max
        BY <1>1, <1>5 DEF AddsBorrow, Adds, HasRoom
    <2>2. d >= 1
        <3>1. s.deposits \in Seq(ObligationCollateral) /\ s.deposits # <<>>
            BY <1>5 DEF ObligationRec
        <3> QED BY <1>1, <3>1
    <2>3. Distinct(c, BorrowKeys(t.borrows))
        BY <1>1, <1>5, AddsDistinct DEF AddsBorrow, FitsIn
    <2>4. Distinct(e, DepositKeys(t.deposits))
        BY <1>1, <1>5, <2>1 DEF AddsBorrow, FitsIn
    <2>5. e + c <= max /\ c <= max - 1
        BY <1>2, <2>1, <2>2
    <2> QED BY <1>1, <2>3, <2>4, <2>5 DEF FitsIn
<1> QED BY <1>3, <1>4, <1>5

\* The reserves an obligation owes, after each of these changes.
LEMMA ChangeOwes ==
    ASSUME NEW s \in ObligationRec, NEW t \in ObligationRec, NEW r
    PROVE  /\ Shrinks(s, t) \/ AddsDeposit(s, t, r) => BorrowReserves(t) \subseteq BorrowReserves(s)
           /\ AddsBorrow(s, t, r) => BorrowReserves(t) \subseteq BorrowReserves(s) \cup {r}
<1>1. PICK b \in Nat, c \in Nat : b = Len(s.borrows) /\ c = Len(t.borrows)
    BY DEF ObligationRec
<1>2. DOMAIN s.borrows = 1..b /\ DOMAIN t.borrows = 1..c
    BY <1>1 DEF ObligationRec
<1>3. /\ BorrowReserves(s) = {BorrowKeys(s.borrows)[i] : i \in 1..b}
      /\ BorrowReserves(t) = {BorrowKeys(t.borrows)[i] : i \in 1..c}
    BY <1>1, <1>2 DEF BorrowReserves, BorrowKeys
<1>4. ASSUME Shrinks(s, t) PROVE BorrowReserves(t) \subseteq BorrowReserves(s)
    <2>1. PICK m : Picks(m, b, BorrowKeys(s.borrows), c, BorrowKeys(t.borrows))
        BY <1>1, <1>4 DEF Shrinks, SubBorrows, SubKeys
    <2> QED BY <1>3, <2>1 DEF Picks
<1>5. ASSUME AddsDeposit(s, t, r) PROVE BorrowReserves(t) \subseteq BorrowReserves(s)
    BY <1>5 DEF AddsDeposit, BorrowReserves
<1>6. ASSUME AddsBorrow(s, t, r) PROVE BorrowReserves(t) \subseteq BorrowReserves(s) \cup {r}
    <2>1. /\ c = b + 1 /\ BorrowKeys(t.borrows)[b + 1] = r
          /\ \A k \in 1..b : BorrowKeys(t.borrows)[k] = BorrowKeys(s.borrows)[k]
        BY <1>1, <1>6 DEF AddsBorrow, Adds
    <2>2. \A k \in 1..c : k \in 1..b \/ k = b + 1
        BY <2>1
    <2> QED BY <1>3, <2>1, <2>2
<1> QED BY <1>4, <1>5, <1>6

\* the lists of every obligation fit and owe to live reserves
PositionsInv ==
    /\ TypeOK
    /\ \A o \in Obligations : FitsIn(obligation[o]) /\ BorrowReserves(obligation[o]) \subseteq live

\* An obligation without positions.
LEMMA NewFits ==
    FitsIn(NewObligation) /\ BorrowReserves(NewObligation) = {} /\ NewObligation \in ObligationRec
<1>1. NewObligation.deposits = <<>> /\ NewObligation.borrows = <<>>
    BY DEF NewObligation
<1>2. BorrowReserves(NewObligation) = {}
    BY <1>1 DEF BorrowReserves
<1>3. NewObligation \in ObligationRec
    BY WadAssumption DEF NewObligation, ObligationRec, U128
<1> QED BY <1>1, <1>2, <1>3, ObligationAssumption DEF FitsIn, Distinct

\* Reserves are never closed.
LEMMA LiveGrows ==
    ASSUME Next
    PROVE  live \subseteq live'
<1> USE DEF clockVars, configVars, reserveVars, obligationVars
<1>1. Tick \/ FlashRepayReserveLiquidity => live' = live
    BY DEF Tick, FlashRepayReserveLiquidity
<1>2. ASSUME NEW r PROVE ReserveStep(r) => live \subseteq live'
    <2>1. ASSUME NEW amount, NEW cfg, NEW setup, NEW reading
          PROVE  InitReserve(r, amount, cfg, setup, reading) => live \subseteq live'
        BY DEF InitReserve
    <2>2. ASSUME NEW reading PROVE RefreshReserve(r, reading) \/ RedeemFees(r) => live' = live
        BY Zenon DEF RefreshReserve, RedeemFees
    <2>3. ASSUME NEW amount
          PROVE  DepositReserveLiquidity(r, amount) \/ RedeemReserveCollateral(r, amount)
                    \/ FlashBorrowReserveLiquidity(r, amount) => live' = live
        BY DEF DepositReserveLiquidity, RedeemReserveCollateral, FlashBorrowReserveLiquidity
    <2> QED BY <2>1, <2>2, <2>3 DEF ReserveStep
<1>3. ASSUME NEW r, NEW signer PROVE ConfigStep(r, signer) => live' = live
    BY DEF ConfigStep, UpdateReserveConfigByOwner, UpdateReserveConfigByRiskAuthority,
           UpdateReserveConfigBySolend
<1>4. ASSUME NEW owner, NEW limiter, NEW liquidator, NEW risk
      PROVE  SetLendingMarketOwnerAndConfig(owner, limiter, liquidator, risk) => live' = live
    BY DEF SetLendingMarketOwnerAndConfig
<1>5. ASSUME NEW o PROVE InitObligation(o) \/ RefreshObligation(o) => live' = live
    BY DEF InitObligation, RefreshObligation
<1>6. ASSUME NEW o, NEW r, PositionStep(o, r) PROVE live' = live
    BY <1>6, PositionStepWrites DEF WritesPosition
<1> QED BY <1>1, <1>2, <1>3, <1>4, <1>5, <1>6 DEF Next

\* What a step may do to one obligation.
Untouched(o) ==
    obligation'[o] = obligation[o] /\ obligation_update'[o] = obligation_update[o]

Created(o) == obligation'[o] = NewObligation /\ obligation_update'[o].stale

Revalued(o) ==
    /\ obligation'[o] = RefreshedObligation(obligation[o], reserve, config)
    /\ UNCHANGED <<config, live, reserve>>

Moved(o) ==
    /\ \E r \in Reserves : PositionChange(o, r)
    /\ obligation_update'[o].stale /\ UNCHANGED <<config, live>>

\* What any instruction does to one obligation.
LEMMA ObligationChange ==
    ASSUME TypeOK, Next, NEW o \in Obligations
    PROVE  Untouched(o) \/ Created(o) \/ Revalued(o) \/ Moved(o)
<1>1. CASE UNCHANGED obligationVars
    BY <1>1 DEF obligationVars, Untouched
<1>2. ASSUME NEW q \in Obligations, InitObligation(q) PROVE Untouched(o) \/ Created(o)
    <2>1. /\ obligation' = [obligation EXCEPT ![q] = NewObligation]
          /\ obligation_update' = [obligation_update EXCEPT ![q] = LastUpdateNew]
        BY <1>2 DEF InitObligation
    <2>2. LastUpdateNew.stale
        BY DEF LastUpdateNew
    <2> QED BY <2>1, <2>2 DEF TypeOK, Untouched, Created
<1>3. ASSUME NEW q \in Obligations, RefreshObligation(q) PROVE Untouched(o) \/ Revalued(o)
    <2>1. /\ obligation' = [obligation EXCEPT
                               ![q] = RefreshedObligation(obligation[q], reserve, config)]
          /\ obligation_update' = [obligation_update EXCEPT ![q] = Fresh]
          /\ UNCHANGED <<config, live, reserve>>
        BY <1>3 DEF RefreshObligation, PackObligation, configVars, reserveVars
    <2> QED BY <2>1 DEF TypeOK, Untouched, Revalued
<1>4. ASSUME NEW q \in Obligations, NEW r \in Reserves, PositionStep(q, r)
      PROVE  Untouched(o) \/ Moved(o)
    <2>1. WritesPosition(q)
        BY <1>4, PositionStepWrites
    <2>2. PICK u, ob : /\ u.stale /\ obligation_update' = [obligation_update EXCEPT ![q] = u]
                       /\ PackObligation(q, ob)
        <3>1. [slot |-> obligation_update[q].slot, stale |-> TRUE].stale
            OBVIOUS
        <3> QED BY <2>1, <3>1 DEF WritesPosition, MarkStale
    <2>3. CASE o = q
        <3>1. obligation_update'[o].stale
            BY <2>2, <2>3 DEF TypeOK
        <3>2. PositionChange(o, r)
            BY <1>4, <2>3, PositionStepShape
        <3> QED BY <2>1, <3>1, <3>2 DEF Moved, WritesPosition
    <2>4. CASE o # q
        <3>1. obligation_update'[o] = obligation_update[o]
            BY <2>2, <2>4 DEF TypeOK
        <3>2. obligation'[o] = obligation[o]
            BY <2>2, <2>4, OtherObligations
        <3> QED BY <3>1, <3>2 DEF Untouched
    <2> QED BY <2>3, <2>4
<1> QED BY <1>1, <1>2, <1>3, <1>4, ObligationsWritten

\* Every step keeps the lists fitting.
LEMMA NextPositionsInv == PositionsInv /\ [Next]_vars => PositionsInv'
<1> SUFFICES ASSUME PositionsInv, [Next]_vars PROVE PositionsInv'
    OBVIOUS
<1>1. TypeOK /\ TypeOK'
    BY NextTyped DEF PositionsInv
<1>2. CASE UNCHANGED vars
    BY <1>2 DEF vars, PositionsInv, TypeOK, FitsIn, BorrowReserves, DepositKeys, BorrowKeys
<1>3. CASE Next
    <2>1. ASSUME NEW o \in Obligations
          PROVE  FitsIn(obligation'[o]) /\ BorrowReserves(obligation'[o]) \subseteq live'
        <3>1. PICK s \in ObligationRec, t \in ObligationRec : s = obligation[o] /\ t = obligation'[o]
            BY <1>1 DEF TypeOK
        <3>2. FitsIn(s) /\ BorrowReserves(s) \subseteq live /\ live \subseteq live'
            BY <1>3, <3>1, LiveGrows DEF PositionsInv
        <3>3. CASE Untouched(o)
            BY <3>1, <3>2, <3>3 DEF Untouched
        <3>4. CASE Created(o)
            BY <3>4, NewFits DEF Created
        <3>5. CASE Revalued(o)
            <4>1. Shrinks(s, t)
                <5>1. t = RefreshedObligation(s, reserve, config) /\ config \in [Reserves -> ReserveConfig]
                    BY <1>1, <3>1, <3>5 DEF Revalued, TypeOK
                <5> QED BY <5>1, RefreshShrinks DEF Shrinks
            <4> QED BY <3>1, <3>2, <4>1, ChangeFits, ChangeOwes
        <3>6. CASE Moved(o)
            <4>1. PICK r \in Reserves :
                     \/ Shrinks(s, t)
                     \/ r \in live /\ AddsDeposit(s, t, r)
                     \/ r \in live /\ AddsBorrow(s, t, r) /\ s.deposits # <<>>
                BY <3>1, <3>6 DEF Moved, PositionChange
            <4>2. FitsIn(t)
                BY <3>2, <4>1, ChangeFits
            <4>3. BorrowReserves(t) \subseteq BorrowReserves(s) \cup live
                BY <4>1, ChangeOwes
            <4> QED BY <3>1, <3>2, <4>2, <4>3
        <3> QED BY <1>1, <1>3, <3>3, <3>4, <3>5, <3>6, ObligationChange
    <2> QED BY <1>1, <2>1 DEF PositionsInv
<1> QED BY <1>2, <1>3

\* There are no positions at first.
LEMMA InitPositionsInv == Init => PositionsInv
<1>1. Init => obligation = [o \in Obligations |-> NewObligation]
    BY DEF Init
<1> QED BY <1>1, InitTyped, NewFits DEF PositionsInv

\* What the invariant says of the account.
LEMMA PositionsInvFits == PositionsInv => PositionsFit
<1>1. ASSUME PositionsInv, NEW o \in open PROVE FitsAccount(obligation[o])
    <2>1. o \in Obligations /\ obligation[o] \in ObligationRec /\ FitsIn(obligation[o])
        BY <1>1 DEF PositionsInv, TypeOK
    <2> QED BY <2>1, FitsMeans
<1> QED BY <1>1 DEF PositionsFit, FitsAccount

(***************************************************************************)
(* PositionsFit holds in every reachable state, whatever configurations    *)
(* change: no sequence of deposits, borrows, withdrawals, liquidations and *)
(* refreshes makes a list that Obligation::pack has no bytes for.          *)
(***************************************************************************)
THEOREM PositionsAlwaysFit == Spec => []PositionsFit
  BY InitPositionsInv, NextPositionsInv, PositionsInvFits, PTL DEF Spec

-----------------------------------------------------------------------------
(* The debt that liquidation repays comes first.                           *)

\* no step changes the borrow weight of a reserve in use
WeightsKept ==
    \A r \in live : config'[r].added_borrow_weight_bps = config[r].added_borrow_weight_bps

\* HeaviestDebtFirst of one obligation
HeaviestFirst(o) ==
    ~IsStale(obligation_update[o]) =>
        \A i \in 1..Len(obligation[o].borrows) :
            Precedes(obligation[o].borrows[i], obligation[o].borrows[1], config)

HeaviestInv == PositionsInv /\ \A o \in Obligations : HeaviestFirst(o)

\* An obligation that a step leaves alone was no less fresh before it.
LEMMA FreshBefore ==
    ASSUME TypeOK, Next, NEW o \in Obligations, obligation_update'[o] = obligation_update[o],
           ~IsStale(obligation_update[o])'
    PROVE  ~IsStale(obligation_update[o])
<1>1. slot' \in {slot, slot + 1}
    <2>1. Tick => slot' = slot + 1
        BY DEF Tick
    <2> USE DEF clockVars, configVars, reserveVars, obligationVars
    <2>2. FlashRepayReserveLiquidity => slot' = slot
        BY DEF FlashRepayReserveLiquidity
    <2>3. ASSUME NEW r PROVE ReserveStep(r) => slot' = slot
        <3>1. ASSUME NEW amount, NEW cfg, NEW setup, NEW reading
              PROVE  InitReserve(r, amount, cfg, setup, reading) => slot' = slot
            BY DEF InitReserve
        <3>2. ASSUME NEW reading PROVE RefreshReserve(r, reading) \/ RedeemFees(r) => slot' = slot
            BY Zenon DEF RefreshReserve, RedeemFees
        <3>3. ASSUME NEW amount
              PROVE  DepositReserveLiquidity(r, amount) \/ RedeemReserveCollateral(r, amount)
                        \/ FlashBorrowReserveLiquidity(r, amount) => slot' = slot
            BY DEF DepositReserveLiquidity, RedeemReserveCollateral, FlashBorrowReserveLiquidity
        <3> QED BY <3>1, <3>2, <3>3 DEF ReserveStep
    <2>4. ASSUME NEW r, NEW signer PROVE ConfigStep(r, signer) => slot' = slot
        BY DEF ConfigStep, UpdateReserveConfigByOwner, UpdateReserveConfigByRiskAuthority,
               UpdateReserveConfigBySolend
    <2>5. ASSUME NEW owner, NEW limiter, NEW liquidator, NEW risk
          PROVE  SetLendingMarketOwnerAndConfig(owner, limiter, liquidator, risk) => slot' = slot
        BY DEF SetLendingMarketOwnerAndConfig
    <2>6. ASSUME NEW q PROVE InitObligation(q) \/ RefreshObligation(q) => slot' = slot
        BY DEF InitObligation, RefreshObligation
    <2>7. ASSUME NEW q, NEW r, PositionStep(q, r) PROVE slot' = slot
        BY <2>7, PositionStepWrites DEF WritesPosition
    <2> QED BY <2>1, <2>2, <2>3, <2>4, <2>5, <2>6, <2>7 DEF Next
<1>2. PICK u : u = obligation_update[o] /\ u.slot \in Int /\ slot \in Int
    BY DEF TypeOK, LastUpdate
<1> QED BY <1>1, <1>2 DEF IsStale

\* Every instruction keeps the heaviest debt first.
LEMMA NextHeaviestInv ==
    HeaviestInv /\ [Next]_vars /\ [WeightsKept]_vars => HeaviestInv'
<1> SUFFICES ASSUME HeaviestInv, [Next]_vars, [WeightsKept]_vars PROVE HeaviestInv'
    OBVIOUS
<1>1. PositionsInv /\ PositionsInv' /\ TypeOK /\ TypeOK'
    BY NextPositionsInv DEF HeaviestInv, PositionsInv
<1>2. CASE UNCHANGED vars
    BY <1>1, <1>2 DEF vars, HeaviestInv, HeaviestFirst, IsStale
<1>3. CASE Next /\ WeightsKept
    <2>1. ASSUME NEW o \in Obligations PROVE HeaviestFirst(o)'
        <3>1. PICK s \in ObligationRec, t \in ObligationRec : s = obligation[o] /\ t = obligation'[o]
            BY <1>1 DEF TypeOK
        <3>2. CASE obligation_update'[o].stale
            BY <3>2 DEF HeaviestFirst, IsStale
        <3>3. CASE Untouched(o)
            <4>1. SUFFICES ASSUME ~IsStale(obligation_update[o])', NEW i \in 1..Len(s.borrows)
                           PROVE  Precedes(s.borrows[i], s.borrows[1], config)'
                BY <3>1, <3>3 DEF HeaviestFirst, Untouched
            <4>2. Precedes(s.borrows[i], s.borrows[1], config)
                BY <1>1, <1>3, <3>1, <3>3, <4>1, FreshBefore DEF Untouched, HeaviestInv, HeaviestFirst
            <4>3. s.borrows[i].borrow_reserve \in live /\ s.borrows[1].borrow_reserve \in live
                <5>1. DOMAIN s.borrows = 1..Len(s.borrows) /\ Len(s.borrows) \in Nat
                    BY DEF ObligationRec
                <5>2. i \in DOMAIN s.borrows /\ 1 \in DOMAIN s.borrows
                    BY <5>1
                <5> QED BY <1>1, <3>1, <5>2 DEF PositionsInv, BorrowReserves
            <4> QED BY <1>3, <4>2, <4>3 DEF Precedes, WeightsKept
        <3>4. CASE Revalued(o)
            <4>1. t = RefreshedObligation(s, reserve, config) /\ config' = config
                  /\ config \in [Reserves -> ReserveConfig]
                BY <1>1, <3>1, <3>4 DEF Revalued, TypeOK
            <4>2. PICK m : BorrowsRefreshed(s.borrows, t.borrows, reserve, config, m)
                BY <4>1, RefreshedBorrows
            <4>3. \A k \in 1..Len(t.borrows) : Precedes(t.borrows[k], t.borrows[1], config)
                BY <4>2 DEF BorrowsRefreshed
            <4> QED BY <3>1, <4>1, <4>3 DEF HeaviestFirst
        <3> QED BY <1>1, <1>3, <3>2, <3>3, <3>4, ObligationChange DEF Created, Moved
    <2> QED BY <1>1, <2>1 DEF HeaviestInv
<1> QED BY <1>2, <1>3

(***************************************************************************)
(* PositionsSound holds for as long as no reserve in use changes its       *)
(* borrow weight: then the borrow that a liquidation of a fresh obligation *)
(* may repay, the first, is the heaviest.  (A weight that changes is       *)
(* noticed only by the obligation's next refresh, which the reserve's      *)
(* stale mark does not force.)                                             *)
(***************************************************************************)
THEOREM HeaviestStaysFirst == Spec /\ [][WeightsKept]_vars => []PositionsSound
<1>1. Init => HeaviestInv
    <2>1. Init => \A o \in Obligations : obligation[o] = NewObligation
        BY DEF Init
    <2>2. NewObligation.borrows = <<>>
        BY DEF NewObligation
    <2> QED BY <2>1, <2>2, InitPositionsInv DEF HeaviestInv, HeaviestFirst
<1>2. Spec /\ [][WeightsKept]_vars => []HeaviestInv
    BY <1>1, NextHeaviestInv, PTL DEF Spec
<1>3. HeaviestInv => HeaviestDebtFirst
    <2>1. ASSUME HeaviestInv, NEW o \in open
          PROVE  /\ HeaviestFirst(o)
                 /\ DOMAIN obligation[o].borrows = 1..Len(obligation[o].borrows)
        <3>1. o \in Obligations /\ obligation[o] \in ObligationRec
            BY <2>1 DEF HeaviestInv, PositionsInv, TypeOK
        <3> QED BY <2>1, <3>1 DEF HeaviestInv, ObligationRec
    <2> QED BY <2>1 DEF HeaviestDebtFirst, HeaviestFirst, Precedes
<1>4. HeaviestInv => PositionsSound
    BY <1>3, PositionsInvFits DEF PositionsSound, HeaviestInv
<1> QED BY <1>2, <1>4, PTL

-----------------------------------------------------------------------------
(* An isolated asset is borrowed alone.                                    *)

\* no step changes the tier of a reserve in use
TiersKept == \A r \in live : config'[r].reserve_type = config[r].reserve_type

OwesIsolated(ob, cfg) == \E r \in BorrowReserves(ob) : cfg[r].reserve_type = "Isolated"

(***************************************************************************)
(* IsolatedBorrowedAlone rests on the flag that the borrow handler reads:  *)
(* it may be out of date, but not in an obligation that is fresh.          *)
(***************************************************************************)
Alone(o) == OwesIsolated(obligation[o], config) => Len(obligation[o].borrows) = 1

Flagged(o) ==
    ~IsStale(obligation_update[o]) =>
        (OwesIsolated(obligation[o], config) => obligation[o].borrowing_isolated_asset)

IsolatedInv == PositionsInv /\ \A o \in Obligations : Alone(o) /\ Flagged(o)

\* The flag as process_refresh_obligation computes it.
LEMMA RefreshFlags ==
    ASSUME NEW ob \in ObligationRec, NEW res, NEW cfg
    PROVE  RefreshedObligation(ob, res, cfg).borrowing_isolated_asset <=> OwesIsolated(ob, cfg)
<1>1. PICK s : s = ob.borrows /\ s \in Seq(ObligationLiquidity)
    BY DEF ObligationRec
<1>2. PICK b : b = [i \in DOMAIN s |->
                     [AccrueBorrow(s[i], res[s[i].borrow_reserve].cumulative_borrow_rate_wads)
                        EXCEPT !.market_value =
                           MarketValue(res[AccrueBorrow(s[i], res[s[i].borrow_reserve].cumulative_borrow_rate_wads).borrow_reserve],
                              AccrueBorrow(s[i], res[s[i].borrow_reserve].cumulative_borrow_rate_wads).borrowed_amount_wads)]]
    OBVIOUS
<1>3. RefreshedObligation(ob, res, cfg).borrowing_isolated_asset
         <=> \E i \in DOMAIN b : cfg[b[i].borrow_reserve].reserve_type = "Isolated"
    BY <1>1, <1>2 DEF RefreshedObligation
<1>4. ASSUME NEW i \in DOMAIN s PROVE b[i].borrow_reserve = s[i].borrow_reserve
    <2>1. s[i] \in ObligationLiquidity
        BY <1>1
    <2>2. PICK a, v : /\ a = AccrueBorrow(s[i], res[s[i].borrow_reserve].cumulative_borrow_rate_wads)
                      /\ b[i] = [a EXCEPT !.market_value = v]
        BY <1>2
    <2>3. a.borrow_reserve = s[i].borrow_reserve /\ "borrow_reserve" \in DOMAIN a
        BY <2>1, <2>2 DEF AccrueBorrow, ObligationLiquidity
    <2> QED BY <2>2, <2>3
<1>5. DOMAIN b = DOMAIN s
    BY <1>2
<1> QED BY <1>1, <1>3, <1>4, <1>5 DEF OwesIsolated, BorrowReserves

\* An obligation that owes nothing has no borrows, and the other way round.
LEMMA OwesNothing ==
    ASSUME NEW ob \in ObligationRec
    PROVE  BorrowReserves(ob) = {} <=> Len(ob.borrows) = 0
<1>1. DOMAIN ob.borrows = 1..Len(ob.borrows) /\ Len(ob.borrows) \in Nat
    BY DEF ObligationRec
<1>2. ASSUME Len(ob.borrows) # 0 PROVE BorrowReserves(ob) # {}
    <2>1. 1 \in DOMAIN ob.borrows
        BY <1>1, <1>2
    <2> QED BY <2>1 DEF BorrowReserves
<1>3. ASSUME Len(ob.borrows) = 0 PROVE BorrowReserves(ob) = {}
    <2>1. DOMAIN ob.borrows = {}
        BY <1>1, <1>3
    <2> QED BY <2>1 DEF BorrowReserves
<1> QED BY <1>2, <1>3

\* Lists that only shrink stay alone.
LEMMA ShrinkAlone ==
    ASSUME NEW s \in ObligationRec, NEW t \in ObligationRec, NEW cfg, NEW r,
           Shrinks(s, t) \/ AddsDeposit(s, t, r),
           OwesIsolated(s, cfg) => Len(s.borrows) = 1
    PROVE  /\ OwesIsolated(t, cfg) => OwesIsolated(s, cfg)
           /\ OwesIsolated(t, cfg) => Len(t.borrows) = 1
<1>1. BorrowReserves(t) \subseteq BorrowReserves(s)
    BY ChangeOwes
<1>2. PICK b \in Nat, c \in Nat : b = Len(s.borrows) /\ c = Len(t.borrows)
    BY DEF ObligationRec
<1>3. c <= b
    BY <1>2 DEF Shrinks, SubBorrows, SubKeys, AddsDeposit
<1>4. OwesIsolated(t, cfg) => c # 0
    BY <1>2, OwesNothing DEF OwesIsolated
<1> QED BY <1>1, <1>2, <1>3, <1>4 DEF OwesIsolated

\* A new borrow that the tiers allow.
LEMMA TierKeepsAlone ==
    ASSUME NEW s \in ObligationRec, NEW t \in ObligationRec, NEW r, AddsBorrow(s, t, r),
           TierAllows(s, r), OwesIsolated(s, config) => s.borrowing_isolated_asset
    PROVE  OwesIsolated(t, config) => Len(t.borrows) = 1
<1>1. PICK b \in Nat, c \in Nat : b = Len(s.borrows) /\ c = Len(t.borrows)
    BY DEF ObligationRec
<1>2. c = b + 1
    BY <1>1 DEF AddsBorrow, Adds
<1>3. CASE config[r].reserve_type = "Isolated"
    <2>1. s.borrows = <<>> \/ (b = 1 /\ s.borrows[1].borrow_reserve = r)
        BY <1>1, <1>3 DEF TierAllows
    <2>2. ~(b = 1 /\ s.borrows[1].borrow_reserve = r)
        <3>1. SUFFICES ASSUME b = 1, s.borrows[1].borrow_reserve = r PROVE FALSE
            OBVIOUS
        <3>2. 1 \in 1..b /\ BorrowKeys(s.borrows)[1] = r
            BY <1>1, <3>1 DEF BorrowKeys
        <3> QED BY <1>1, <3>2 DEF AddsBorrow, Adds
    <2>3. b = 0
        BY <1>1, <2>1, <2>2
    <2> QED BY <1>1, <1>2, <2>3
<1>4. CASE config[r].reserve_type # "Isolated"
    <2>1. ~OwesIsolated(s, config)
        <3>1. ~s.borrowing_isolated_asset
            BY <1>4, Zenon DEF TierAllows
        <3> QED BY <3>1, Zenon
    <2>2. BorrowReserves(t) \subseteq BorrowReserves(s) \cup {r}
        BY ChangeOwes
    <2> QED BY <1>4, <2>1, <2>2 DEF OwesIsolated
<1> QED BY <1>3, <1>4

\* Every instruction keeps an isolated debt alone.
LEMMA NextIsolatedInv ==
    IsolatedInv /\ [Next]_vars /\ [TiersKept]_vars => IsolatedInv'
<1> SUFFICES ASSUME IsolatedInv, [Next]_vars, [TiersKept]_vars PROVE IsolatedInv'
    OBVIOUS
<1>1. PositionsInv /\ PositionsInv' /\ TypeOK /\ TypeOK'
    BY NextPositionsInv DEF IsolatedInv, PositionsInv
<1>2. CASE UNCHANGED vars
    BY <1>1, <1>2 DEF vars, IsolatedInv, Alone, Flagged, IsStale, OwesIsolated, BorrowReserves
<1>3. CASE Next /\ TiersKept
    <2>1. ASSUME NEW o \in Obligations PROVE Alone(o)' /\ Flagged(o)'
        <3>1. PICK s \in ObligationRec, t \in ObligationRec : s = obligation[o] /\ t = obligation'[o]
            BY <1>1 DEF TypeOK
        <3>2. /\ OwesIsolated(s, config) => Len(s.borrows) = 1
              /\ ~IsStale(obligation_update[o]) =>
                    (OwesIsolated(s, config) => s.borrowing_isolated_asset)
            BY <3>1 DEF IsolatedInv, Alone, Flagged
        <3>3. OwesIsolated(s, config') <=> OwesIsolated(s, config)
            BY <1>1, <1>3, <3>1 DEF OwesIsolated, PositionsInv, TiersKept
        <3>4. SUFFICES /\ OwesIsolated(t, config') => Len(t.borrows) = 1
                       /\ ~IsStale(obligation_update[o])' =>
                             (OwesIsolated(t, config') => t.borrowing_isolated_asset)
            BY <3>1 DEF Alone, Flagged
        <3>5. CASE Untouched(o)
            <4>1. t = s
                BY <3>1, <3>5 DEF Untouched
            <4>2. ~IsStale(obligation_update[o])' => ~IsStale(obligation_update[o])
                BY <1>1, <1>3, <3>5, FreshBefore DEF Untouched
            <4> QED BY <3>2, <3>3, <4>1, <4>2
        <3>6. CASE Created(o)
            <4>1. t = NewObligation
                BY <3>1, <3>6 DEF Created
            <4> QED BY <4>1, NewFits DEF OwesIsolated
        <3>7. CASE Revalued(o)
            <4>1. t = RefreshedObligation(s, reserve, config) /\ config' = config
                  /\ config \in [Reserves -> ReserveConfig]
                BY <1>1, <3>1, <3>7 DEF Revalued, TypeOK
            <4>2. Shrinks(s, t)
                BY <4>1, RefreshShrinks DEF Shrinks
            <4>3. /\ OwesIsolated(t, config) => OwesIsolated(s, config)
                  /\ OwesIsolated(t, config) => Len(t.borrows) = 1
                BY <3>2, <4>2, ShrinkAlone
            <4>4. t.borrowing_isolated_asset <=> OwesIsolated(s, config)
                BY <4>1, RefreshFlags
            <4> QED BY <4>1, <4>3, <4>4
        <3>8. CASE Moved(o)
            <4>1. obligation_update'[o].stale /\ config' = config
                BY <3>8 DEF Moved
            <4>2. IsStale(obligation_update[o])'
                BY <4>1 DEF IsStale
            <4>3. PICK r \in Reserves :
                     \/ Shrinks(s, t) \/ AddsDeposit(s, t, r)
                     \/ /\ AddsBorrow(s, t, r) /\ TierAllows(s, r)
                        /\ ~IsStale(obligation_update[o])
                BY <3>1, <3>8 DEF Moved, PositionChange
            <4>4. OwesIsolated(t, config) => Len(t.borrows) = 1
                BY <3>2, <4>3, ShrinkAlone, TierKeepsAlone
            <4> QED BY <4>1, <4>2, <4>4
        <3> QED BY <1>1, <1>3, <3>5, <3>6, <3>7, <3>8, ObligationChange
    <2> QED BY <1>1, <2>1 DEF IsolatedInv
<1> QED BY <1>2, <1>3

(***************************************************************************)
(* IsolatedBorrowedAlone holds for as long as no reserve in use changes    *)
(* its tier: the flag borrowing_isolated_asset, which only a refresh       *)
(* recomputes, is up to date whenever a borrow reads it.                   *)
(***************************************************************************)
THEOREM IsolatedStaysAlone == Spec /\ [][TiersKept]_vars => []IsolatedBorrowedAlone
<1>1. Init => IsolatedInv
    <2>1. Init => \A o \in Obligations : obligation[o] = NewObligation
        BY DEF Init
    <2> QED BY <2>1, NewFits, InitPositionsInv DEF IsolatedInv, Alone, Flagged, OwesIsolated
<1>2. Spec /\ [][TiersKept]_vars => []IsolatedInv
    BY <1>1, NextIsolatedInv, PTL DEF Spec
<1>3. IsolatedInv => IsolatedBorrowedAlone
    BY DEF IsolatedInv, PositionsInv, TypeOK, Alone, OwesIsolated, IsolatedBorrowedAlone
<1> QED BY <1>2, <1>3, PTL

-----------------------------------------------------------------------------
(* No debt is ahead of its reserve.                                        *)

\* the curve of every reserve is in order, so that interest is never negative
CurvesInv ==
    /\ PositionsInv /\ PriceInv
    /\ \A r \in Reserves : CurveOrdered(config[r])

\* The validation of a configuration covers its curve.
LEMMA ValidCurve ==
    ASSUME NEW cfg, ValidateReserveConfig(cfg)
    PROVE  CurveOrdered(cfg)
<1> QED BY DEF ValidateReserveConfig, CurveOrdered

\* No signer can store a curve that is out of order.
LEMMA NextCurves ==
    ASSUME TypeOK, Next, NEW q \in Reserves, CurveOrdered(config[q])
    PROVE  CurveOrdered(config'[q])
<1> USE DEF clockVars, configVars, reserveVars, obligationVars
<1>1. CASE config' = config
    BY <1>1
<1>2. ASSUME NEW r \in Reserves, NEW cfg, ValidateReserveConfig(cfg),
             config' = [config EXCEPT ![r] = cfg]
      PROVE  CurveOrdered(config'[q])
    BY <1>2, ValidCurve DEF TypeOK
<1>3. ASSUME NEW r \in Reserves, NEW amount, NEW cfg, NEW setup, NEW reading,
             InitReserve(r, amount, cfg, setup, reading)
      PROVE  CurveOrdered(config'[q])
    BY <1>2, <1>3 DEF InitReserve
<1>4. ASSUME NEW r \in Reserves, NEW signer, NEW cfg, NEW limiter, NEW setup,
             UpdateReserveConfigByOwner(r, signer, cfg, limiter, setup)
      PROVE  CurveOrdered(config'[q])
    BY <1>2, <1>4 DEF UpdateReserveConfigByOwner, ConfigAcceptable
<1>5. ASSUME NEW r \in Reserves, NEW signer, NEW cfg, NEW limiter,
             UpdateReserveConfigByRiskAuthority(r, signer, cfg, limiter)
      PROVE  CurveOrdered(config'[q])
    <2>1. PICK x, y : config' = [config EXCEPT ![r] = [config[r] EXCEPT !.borrow_limit = x,
                                                                       !.deposit_limit = y]]
        BY <1>5 DEF UpdateReserveConfigByRiskAuthority
    <2>2. config[r] \in ReserveConfig
        BY DEF TypeOK
    <2>3. CASE q = r
        <3>1. config'[q] = [config[q] EXCEPT !.borrow_limit = x, !.deposit_limit = y]
            BY <2>1, <2>3 DEF TypeOK
        <3> QED BY <2>2, <2>3, <3>1 DEF CurveOrdered, ReserveConfig
    <2>4. CASE q # r
        BY <2>1, <2>4 DEF TypeOK
    <2> QED BY <2>3, <2>4
<1>6. ASSUME NEW r \in Reserves, NEW signer, NEW cfg, UpdateReserveConfigBySolend(r, signer, cfg)
      PROVE  CurveOrdered(config'[q])
    <2>1. PICK x, y, z, v, w :
             config' = [config EXCEPT ![r] = [config[r] EXCEPT !.borrow_fee_wad = x,
                           !.flash_loan_fee_wad = y, !.host_fee_percentage = z,
                           !.protocol_liquidation_fee = v, !.protocol_take_rate = w]]
        BY <1>6 DEF UpdateReserveConfigBySolend
    <2>2. config[r] \in ReserveConfig
        BY DEF TypeOK
    <2>3. CASE q = r
        <3>1. config'[q] = [config[q] EXCEPT !.borrow_fee_wad = x, !.flash_loan_fee_wad = y,
                               !.host_fee_percentage = z, !.protocol_liquidation_fee = v,
                               !.protocol_take_rate = w]
            BY <2>1, <2>3 DEF TypeOK
        <3> QED BY <2>2, <2>3, <3>1 DEF CurveOrdered, ReserveConfig
    <2>4. CASE q # r
        BY <2>1, <2>4 DEF TypeOK
    <2> QED BY <2>3, <2>4
<1>7. Tick \/ FlashRepayReserveLiquidity => config' = config
    BY DEF Tick, FlashRepayReserveLiquidity
<1>8. ASSUME NEW r \in Reserves, ReserveStep(r) PROVE CurveOrdered(config'[q])
    <2>1. ASSUME NEW reading PROVE RefreshReserve(r, reading) \/ RedeemFees(r) => config' = config
        BY Zenon DEF RefreshReserve, RedeemFees
    <2>2. ASSUME NEW amount
          PROVE  DepositReserveLiquidity(r, amount) \/ RedeemReserveCollateral(r, amount)
                    \/ FlashBorrowReserveLiquidity(r, amount) => config' = config
        BY DEF DepositReserveLiquidity, RedeemReserveCollateral, FlashBorrowReserveLiquidity
    <2> QED BY <1>1, <1>3, <1>8, <2>1, <2>2 DEF ReserveStep
<1>9. ASSUME NEW r \in Reserves, NEW signer, ConfigStep(r, signer) PROVE CurveOrdered(config'[q])
    BY <1>4, <1>5, <1>6, <1>9 DEF ConfigStep
<1>10. ASSUME NEW owner, NEW limiter, NEW liquidator, NEW risk
       PROVE  SetLendingMarketOwnerAndConfig(owner, limiter, liquidator, risk) => config' = config
    BY DEF SetLendingMarketOwnerAndConfig
<1>11. ASSUME NEW o PROVE InitObligation(o) \/ RefreshObligation(o) => config' = config
    BY DEF InitObligation, RefreshObligation
<1>12. ASSUME NEW o, NEW r, PositionStep(o, r) PROVE config' = config
    BY <1>12, PositionStepWrites DEF WritesPosition
<1> QED BY <1>1, <1>7, <1>8, <1>9, <1>10, <1>11, <1>12 DEF Next

\* Every instruction keeps the rate curves ordered.
LEMMA NextCurvesInv == CurvesInv /\ [Next]_vars => CurvesInv'
<1> SUFFICES ASSUME CurvesInv, [Next]_vars PROVE CurvesInv'
    OBVIOUS
<1>1. PositionsInv' /\ PriceInv' /\ TypeOK
    BY NextPositionsInv, NextPriceInv DEF CurvesInv, PositionsInv
<1>2. \A r \in Reserves : CurveOrdered(config'[r])
    <2>1. CASE UNCHANGED vars
        BY <2>1 DEF vars, CurvesInv
    <2>2. CASE Next
        BY <1>1, <2>2, NextCurves DEF CurvesInv
    <2> QED BY <2>1, <2>2
<1> QED BY <1>1, <1>2 DEF CurvesInv

\* So are those of reserves that do not exist yet.
LEMMA InitCurvesInv == Init => CurvesInv
<1>1. CurveOrdered(NoConfig)
    BY WadAssumption DEF CurveOrdered, NoConfig
<1>2. Init => \A r \in Reserves : config[r] = NoConfig
    BY DEF Init
<1> QED BY <1>1, <1>2, InitPositionsInv, InitPriceInv DEF CurvesInv

\* the cumulative rate of a reserve does not go down in this step
RateKept(q) ==
    reserve[q].cumulative_borrow_rate_wads <= reserve'[q].cumulative_borrow_rate_wads

\* Interest never lowers the cumulative rate, and what handlers do next keeps it.
LEMMA InterestKeepsRate ==
    ASSUME CurvesInv, NEW r \in Reserves, NEW res \in WithInterest(r)
    PROVE  /\ reserve[r].cumulative_borrow_rate_wads <= res.cumulative_borrow_rate_wads
           /\ res.cumulative_borrow_rate_wads \in Nat
           /\ \A x : DepositLiquidity(res, x).cumulative_borrow_rate_wads
                        = res.cumulative_borrow_rate_wads
           /\ \A x, y : LiquidityRepay(res, x, y).cumulative_borrow_rate_wads
                        = res.cumulative_borrow_rate_wads
           /\ \A x : LiquidityBorrow(res, x).cumulative_borrow_rate_wads
                        = res.cumulative_borrow_rate_wads
           /\ \A m, p : [res EXCEPT !.market_price = m,
                                    !.smoothed_market_price = p].cumulative_borrow_rate_wads
                        = res.cumulative_borrow_rate_wads
<1>1. reserve[r] \in ReserveRec /\ config[r] \in ReserveConfig /\ CurveOrdered(config[r])
    BY DEF CurvesInv, PositionsInv, TypeOK
<1>2. PICK slots \in Nat : slots = slot - reserve_update[r].slot
    <2>1. reserve_update[r] \in PastUpdate /\ slot \in Int
        BY DEF CurvesInv, PriceInv
    <2>2. reserve_update[r].slot \in Int /\ reserve_update[r].slot <= slot
        BY <2>1 DEF PastUpdate
    <2> QED BY <2>1, <2>2
<1>3. res \in AccrueInterest(config[r], reserve[r], slots)
    BY <1>2 DEF WithInterest
<1>4. /\ reserve[r].cumulative_borrow_rate_wads <= res.cumulative_borrow_rate_wads
      /\ res.cumulative_borrow_rate_wads \in Nat
    BY <1>1, <1>3, InterestGrows
<1>5. CASE res = reserve[r]
    BY <1>1, <1>4, <1>5 DEF DepositLiquidity, LiquidityRepay, LiquidityBorrow, ReserveRec
<1>6. CASE res # reserve[r]
    <2>1. res = CompoundInterest(config[r], reserve[r], slots)
        BY <1>3, <1>6 DEF AccrueInterest, Result
    <2>2. PICK x, y, z : res = [reserve[r] EXCEPT !.cumulative_borrow_rate_wads = x,
                                                  !.accumulated_protocol_fees_wads = y,
                                                  !.borrowed_amount_wads = z]
        BY <2>1, Zenon DEF CompoundInterest
    <2> QED BY <1>1, <1>4, <2>2 DEF DepositLiquidity, LiquidityRepay, LiquidityBorrow, ReserveRec
<1> QED BY <1>5, <1>6

\* Moving liquidity without interest keeps the rate.
LEMMA MovesKeepRate ==
    ASSUME NEW res \in ReserveRec
    PROVE  /\ \A x : RedeemCollateral(res, x).cumulative_borrow_rate_wads
                        = res.cumulative_borrow_rate_wads
           /\ \A x : LiquidityRedeemFees(res, x).cumulative_borrow_rate_wads
                        = res.cumulative_borrow_rate_wads
           /\ \A x : LiquidityBorrow(res, x).cumulative_borrow_rate_wads
                        = res.cumulative_borrow_rate_wads
           /\ \A x : LiquidityForgiveDebt(res, x).cumulative_borrow_rate_wads
                        = res.cumulative_borrow_rate_wads
           /\ \A x, y : LiquidityRepay(res, x, y).cumulative_borrow_rate_wads
                        = res.cumulative_borrow_rate_wads
           /\ \A x, y, z : RedeemCollateral(LiquidityRepay(res, x, y), z).cumulative_borrow_rate_wads
                        = res.cumulative_borrow_rate_wads
           /\ res.cumulative_borrow_rate_wads \in Nat
<1> QED BY WadAssumption
        DEF RedeemCollateral, LiquidityRedeemFees, LiquidityBorrow, LiquidityForgiveDebt,
            LiquidityRepay, ReserveRec, U128

\* A packed reserve whose rate has not gone down.
LEMMA PackedRate ==
    ASSUME TypeOK, NEW r \in Reserves, NEW res, PackReserve(r, res),
           reserve[r].cumulative_borrow_rate_wads <= res.cumulative_borrow_rate_wads
    PROVE  /\ \A q \in Reserves : RateKept(q)
           /\ reserve'[r].cumulative_borrow_rate_wads = res.cumulative_borrow_rate_wads
<1>1. reserve'[r] = res
    BY DEF PackReserve, TypeOK
<1>2. \A q \in Reserves \ {r} : reserve'[q] = reserve[q]
    BY OtherReserves
<1>3. \A q \in Reserves : reserve[q].cumulative_borrow_rate_wads \in Nat
    <2>1. \A q \in Reserves : reserve[q] \in ReserveRec
        BY DEF TypeOK
    <2> QED BY <2>1, MovesKeepRate
<1> QED BY <1>1, <1>2, <1>3 DEF RateKept

\* the rates of the reserves after an instruction that writes none of them
LEMMA SameRates ==
    ASSUME TypeOK, reserve' = reserve
    PROVE  \A q \in Reserves : RateKept(q)
<1>1. \A q \in Reserves : reserve[q] \in ReserveRec
    BY DEF TypeOK
<1>2. \A q \in Reserves : reserve[q].cumulative_borrow_rate_wads \in Nat
    BY <1>1, MovesKeepRate
<1> QED BY <1>2 DEF RateKept

(***************************************************************************)
(* The entries of a list of borrows after an instruction: each is one that *)
(* was there, with its reserve and its rate, or is owed to r at rate.      *)
(***************************************************************************)
Carried(s, b) ==
    \E i \in 1..Len(s) : /\ b.borrow_reserve = s[i].borrow_reserve
                         /\ b.cumulative_borrow_rate_wads = s[i].cumulative_borrow_rate_wads

Dated(s, t, r, rate) ==
    \A k \in 1..Len(t) :
        \/ Carried(s, t[k])
        \/ t[k].borrow_reserve = r /\ t[k].cumulative_borrow_rate_wads = rate

\* A list that did not change.
LEMMA SameDated ==
    ASSUME NEW s, NEW r, NEW rate
    PROVE  Dated(s, s, r, rate)
<1> QED BY DEF Dated, Carried

\* One entry replaced.
LEMMA ReplacedDated ==
    ASSUME NEW X, NEW s \in Seq(X), NEW i \in 1..Len(s), NEW b, NEW r, NEW rate,
           Carried(s, b) \/ (b.borrow_reserve = r /\ b.cumulative_borrow_rate_wads = rate)
    PROVE  Dated(s, [s EXCEPT ![i] = b], r, rate)
<1>1. PICK t : t = [s EXCEPT ![i] = b]
    OBVIOUS
<1>2. Len(t) = Len(s) /\ Len(s) \in Nat /\ t[i] = b /\ \A k \in (1..Len(s)) \ {i} : t[k] = s[k]
    BY <1>1
<1>3. ASSUME NEW k \in 1..Len(t)
      PROVE  Carried(s, t[k]) \/ (t[k].borrow_reserve = r /\ t[k].cumulative_borrow_rate_wads = rate)
    <2>1. CASE k = i
        BY <1>2, <2>1
    <2>2. CASE k # i
        BY <1>2, <2>2 DEF Carried
    <2> QED BY <2>1, <2>2
<1> QED BY <1>1, <1>3 DEF Dated

\* Obligation::repay drops an entry or lowers its amount.
LEMMA RepayDated ==
    ASSUME NEW ob, "borrows" \in DOMAIN ob, NEW X, ob.borrows \in Seq(X),
           NEW i \in 1..Len(ob.borrows), "borrow_reserve" \in DOMAIN ob.borrows[i],
           "cumulative_borrow_rate_wads" \in DOMAIN ob.borrows[i], NEW x, NEW r, NEW rate
    PROVE  Dated(ob.borrows, ObligationRepay(ob, i, x).borrows, r, rate)
<1>1. PICK s : s = ob.borrows /\ s \in Seq(X) /\ i \in 1..Len(s)
    OBVIOUS
<1>2. PICK t : t = ObligationRepay(ob, i, x).borrows
    OBVIOUS
<1>3. CASE x = s[i].borrowed_amount_wads
    <2>1. t = RemoveAt(s, i)
        BY <1>1, <1>2, <1>3 DEF ObligationRepay
    <2>2. PICK n \in Nat : n = Len(s)
        BY <1>1
    <2>3. Len(t) = n - 1 /\ \A k \in 1..(n - 1) : t[k] = s[IF k < i THEN k ELSE k + 1]
        BY <1>1, <2>1, <2>2, RemoveAtList
    <2>4. ASSUME NEW k \in 1..Len(t) PROVE Carried(s, t[k])
        <3>1. PICK j : j = IF k < i THEN k ELSE k + 1
            OBVIOUS
        <3>2. k \in 1..(n - 1) /\ i \in 1..n
            BY <1>1, <2>2, <2>3
        <3>3. t[k] = s[IF k < i THEN k ELSE k + 1]
            BY <2>3, <3>2
        <3>4. t[k] = s[j]
            BY <3>1, <3>3
        <3>5. j \in 1..Len(s)
            BY <2>2, <3>1, <3>2
        <3> QED BY <3>4, <3>5 DEF Carried
    <2> QED BY <1>1, <1>2, <2>4 DEF Dated
<1>4. CASE x # s[i].borrowed_amount_wads
    <2>1. PICK b : b = [s[i] EXCEPT !.borrowed_amount_wads = @ - x]
        OBVIOUS
    <2>2. t = [s EXCEPT ![i] = b]
        BY <1>1, <1>2, <1>4, <2>1 DEF ObligationRepay
    <2>3. /\ b.borrow_reserve = s[i].borrow_reserve
          /\ b.cumulative_borrow_rate_wads = s[i].cumulative_borrow_rate_wads
        BY <1>1, <2>1
    <2>4. Carried(s, b)
        BY <1>1, <2>3 DEF Carried
    <2> QED BY <1>1, <1>2, <2>2, <2>4, ReplacedDated
<1> QED BY <1>3, <1>4

\* Obligation::find_or_add_liquidity_to_borrows keeps the rate of an entry that exists.
LEMMA BorrowDated ==
    ASSUME NEW ob \in ObligationRec, NEW r, NEW rate, NEW x
    PROVE  Dated(ob.borrows, ObligationBorrow(ob, r, rate, x).borrows, r, rate)
<1>1. PICK s, t : s = ob.borrows /\ t = ObligationBorrow(ob, r, rate, x)
    OBVIOUS
<1>2. s \in Seq(ObligationLiquidity) /\ Len(s) \in Nat
    BY <1>1 DEF ObligationRec
<1>3. PICK i : i = BorrowIndex(ob, r)
    OBVIOUS
<1>4. CASE i # 0
    <2>1. i \in 1..Len(s) /\ s[i] \in ObligationLiquidity
        BY <1>1, <1>3, <1>4, BorrowIndexIn
    <2>2. PICK b : b = [s[i] EXCEPT !.borrowed_amount_wads = @ + x]
        OBVIOUS
    <2>3. t.borrows = [s EXCEPT ![i] = b]
        BY <1>1, <1>3, <1>4, <2>2 DEF ObligationBorrow, ObligationRec
    <2>4. /\ b.borrow_reserve = s[i].borrow_reserve
          /\ b.cumulative_borrow_rate_wads = s[i].cumulative_borrow_rate_wads
        BY <2>1, <2>2 DEF ObligationLiquidity
    <2>5. Carried(s, b)
        BY <2>1, <2>4 DEF Carried
    <2>6. Dated(s, [s EXCEPT ![i] = b], r, rate)
        BY <1>2, <2>1, <2>5, ReplacedDated
    <2> QED BY <1>1, <2>3, <2>6
<1>5. CASE i = 0
    <2>1. PICK b : b = [borrow_reserve |-> r, cumulative_borrow_rate_wads |-> rate,
                        borrowed_amount_wads |-> x, market_value |-> 0]
        OBVIOUS
    <2>2. t.borrows = Append(s, b)
        BY <1>1, <1>3, <1>5, <2>1 DEF ObligationBorrow, ObligationRec
    <2>3. PICK v : v = t.borrows
        OBVIOUS
    <2>4. Len(v) = Len(s) + 1 /\ v[Len(s) + 1] = b /\ \A k \in 1..Len(s) : v[k] = s[k]
        BY <1>2, <2>2, <2>3
    <2>5. \A k \in 1..Len(s) : Carried(s, v[k])
        BY <2>4 DEF Carried
    <2>6. b.borrow_reserve = r /\ b.cumulative_borrow_rate_wads = rate
        BY <2>1
    <2>7. \A k \in 1..Len(v) : k \in 1..Len(s) \/ k = Len(s) + 1
        BY <1>2, <2>4
    <2> QED BY <1>1, <2>3, <2>4, <2>5, <2>6, <2>7 DEF Dated
<1> QED BY <1>4, <1>5

\* What an instruction on a position does to the rates it is about.
RatesDated(o, r) ==
    /\ \A q \in Reserves : RateKept(q)
    /\ Dated(obligation[o].borrows, obligation'[o].borrows, r,
             reserve'[r].cumulative_borrow_rate_wads)

\* Each of those instructions dates the debts with rates of their reserves.
LEMMA PositionStepRates ==
    ASSUME CurvesInv, NEW o \in Obligations, NEW r \in Reserves, PositionStep(o, r)
    PROVE  RatesDated(o, r)
<1>0. TypeOK /\ reserve[r] \in ReserveRec /\ obligation[o] \in ObligationRec
    BY DEF CurvesInv, PositionsInv, TypeOK
<1>1. ASSUME NEW res \in WithInterest(r), NEW new, PackReserve(r, new),
             new.cumulative_borrow_rate_wads = res.cumulative_borrow_rate_wads
      PROVE  /\ \A q \in Reserves : RateKept(q)
             /\ reserve'[r].cumulative_borrow_rate_wads = res.cumulative_borrow_rate_wads
    BY <1>0, <1>1, InterestKeepsRate, PackedRate
<1>2. ASSUME NEW new, PackReserve(r, new),
             new.cumulative_borrow_rate_wads = reserve[r].cumulative_borrow_rate_wads
      PROVE  /\ \A q \in Reserves : RateKept(q)
             /\ reserve'[r].cumulative_borrow_rate_wads = reserve[r].cumulative_borrow_rate_wads
    BY <1>0, <1>2, MovesKeepRate, PackedRate
<1>3. ASSUME NEW x, PackObligation(o, ObligationDeposit(obligation[o], r, x))
      PROVE  obligation'[o].borrows = obligation[o].borrows
    BY <1>0, <1>3, Packed DEF ObligationDeposit, ObligationRec
<1>4. ASSUME NEW x, PackObligation(o, Withdrawn(o, r, x))
      PROVE  obligation'[o].borrows = obligation[o].borrows
    BY <1>0, <1>4, Packed DEF Withdrawn, ObligationWithdraw, ObligationRec
<1>5. ASSUME obligation'[o].borrows = obligation[o].borrows, \A q \in Reserves : RateKept(q)
      PROVE  RatesDated(o, r)
    BY <1>5, SameDated DEF RatesDated
<1>6. ASSUME NEW amount, DepositObligationCollateral(o, r, amount) PROVE RatesDated(o, r)
    <2>1. PICK res \in WithInterest(r) : PackReserve(r, res)
        BY <1>6 DEF DepositObligationCollateral
    <2>2. PackObligation(o, ObligationDeposit(obligation[o], r, amount))
        BY <1>6 DEF DepositObligationCollateral
    <2> QED BY <1>1, <1>3, <1>5, <2>1, <2>2
<1>7. ASSUME NEW amount, DepositReserveLiquidityAndObligationCollateral(o, r, amount)
      PROVE  RatesDated(o, r)
    <2>1. PICK res \in WithInterest(r) :
             /\ PackReserve(r, DepositLiquidity(res, amount))
             /\ PackObligation(o, ObligationDeposit(obligation[o], r, CollateralFor(res, amount)))
        BY <1>7 DEF DepositReserveLiquidityAndObligationCollateral
    <2> QED BY <1>1, <1>3, <1>5, <2>1, InterestKeepsRate
<1>8. ASSUME NEW amount, WithdrawObligationCollateral(o, r, amount) PROVE RatesDated(o, r)
    <2>1. PICK x : PackObligation(o, Withdrawn(o, r, x)) /\ reserve' = reserve
        BY <1>8 DEF WithdrawObligationCollateral, reserveVars
    <2> QED BY <1>0, <1>4, <1>5, <2>1, SameRates
<1>9. ASSUME NEW amount, WithdrawObligationCollateralAndRedeem(o, r, amount)
      PROVE  RatesDated(o, r)
    <2>1. PICK x : /\ PackObligation(o, Withdrawn(o, r, x))
                   /\ PackReserve(r, RedeemCollateral(reserve[r], x))
        BY <1>9 DEF WithdrawObligationCollateralAndRedeem
    <2>2. RedeemCollateral(reserve[r], x).cumulative_borrow_rate_wads
             = reserve[r].cumulative_borrow_rate_wads
        BY <1>0, MovesKeepRate
    <2> QED BY <1>2, <1>4, <1>5, <2>1, <2>2
<1>10. ASSUME NEW amount, NEW host, BorrowObligationLiquidity(o, r, amount, host)
       PROVE  RatesDated(o, r)
    <2>1. PICK x : /\ PackReserve(r, LiquidityBorrow(reserve[r], x))
                   /\ PackObligation(o, ObligationBorrow(obligation[o], r,
                                            reserve[r].cumulative_borrow_rate_wads, x))
        BY <1>10 DEF BorrowObligationLiquidity
    <2>2. /\ \A q \in Reserves : RateKept(q)
          /\ reserve'[r].cumulative_borrow_rate_wads = reserve[r].cumulative_borrow_rate_wads
        BY <1>0, <1>2, <2>1, MovesKeepRate
    <2>3. obligation'[o] = ObligationBorrow(obligation[o], r,
                               reserve[r].cumulative_borrow_rate_wads, x)
        BY <1>0, <2>1, Packed
    <2> QED BY <1>0, <2>2, <2>3, BorrowDated DEF RatesDated
<1>11. ASSUME NEW amount, RepayObligationLiquidity(o, r, amount) PROVE RatesDated(o, r)
    <2>1. PICK i, s : i = BorrowIndex(obligation[o], r) /\ s = obligation[o].borrows
        OBVIOUS
    <2>2. PICK res, x, y, d :
             /\ res \in WithInterest(r)
             /\ d = AccrueBorrow(s[i], res.cumulative_borrow_rate_wads) /\ i # 0
             /\ PackReserve(r, LiquidityRepay(res, y, x))
             /\ PackObligation(o, ObligationRepay([obligation[o] EXCEPT !.borrows[i] = d], i, x))
        BY <1>11, <2>1 DEF RepayObligationLiquidity
    <2>3. PICK rate : rate = res.cumulative_borrow_rate_wads
        OBVIOUS
    <2>4. (\A q \in Reserves : RateKept(q)) /\ reserve'[r].cumulative_borrow_rate_wads = rate
        BY <1>1, <2>2, <2>3, InterestKeepsRate
    <2>5. i \in 1..Len(s) /\ s[i] \in ObligationLiquidity /\ s[i].borrow_reserve = r
          /\ s \in Seq(ObligationLiquidity)
        BY <1>0, <2>1, <2>2, BorrowIndexIn DEF ObligationRec
    <2>6. /\ d.borrow_reserve = r /\ d.cumulative_borrow_rate_wads = rate
          /\ "borrow_reserve" \in DOMAIN d /\ "cumulative_borrow_rate_wads" \in DOMAIN d
        BY <2>2, <2>3, <2>5 DEF AccrueBorrow, ObligationLiquidity
    <2>7. PICK u, ab : u = [s EXCEPT ![i] = d] /\ ab = [obligation[o] EXCEPT !.borrows[i] = d]
        OBVIOUS
    <2>8. ab.borrows = u /\ "borrows" \in DOMAIN ab
        BY <1>0, <2>1, <2>7 DEF ObligationRec
    <2>9. PICK X : X = ObligationLiquidity \cup {d}
        OBVIOUS
    <2>10. u \in Seq(X) /\ Len(u) = Len(s) /\ u[i] = d
        BY <2>5, <2>7, <2>9
    <2>11. Dated(s, u, r, rate)
        BY <2>5, <2>6, <2>7, ReplacedDated
    <2>12. PICK t : t = obligation'[o].borrows
        OBVIOUS
    <2>13. Dated(u, t, r, rate)
        <3>1. t = ObligationRepay(ab, i, x).borrows
            BY <1>0, <2>2, <2>7, <2>12, Packed
        <3> QED BY <2>5, <2>6, <2>8, <2>10, <3>1, RepayDated
    <2>14. Dated(s, t, r, rate)
        BY <2>11, <2>13 DEF Dated, Carried
    <2> QED BY <2>1, <2>4, <2>12, <2>14 DEF RatesDated
<1>12. ASSUME NEW ob \in ObligationRec, NEW i \in 1..Len(ob.borrows), NEW x, NEW rate
       PROVE  Dated(ob.borrows, ObligationRepay(ob, i, x).borrows, r, rate)
    <2>1. /\ ob.borrows \in Seq(ObligationLiquidity) /\ ob.borrows[i] \in ObligationLiquidity
          /\ "borrows" \in DOMAIN ob
        BY DEF ObligationRec
    <2>2. /\ "borrow_reserve" \in DOMAIN ob.borrows[i]
          /\ "cumulative_borrow_rate_wads" \in DOMAIN ob.borrows[i]
        BY <2>1 DEF ObligationLiquidity
    <2> QED BY <2>1, <2>2, RepayDated
<1>13. ASSUME NEW w \in Reserves, NEW amount, NEW liquidator,
              LiquidateObligation(o, r, w, amount, liquidator)
       PROVE  RatesDated(o, r)
    <2>1. PICK s, x, y, ab, i, t :
             /\ s = obligation[o] /\ ab = ObligationRepay(s, 1, x) /\ i = DepositIndex(ab, w)
             /\ t = ObligationWithdraw(ab, i, y) /\ PackObligation(o, t)
        BY <1>13 DEF LiquidateObligation
    <2>2. s \in ObligationRec /\ obligation'[o] = t
        BY <1>0, <2>1, Packed
    <2>3. 1 \in 1..Len(s.borrows)
        <3>1. BorrowIndex(s, r) = 1
            BY <1>13, <2>1 DEF LiquidateObligation, CanLiquidate
        <3>2. BorrowIndex(s, r) # 0
            BY <3>1
        <3> QED BY <2>2, <3>1, <3>2, BorrowIndexIn
    <2>4. t.borrows = ab.borrows
        <3>1. "borrows" \in DOMAIN s
            BY <2>2 DEF ObligationRec
        <3>2. "borrows" \in DOMAIN ab
            BY <2>1, <3>1 DEF ObligationRepay
        <3> QED BY <2>1, <3>2 DEF ObligationWithdraw
    <2>5. Dated(s.borrows, t.borrows, r, reserve'[r].cumulative_borrow_rate_wads)
        BY <1>12, <2>1, <2>2, <2>3, <2>4
    <2>6. \A q \in Reserves : RateKept(q)
        <3>0. PICK m, n : m = LiquidationTerms(o, w, amount).repay_amount
                          /\ n = LiquidationTerms(o, w, amount).settle_amount
            OBVIOUS
        <3>1. PICK rep, z :
                 /\ rep = [reserve EXCEPT ![r] = LiquidityRepay(@, m, n)]
                 /\ reserve' = rep \/ reserve' = [rep EXCEPT ![w] = RedeemCollateral(@, z)]
            <4>1. PICK rep : rep = [reserve EXCEPT ![r] = LiquidityRepay(@, m, n)]
                OBVIOUS
            <4>2. \/ reserve' = rep
                  \/ \E z : reserve' = [rep EXCEPT ![w] = RedeemCollateral(@, z)]
                BY <1>13, <3>0, <4>1 DEF LiquidateObligation
            <4> QED BY <4>1, <4>2
        <3>2. ASSUME NEW q \in Reserves
              PROVE  reserve'[q].cumulative_borrow_rate_wads = reserve[q].cumulative_borrow_rate_wads
            <4>1. reserve[q] \in ReserveRec
                BY <1>0 DEF TypeOK
            <4>2. /\ DOMAIN rep = Reserves /\ DOMAIN reserve = Reserves
                  /\ rep[q] = reserve[q] \/ rep[q] = LiquidityRepay(reserve[q], m, n)
                BY <1>0, <3>1 DEF TypeOK
            <4>3. reserve'[q] = rep[q] \/ reserve'[q] = RedeemCollateral(rep[q], z)
                BY <3>1, <4>2
            <4> QED BY <4>1, <4>2, <4>3, MovesKeepRate
        <3>3. \A q \in Reserves : reserve[q].cumulative_borrow_rate_wads \in Nat
            <4>1. \A q \in Reserves : reserve[q] \in ReserveRec
                BY <1>0 DEF TypeOK
            <4> QED BY <4>1, MovesKeepRate
        <3> QED BY <3>2, <3>3 DEF RateKept
    <2> QED BY <2>1, <2>2, <2>5, <2>6 DEF RatesDated
<1>14. ASSUME NEW amount, ForgiveDebt(o, r, amount) PROVE RatesDated(o, r)
    <2>1. PICK s, x, i, t : /\ s = obligation[o] /\ i = BorrowIndex(s, r) /\ i # 0
                            /\ t = ObligationRepay(s, i, x) /\ PackObligation(o, t)
                            /\ PackReserve(r, LiquidityForgiveDebt(reserve[r], x))
        BY <1>14 DEF ForgiveDebt
    <2>2. s \in ObligationRec /\ obligation'[o] = t
        BY <1>0, <2>1, Packed
    <2>3. i \in 1..Len(s.borrows)
        BY <2>1, <2>2, BorrowIndexIn
    <2>4. \A q \in Reserves : RateKept(q)
        BY <1>0, <1>2, <2>1, MovesKeepRate
    <2> QED BY <1>12, <2>1, <2>2, <2>3, <2>4 DEF RatesDated
<1> QED BY <1>6, <1>7, <1>8, <1>9, <1>10, <1>11, <1>13, <1>14 DEF PositionStep

\* No instruction lowers the cumulative rate of a reserve in use.
LEMMA RatesGrow ==
    ASSUME CurvesInv, Next, NEW q \in live
    PROVE  RateKept(q)
<1>0. TypeOK /\ q \in Reserves /\ \A r \in Reserves : reserve[r] \in ReserveRec
    BY DEF CurvesInv, PositionsInv, TypeOK
<1> USE DEF clockVars, configVars, reserveVars, obligationVars
<1>1. CASE reserve' = reserve
    BY <1>0, <1>1, SameRates
<1>2. ASSUME NEW r \in Reserves, NEW new, PackReserve(r, new),
             new.cumulative_borrow_rate_wads = reserve[r].cumulative_borrow_rate_wads
      PROVE  RateKept(q)
    <2>1. reserve[r].cumulative_borrow_rate_wads <= new.cumulative_borrow_rate_wads
        BY <1>0, <1>2, MovesKeepRate
    <2> QED BY <1>0, <1>2, <2>1, PackedRate
<1>3. ASSUME NEW r \in Reserves, NEW res \in WithInterest(r), NEW new, PackReserve(r, new),
             new.cumulative_borrow_rate_wads = res.cumulative_borrow_rate_wads
      PROVE  RateKept(q)
    <2>1. reserve[r].cumulative_borrow_rate_wads <= new.cumulative_borrow_rate_wads
        BY <1>3, InterestKeepsRate
    <2> QED BY <1>0, <1>3, <2>1, PackedRate
<1>4. Tick => reserve' = reserve
    BY DEF Tick
<1>5. ASSUME FlashRepayReserveLiquidity PROVE RateKept(q)
    <2>1. PICK r : r = flash.reserve
        OBVIOUS
    <2>2. r \in Reserves
        BY <1>0, <1>5, <2>1 DEF FlashRepayReserveLiquidity, TypeOK
    <2>3. PICK x, y : PackReserve(r, LiquidityRepay(reserve[r], x, y))
        BY <1>5, <2>1 DEF FlashRepayReserveLiquidity
    <2> QED BY <1>0, <1>2, <2>2, <2>3, MovesKeepRate
<1>6. ASSUME NEW r \in Reserves, ReserveStep(r) PROVE RateKept(q)
    <2>1. ASSUME NEW amount, NEW cfg, NEW setup, NEW reading,
                 InitReserve(r, amount, cfg, setup, reading)
          PROVE  RateKept(q)
        <3>1. PICK res : PackReserve(r, res) /\ q # r
            BY <2>1 DEF InitReserve
        <3>2. reserve'[q] = reserve[q]
            BY <1>0, <3>1, OtherReserves
        <3>3. reserve[q].cumulative_borrow_rate_wads \in Nat
            BY <1>0, MovesKeepRate
        <3> QED BY <3>2, <3>3 DEF RateKept
    <2>2. ASSUME NEW reading, RefreshReserve(r, reading) PROVE RateKept(q)
        <3>1. PICK res, m, p :
                 /\ res \in WithInterest(r)
                 /\ PackReserve(r, [res EXCEPT !.market_price = m, !.smoothed_market_price = p])
            BY <2>2, Zenon DEF RefreshReserve
        <3>2. PICK new : new = [res EXCEPT !.market_price = m, !.smoothed_market_price = p]
            OBVIOUS
        <3>3. new.cumulative_borrow_rate_wads = res.cumulative_borrow_rate_wads
            BY <3>2, InterestKeepsRate
        <3> QED BY <1>3, <3>1, <3>2, <3>3
    <2>3. ASSUME NEW amount, DepositReserveLiquidity(r, amount) PROVE RateKept(q)
        <3>1. PICK res \in WithInterest(r) : PackReserve(r, DepositLiquidity(res, amount))
            BY <2>3 DEF DepositReserveLiquidity
        <3> QED BY <1>3, <3>1, InterestKeepsRate
    <2>4. ASSUME NEW amount, RedeemReserveCollateral(r, amount) PROVE RateKept(q)
        <3>1. PackReserve(r, RedeemCollateral(reserve[r], amount))
            BY <2>4 DEF RedeemReserveCollateral
        <3> QED BY <1>0, <1>2, <3>1, MovesKeepRate
    <2>5. ASSUME RedeemFees(r) PROVE RateKept(q)
        <3>1. PICK x : PackReserve(r, LiquidityRedeemFees(reserve[r], x))
            BY <2>5 DEF RedeemFees
        <3> QED BY <1>0, <1>2, <3>1, MovesKeepRate
    <2>6. ASSUME NEW amount, FlashBorrowReserveLiquidity(r, amount) PROVE RateKept(q)
        <3>1. PICK res \in WithInterest(r) : PackReserve(r, LiquidityBorrow(res, FromU64(amount)))
            BY <2>6 DEF FlashBorrowReserveLiquidity
        <3> QED BY <1>3, <3>1, InterestKeepsRate
    <2> QED BY <1>6, <2>1, <2>2, <2>3, <2>4, <2>5, <2>6 DEF ReserveStep
<1>7. ASSUME NEW r, NEW signer PROVE ConfigStep(r, signer) => reserve' = reserve
    BY DEF ConfigStep, UpdateReserveConfigByOwner, UpdateReserveConfigByRiskAuthority,
           UpdateReserveConfigBySolend
<1>8. ASSUME NEW owner, NEW limiter, NEW liquidator, NEW risk
      PROVE  SetLendingMarketOwnerAndConfig(owner, limiter, liquidator, risk) => reserve' = reserve
    BY DEF SetLendingMarketOwnerAndConfig
<1>9. ASSUME NEW o PROVE InitObligation(o) \/ RefreshObligation(o) => reserve' = reserve
    BY DEF InitObligation, RefreshObligation
<1>10. ASSUME NEW o \in Obligations, NEW r \in Reserves, PositionStep(o, r) PROVE RateKept(q)
    BY <1>0, <1>10, PositionStepRates DEF RatesDated
<1> QED BY <1>1, <1>4, <1>5, <1>6, <1>7, <1>8, <1>9, <1>10 DEF Next

\* every debt of an obligation was last accrued at a rate its reserve had
Behind(ob, res) ==
    \A i \in 1..Len(ob.borrows) :
        ob.borrows[i].cumulative_borrow_rate_wads
            <= res[ob.borrows[i].borrow_reserve].cumulative_borrow_rate_wads

DebtRateInv == CurvesInv /\ \A o \in Obligations : Behind(obligation[o], reserve)

\* The reserves keep ahead of the debts that were there.
LEMMA CarriedBehind ==
    ASSUME CurvesInv, Next, NEW o \in Obligations, Behind(obligation[o], reserve), NEW b,
           Carried(obligation[o].borrows, b), TypeOK'
    PROVE  b.cumulative_borrow_rate_wads <= reserve'[b.borrow_reserve].cumulative_borrow_rate_wads
<1>1. PICK s : s = obligation[o].borrows /\ s \in Seq(ObligationLiquidity)
    BY DEF CurvesInv, PositionsInv, TypeOK, ObligationRec
<1>2. PICK i \in 1..Len(s) :
         /\ b.borrow_reserve = s[i].borrow_reserve
         /\ b.cumulative_borrow_rate_wads = s[i].cumulative_borrow_rate_wads
    BY <1>1 DEF Carried
<1>3. PICK r : r = s[i].borrow_reserve
    OBVIOUS
<1>4. s[i] \in ObligationLiquidity
    BY <1>1
<1>5. r \in live /\ r \in Reserves
    <2>1. i \in DOMAIN s
        BY <1>1
    <2>2. r \in BorrowReserves(obligation[o])
        BY <1>1, <1>3, <2>1 DEF BorrowReserves
    <2> QED BY <2>2 DEF CurvesInv, PositionsInv, TypeOK
<1>6. RateKept(r)
    BY <1>5, RatesGrow
<1>7. s[i].cumulative_borrow_rate_wads <= reserve[r].cumulative_borrow_rate_wads
    BY <1>1, <1>3 DEF Behind
<1>8. /\ s[i].cumulative_borrow_rate_wads \in Nat
      /\ reserve[r].cumulative_borrow_rate_wads \in Nat
      /\ reserve'[r].cumulative_borrow_rate_wads \in Nat
    <2>1. reserve[r] \in ReserveRec /\ reserve'[r] \in ReserveRec
        BY <1>5 DEF CurvesInv, PositionsInv, TypeOK
    <2>2. s[i].cumulative_borrow_rate_wads \in Nat
        BY <1>4, WadAssumption DEF ObligationLiquidity, U128
    <2> QED BY <2>1, <2>2, MovesKeepRate
<1> QED BY <1>2, <1>3, <1>6, <1>7, <1>8 DEF RateKept

\* Every instruction keeps the debts behind their reserves.
LEMMA NextDebtRateInv == DebtRateInv /\ [Next]_vars => DebtRateInv'
<1> SUFFICES ASSUME DebtRateInv, [Next]_vars PROVE DebtRateInv'
    OBVIOUS
<1>1. CurvesInv /\ CurvesInv' /\ TypeOK /\ TypeOK'
    BY NextCurvesInv DEF DebtRateInv, CurvesInv, PositionsInv
<1>2. CASE UNCHANGED vars
    BY <1>1, <1>2 DEF vars, DebtRateInv, Behind
<1>3. CASE Next
    <2>1. ASSUME NEW o \in Obligations PROVE Behind(obligation'[o], reserve')
        <3>1. PICK s \in ObligationRec, t \in ObligationRec : s = obligation[o] /\ t = obligation'[o]
            BY <1>1 DEF TypeOK
        <3>2. Behind(s, reserve)
            BY <3>1 DEF DebtRateInv
        <3>3. ASSUME t.borrows = s.borrows PROVE Behind(t, reserve')
            <4>1. \A k \in 1..Len(t.borrows) : Carried(s.borrows, t.borrows[k])
                BY <3>3 DEF Carried
            <4> QED BY <1>1, <1>3, <3>1, <3>2, <4>1, CarriedBehind DEF Behind
        <3>4. ASSUME UNCHANGED obligationVars PROVE Behind(t, reserve')
            BY <3>1, <3>3, <3>4 DEF obligationVars
        <3>5. ASSUME NEW p \in Obligations, InitObligation(p) PROVE Behind(t, reserve')
            <4>1. obligation' = [obligation EXCEPT ![p] = NewObligation]
                BY <3>5 DEF InitObligation
            <4>2. CASE p = o
                <5>1. t = NewObligation /\ NewObligation.borrows = <<>>
                    BY <1>1, <3>1, <4>1, <4>2 DEF TypeOK, NewObligation
                <5> QED BY <5>1 DEF Behind
            <4>3. CASE p # o
                BY <1>1, <3>1, <3>3, <4>1, <4>3 DEF TypeOK
            <4> QED BY <4>2, <4>3
        <3>6. ASSUME NEW p \in Obligations, RefreshObligation(p) PROVE Behind(t, reserve')
            <4>1. /\ PackObligation(p, RefreshedObligation(obligation[p], reserve, config))
                  /\ reserve' = reserve
                BY <3>6 DEF RefreshObligation, reserveVars
            <4>2. CASE p = o
                <5>1. t = RefreshedObligation(s, reserve, config)
                    BY <1>1, <3>1, <4>1, <4>2, Packed
                <5>2. config \in [Reserves -> ReserveConfig]
                    BY <1>1 DEF TypeOK
                <5>3. PICK m : BorrowsRefreshed(s.borrows, t.borrows, reserve, config, m)
                    BY <5>1, <5>2, RefreshedBorrows
                <5>4. ASSUME NEW k \in 1..Len(t.borrows)
                      PROVE  t.borrows[k].cumulative_borrow_rate_wads
                                <= reserve[t.borrows[k].borrow_reserve].cumulative_borrow_rate_wads
                    <6>1. PICK b \in ObligationLiquidity :
                             /\ t.borrows[k].borrow_reserve = b.borrow_reserve
                             /\ t.borrows[k].cumulative_borrow_rate_wads
                                   = AtRate(b, reserve).cumulative_borrow_rate_wads
                        <7>1. m[k] \in 1..Len(s.borrows) /\ s.borrows \in Seq(ObligationLiquidity)
                            BY <5>3 DEF BorrowsRefreshed, ObligationRec
                        <7>2. s.borrows[m[k]] \in ObligationLiquidity
                            BY <7>1
                        <7> QED BY <5>3, <7>2 DEF BorrowsRefreshed
                    <6>2. PICK c : c = reserve[b.borrow_reserve].cumulative_borrow_rate_wads
                        OBVIOUS
                    <6>3. AtRate(b, reserve).cumulative_borrow_rate_wads = c
                        BY <6>2 DEF AtRate, AccrueBorrow, ObligationLiquidity
                    <6>4. c \in Nat
                        <7>1. b.borrow_reserve \in Reserves
                            BY DEF ObligationLiquidity
                        <7>2. reserve[b.borrow_reserve] \in ReserveRec
                            BY <1>1, <7>1 DEF TypeOK
                        <7> QED BY <6>2, <7>2, MovesKeepRate
                    <6> QED BY <6>1, <6>2, <6>3, <6>4
                <5> QED BY <4>1, <5>4 DEF Behind
            <4>3. CASE p # o
                <5>1. t = s
                    BY <1>1, <3>1, <4>1, <4>3, OtherObligations
                <5> QED BY <3>3, <5>1
            <4> QED BY <4>2, <4>3
        <3>7. ASSUME NEW p \in Obligations, NEW r \in Reserves, PositionStep(p, r)
              PROVE  Behind(t, reserve')
            <4>1. CASE p = o
                <5>1. Dated(s.borrows, t.borrows, r, reserve'[r].cumulative_borrow_rate_wads)
                    BY <1>1, <3>1, <3>7, <4>1, PositionStepRates DEF RatesDated
                <5>2. reserve'[r].cumulative_borrow_rate_wads \in Nat
                    <6>1. reserve'[r] \in ReserveRec
                        BY <1>1 DEF TypeOK
                    <6> QED BY <6>1, MovesKeepRate
                <5>3. ASSUME NEW k \in 1..Len(t.borrows)
                      PROVE  t.borrows[k].cumulative_borrow_rate_wads
                                <= reserve'[t.borrows[k].borrow_reserve].cumulative_borrow_rate_wads
                    <6>1. CASE Carried(s.borrows, t.borrows[k])
                        BY <1>1, <1>3, <3>1, <3>2, <6>1, CarriedBehind
                    <6>2. CASE /\ t.borrows[k].borrow_reserve = r
                               /\ t.borrows[k].cumulative_borrow_rate_wads
                                     = reserve'[r].cumulative_borrow_rate_wads
                        BY <5>2, <6>2
                    <6> QED BY <5>1, <6>1, <6>2 DEF Dated
                <5> QED BY <5>3 DEF Behind
            <4>2. CASE p # o
                <5>1. PICK ob : PackObligation(p, ob)
                    BY <3>7, PositionStepWrites DEF WritesPosition
                <5>2. t = s
                    BY <1>1, <3>1, <4>2, <5>1, OtherObligations
                <5> QED BY <3>3, <5>2
            <4> QED BY <4>1, <4>2
        <3> QED BY <1>3, <3>1, <3>4, <3>5, <3>6, <3>7, ObligationsWritten
    <2> QED BY <1>1, <2>1 DEF DebtRateInv
<1> QED BY <1>2, <1>3

\* There are no debts at first.
LEMMA InitDebtRateInv == Init => DebtRateInv
<1>1. Init => \A o \in Obligations : obligation[o] = NewObligation
    BY DEF Init
<1>2. NewObligation.borrows = <<>>
    BY DEF NewObligation
<1> QED BY <1>1, <1>2, InitCurvesInv DEF DebtRateInv, Behind

(***************************************************************************)
(* DebtRateBehindReserve holds in every reachable state, whatever curves,  *)
(* utilizations and numbers of slots the interest is compounded with: the  *)
(* cumulative rate of a reserve never goes down, and an obligation's debt  *)
(* is only ever dated with a rate its reserve has had.  So accrue_interest *)
(* of an obligation never fails with NegativeInterestRate.                 *)
(***************************************************************************)
THEOREM DebtsCanAccrue == Spec => []DebtRateBehindReserve
<1>1. DebtRateInv => DebtRateBehindReserve
    <2>1. ASSUME DebtRateInv, NEW o \in open, NEW i \in DOMAIN obligation[o].borrows
          PROVE  CanAccrue(obligation[o].borrows[i],
                     reserve[obligation[o].borrows[i].borrow_reserve].cumulative_borrow_rate_wads)
        <3>1. o \in Obligations /\ obligation[o] \in ObligationRec /\ Behind(obligation[o], reserve)
              /\ reserve \in [Reserves -> ReserveRec]
            BY <2>1 DEF DebtRateInv, CurvesInv, PositionsInv, TypeOK
        <3>2. PICK s : s = obligation[o].borrows /\ s \in Seq(ObligationLiquidity)
            BY <3>1 DEF ObligationRec
        <3>3. i \in 1..Len(s) /\ s[i] \in ObligationLiquidity
            BY <2>1, <3>2
        <3>4. s[i].borrow_reserve \in Reserves /\ s[i].cumulative_borrow_rate_wads \in Nat
            BY <3>3, WadAssumption DEF ObligationLiquidity, U128
        <3>5. reserve[s[i].borrow_reserve].cumulative_borrow_rate_wads \in Nat
            BY <3>1, <3>4, MovesKeepRate
        <3>6. s[i].cumulative_borrow_rate_wads
                 <= reserve[s[i].borrow_reserve].cumulative_borrow_rate_wads
            BY <3>1, <3>2, <3>3 DEF Behind
        <3> QED BY <3>2, <3>4, <3>5, <3>6 DEF CanAccrue
    <2> QED BY <2>1 DEF DebtRateBehindReserve
<1> QED BY <1>1, InitDebtRateInv, NextDebtRateInv, PTL DEF Spec
=============================================================================
