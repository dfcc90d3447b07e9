---------------------------- MODULE FunctionSums ----------------------------
(***************************************************************************)
(* Sums over finite sets (SumFunctionOnSet of the community modules, a     *)
(* recursive function that takes the elements of a set in the order of a   *)
(* CHOOSE).  Facts by induction are proved from a least counterexample: a  *)
(* set of subsets of a finite set has one that contains no other.          *)
(***************************************************************************)
EXTENDS Integers, FiniteSets, Functions, FiniteSetTheorems, WellFoundedInduction, TLAPS

LEMMA MinimalSet ==
  ASSUME NEW S, IsFiniteSet(S), NEW T, T \subseteq SUBSET S, T # {}
  PROVE  \E x \in T : \A y \in T : y \subseteq x => y = x
<1> DEFINE R == StrictSubsetOrdering(S)
<1>1. T \subseteq FiniteSubsetsOf(S)
  BY FS_Subset DEF FiniteSubsetsOf
<1>2. PICK x \in T : \A y \in T : ~(<<y, x>> \in R)
  <2> HIDE DEF R
  <2> QED  BY <1>1, FS_StrictSubsetOrderingWellFounded, WFMin DEF R
<1>3. ASSUME NEW y \in T, y \subseteq x  PROVE y = x
  BY <1>2, <1>3 DEF StrictSubsetOrdering
<1> QED  BY <1>3

-----------------------------------------------------------------------------
(* The recursion.                                                           *)

\* The element that is taken first.
Taken(s) == CHOOSE x \in s : TRUE

LEMMA TakenIsIn == \A s : s # {} => Taken(s) \in s
BY DEF Taken

\* g holds the sums of f over the subsets of S.
SumsOf(g, f, S) ==
  g = [s \in SUBSET S |-> IF s = {} THEN 0 ELSE f[Taken(s)] + g[s \ {Taken(s)}]]

LEMMA SumIsChosen ==
  ASSUME NEW f, NEW S
  PROVE  SumFunctionOnSet(f, S) = (CHOOSE g : SumsOf(g, f, S))[S]
BY Zenon DEF SumFunctionOnSet, FoldFunctionOnSet, MapThenFoldSet, SumsOf, Taken

\* Two such functions agree where both are defined.
LEMMA SumsAgree ==
  ASSUME NEW f, NEW S, NEW T, NEW g, NEW h, SumsOf(g, f, S), SumsOf(h, f, T),
         NEW U, IsFiniteSet(U), U \subseteq S, U \subseteq T
  PROVE  g[U] = h[U]
<1> DEFINE Bad == {s \in SUBSET U : g[s] # h[s]}
<1>1. SUFFICES ASSUME Bad # {}  PROVE FALSE
  OBVIOUS
<1>2. PICK x \in Bad : \A y \in Bad : y \subseteq x => y = x
  <2> HIDE DEF Bad
  <2>1. Bad \subseteq SUBSET U
    BY DEF Bad
  <2> QED  BY <1>1, <2>1, MinimalSet
<1>3. x \in SUBSET S /\ x \in SUBSET T /\ x # {}
  <2>1. g[{}] = 0 /\ h[{}] = 0
    BY DEF SumsOf
  <2> QED  BY <2>1
<1>4. Taken(x) \in x
  BY <1>3, TakenIsIn
<1>5. g[x] = f[Taken(x)] + g[x \ {Taken(x)}] /\ h[x] = f[Taken(x)] + h[x \ {Taken(x)}]
  BY <1>3 DEF SumsOf
<1>6. g[x \ {Taken(x)}] = h[x \ {Taken(x)}]
  BY <1>2, <1>4
<1> QED  BY <1>5, <1>6

LEMMA SumsExist ==
  ASSUME NEW f, NEW S, IsFiniteSet(S)
  PROVE  SumsOf(CHOOSE g : SumsOf(g, f, S), f, S)
<1> DEFINE G(U) == CHOOSE g : SumsOf(g, f, U)
           Bad == {U \in SUBSET S : ~SumsOf(G(U), f, U)}
<1>1. SUFFICES ASSUME Bad # {}  PROVE FALSE
  OBVIOUS
<1>2. PICK U \in Bad : \A y \in Bad : y \subseteq U => y = U
  <2> HIDE DEF Bad
  <2>1. Bad \subseteq SUBSET S
    BY DEF Bad
  <2> QED  BY <1>1, <2>1, MinimalSet
<1>3. \A V \in SUBSET U : IsFiniteSet(V) /\ (V # U => SumsOf(G(V), f, V))
  BY <1>2, FS_Subset
<1> DEFINE next(s) == s \ {Taken(s)}
           g == [s \in SUBSET U |-> IF s = {} THEN 0 ELSE f[Taken(s)] + G(next(s))[next(s)]]
<1>4. ASSUME NEW V \in SUBSET U, V # U  PROVE g[V] = G(V)[V]
  <2> HIDE DEF G
  <2>1. SumsOf(G(V), f, V)
    BY <1>3, <1>4
  <2>2. CASE V = {}
    BY <2>1, <2>2 DEF SumsOf
  <2>3. CASE V # {}
    <3>1. Taken(V) \in V /\ next(V) \subseteq V /\ next(V) # U
      BY <2>3, TakenIsIn
    <3>2. G(V)[V] = f[Taken(V)] + G(V)[next(V)]
      BY <2>1, <2>3 DEF SumsOf
    <3>3. g[V] = f[Taken(V)] + G(next(V))[next(V)]
      BY <2>3
    <3>4. SumsOf(G(next(V)), f, next(V)) /\ IsFiniteSet(next(V))
      BY <1>3, <3>1
    <3>5. G(next(V))[next(V)] = G(V)[next(V)]
      BY <2>1, <3>1, <3>4, SumsAgree
    <3> QED  BY <3>2, <3>3, <3>5
  <2> QED  BY <2>2, <2>3
<1>5. SumsOf(g, f, U)
  <2> HIDE DEF G
  <2>1. \A s \in SUBSET U : s # {} => next(s) \in SUBSET U /\ next(s) # U
    BY TakenIsIn
  <2>2. \A s \in SUBSET U : s # {} => g[s] = f[Taken(s)] + g[next(s)]
    BY <1>4, <2>1
  <2>3. g[{}] = 0
    OBVIOUS
  <2> HIDE DEF g
  <2>4. g = [s \in SUBSET U |-> g[s]]
    BY DEF g
  <2> QED  BY <2>2, <2>3, <2>4 DEF SumsOf
<1>6. SumsOf(G(U), f, U)
  BY <1>5
<1> QED  BY <1>2, <1>6

LEMMA SumEmpty == \A f : SumFunctionOnSet(f, {}) = 0
<1> SUFFICES ASSUME NEW f  PROVE SumFunctionOnSet(f, {}) = 0
  OBVIOUS
<1> DEFINE g == CHOOSE g : SumsOf(g, f, {})
<1>1. SumsOf(g, f, {})
  BY SumsExist, FS_EmptySet
<1>2. SumFunctionOnSet(f, {}) = g[{}]
  BY SumIsChosen
<1> HIDE DEF g
<1> QED  BY <1>1, <1>2 DEF SumsOf

LEMMA SumTaken ==
  ASSUME NEW f, NEW S, IsFiniteSet(S), S # {}
  PROVE  SumFunctionOnSet(f, S) = f[Taken(S)] + SumFunctionOnSet(f, S \ {Taken(S)})
<1> DEFINE R == S \ {Taken(S)}
           g == CHOOSE g : SumsOf(g, f, S)
           h == CHOOSE h : SumsOf(h, f, R)
<1>1. IsFiniteSet(R) /\ R \subseteq S
  BY FS_Subset
<1>2. SumsOf(g, f, S) /\ SumsOf(h, f, R)
  <2> HIDE DEF R
  <2> QED  BY <1>1, SumsExist
<1>3. SumFunctionOnSet(f, S) = g[S] /\ SumFunctionOnSet(f, R) = h[R]
  <2> HIDE DEF R
  <2> QED  BY SumIsChosen
<1> HIDE DEF g, h
<1>4. g[S] = f[Taken(S)] + g[R]
  BY <1>2 DEF SumsOf
<1>5. g[R] = h[R]
  <2> HIDE DEF R
  <2> QED  BY <1>1, <1>2, SumsAgree
<1> QED  BY <1>3, <1>4, <1>5

-----------------------------------------------------------------------------
(* What a sum is, whatever the order.                                       *)

\* Sums of natural numbers are natural numbers.
LEMMA SumIsNat ==
  ASSUME NEW S, IsFiniteSet(S), NEW f, \A x \in S : f[x] \in Nat
  PROVE  SumFunctionOnSet(f, S) \in Nat
<1>z. SumFunctionOnSet(f, {}) \in Nat
  BY SumEmpty
<1> DEFINE Bad == {s \in SUBSET S : SumFunctionOnSet(f, s) \notin Nat}
<1>1. SUFFICES ASSUME Bad # {}  PROVE FALSE
  OBVIOUS
<1>2. PICK s \in Bad : \A y \in Bad : y \subseteq s => y = s
  <2> HIDE DEF Bad
  <2>1. Bad \subseteq SUBSET S
    BY DEF Bad
  <2> QED  BY <1>1, <2>1, MinimalSet
<1>3. s # {} /\ IsFiniteSet(s)
  BY <1>z, FS_Subset
<1>4. Taken(s) \in s
  BY <1>3, TakenIsIn
<1>5. SumFunctionOnSet(f, s \ {Taken(s)}) \in Nat
  BY <1>2, <1>4
<1>6. f[Taken(s)] \in Nat
  BY <1>4
<1> QED  BY <1>3, <1>5, <1>6, SumTaken

LEMMA SumIsInt ==
  ASSUME NEW S, IsFiniteSet(S), NEW f, \A x \in S : f[x] \in Int
  PROVE  SumFunctionOnSet(f, S) \in Int
<1>z. SumFunctionOnSet(f, {}) \in Int
  BY SumEmpty
<1> DEFINE Bad == {s \in SUBSET S : SumFunctionOnSet(f, s) \notin Int}
<1>1. SUFFICES ASSUME Bad # {}  PROVE FALSE
  OBVIOUS
<1>2. PICK s \in Bad : \A y \in Bad : y \subseteq s => y = s
  <2> HIDE DEF Bad
  <2>1. Bad \subseteq SUBSET S
    BY DEF Bad
  <2> QED  BY <1>1, <2>1, MinimalSet
<1>3. s # {} /\ IsFiniteSet(s)
  BY <1>z, FS_Subset
<1>4. Taken(s) \in s
  BY <1>3, TakenIsIn
<1>5. SumFunctionOnSet(f, s \ {Taken(s)}) \in Int
  BY <1>2, <1>4
<1>6. f[Taken(s)] \in Int
  BY <1>4
<1> QED  BY <1>3, <1>5, <1>6, SumTaken

\* Any element may be taken first.
LEMMA SumRemove ==
  ASSUME NEW S, IsFiniteSet(S), NEW f, \A y \in S : f[y] \in Int, NEW x \in S
  PROVE  SumFunctionOnSet(f, S) = f[x] + SumFunctionOnSet(f, S \ {x})
<1> DEFINE Bad == {s \in SUBSET S : \E e \in s :
                     SumFunctionOnSet(f, s) # f[e] + SumFunctionOnSet(f, s \ {e})}
<1>1. SUFFICES ASSUME Bad # {}  PROVE FALSE
  OBVIOUS
<1>2. PICK s \in Bad : \A w \in Bad : w \subseteq s => w = s
  <2> HIDE DEF Bad
  <2>1. Bad \subseteq SUBSET S
    BY DEF Bad
  <2> QED  BY <1>1, <2>1, MinimalSet
<1>3. PICK e \in s : SumFunctionOnSet(f, s) # f[e] + SumFunctionOnSet(f, s \ {e})
  BY <1>2
<1>4. \A y \in SUBSET s : IsFiniteSet(y)
  BY FS_Subset
<1> DEFINE t == Taken(s)
<1>5. t \in s /\ SumFunctionOnSet(f, s) = f[t] + SumFunctionOnSet(f, s \ {t})
  BY <1>3, <1>4, TakenIsIn, SumTaken
<1> HIDE DEF t
<1>6. t # e
  BY <1>3, <1>5
<1>7. SumFunctionOnSet(f, s \ {t}) = f[e] + SumFunctionOnSet(f, (s \ {t}) \ {e})
  BY <1>2, <1>5, <1>6
<1>8. SumFunctionOnSet(f, s \ {e}) = f[t] + SumFunctionOnSet(f, (s \ {e}) \ {t})
  BY <1>2, <1>3, <1>5, <1>6
<1>9. (s \ {e}) \ {t} = (s \ {t}) \ {e}
  OBVIOUS
<1>10. /\ f[e] \in Int /\ f[t] \in Int
       /\ SumFunctionOnSet(f, (s \ {t}) \ {e}) \in Int
  <2>1. (s \ {t}) \ {e} \in SUBSET s /\ \A y \in (s \ {t}) \ {e} : f[y] \in Int
    OBVIOUS
  <2>2. SumFunctionOnSet(f, (s \ {t}) \ {e}) \in Int
    BY <1>4, <2>1, SumIsInt
  <2> QED  BY <1>5, <2>2
<1> DEFINE rest == SumFunctionOnSet(f, (s \ {t}) \ {e})
<1>11. /\ SumFunctionOnSet(f, s) = f[t] + (f[e] + rest)
       /\ f[e] + SumFunctionOnSet(f, s \ {e}) = f[e] + (f[t] + rest)
  BY <1>5, <1>7, <1>8, <1>9
<1>12. rest \in Int
  BY <1>10
<1> HIDE DEF rest
<1>13. f[t] + (f[e] + rest) = f[e] + (f[t] + rest)
  BY <1>10, <1>12
<1> QED  BY <1>3, <1>11, <1>13

\* Only the values on the set count.
LEMMA SumSame ==
  ASSUME NEW S, IsFiniteSet(S), NEW f, NEW g, \A x \in S : f[x] = g[x]
  PROVE  SumFunctionOnSet(f, S) = SumFunctionOnSet(g, S)
<1> DEFINE Bad == {s \in SUBSET S : SumFunctionOnSet(f, s) # SumFunctionOnSet(g, s)}
<1>1. SUFFICES ASSUME Bad # {}  PROVE FALSE
  OBVIOUS
<1>2. PICK s \in Bad : \A y \in Bad : y \subseteq s => y = s
  <2> HIDE DEF Bad
  <2>1. Bad \subseteq SUBSET S
    BY DEF Bad
  <2> QED  BY <1>1, <2>1, MinimalSet
<1>3. s # {} /\ IsFiniteSet(s)
  BY SumEmpty, FS_Subset
<1>4. Taken(s) \in s
  BY <1>3, TakenIsIn
<1>5. SumFunctionOnSet(f, s \ {Taken(s)}) = SumFunctionOnSet(g, s \ {Taken(s)})
  BY <1>2, <1>4
<1>6. f[Taken(s)] = g[Taken(s)]
  BY <1>4
<1>7. /\ SumFunctionOnSet(f, s) = f[Taken(s)] + SumFunctionOnSet(f, s \ {Taken(s)})
      /\ SumFunctionOnSet(g, s) = g[Taken(s)] + SumFunctionOnSet(g, s \ {Taken(s)})
  BY <1>3, SumTaken
<1> QED  BY <1>5, <1>6, <1>7

\* A sum of zeros.
LEMMA SumOfZeros ==
  ASSUME NEW S, IsFiniteSet(S), NEW f, \A x \in S : f[x] = 0
  PROVE  SumFunctionOnSet(f, S) = 0
<1> DEFINE Bad == {s \in SUBSET S : SumFunctionOnSet(f, s) # 0}
<1>1. SUFFICES ASSUME Bad # {}  PROVE FALSE
  OBVIOUS
<1>2. PICK s \in Bad : \A y \in Bad : y \subseteq s => y = s
  <2> HIDE DEF Bad
  <2>1. Bad \subseteq SUBSET S
    BY DEF Bad
  <2> QED  BY <1>1, <2>1, MinimalSet
<1>3. s # {} /\ IsFiniteSet(s)
  BY SumEmpty, FS_Subset
<1>4. Taken(s) \in s
  BY <1>3, TakenIsIn
<1>5. SumFunctionOnSet(f, s \ {Taken(s)}) = 0 /\ f[Taken(s)] = 0
  BY <1>2, <1>4
<1> QED  BY <1>3, <1>5, SumTaken

\* One value changes, and the sum by as much.
LEMMA SumUpdate ==
  ASSUME NEW S, IsFiniteSet(S), NEW f, NEW g, NEW x \in S,
         \A y \in S : f[y] \in Int /\ g[y] \in Int,
         \A y \in S \ {x} : g[y] = f[y]
  PROVE  SumFunctionOnSet(g, S) = SumFunctionOnSet(f, S) + g[x] - f[x]
<1>1. IsFiniteSet(S \ {x})
  BY FS_Subset
<1>2. SumFunctionOnSet(f, S) = f[x] + SumFunctionOnSet(f, S \ {x})
  BY SumRemove
<1>3. SumFunctionOnSet(g, S) = g[x] + SumFunctionOnSet(g, S \ {x})
  BY SumRemove
<1>4. SumFunctionOnSet(f, S \ {x}) = SumFunctionOnSet(g, S \ {x})
  BY <1>1, SumSame
<1>5. SumFunctionOnSet(f, S \ {x}) \in Int
  BY <1>1, SumIsInt
<1> QED  BY <1>2, <1>3, <1>4, <1>5

\* The sum over two parts of a set.
LEMMA SumSplit ==
  ASSUME NEW S, IsFiniteSet(S), NEW f, \A x \in S : f[x] \in Int, NEW A \in SUBSET S
  PROVE  SumFunctionOnSet(f, S) = SumFunctionOnSet(f, A) + SumFunctionOnSet(f, S \ A)
<1> DEFINE Bad == {s \in SUBSET S : SumFunctionOnSet(f, s) #
                     SumFunctionOnSet(f, s \cap A) + SumFunctionOnSet(f, s \ A)}
<1>1. SUFFICES ASSUME Bad # {}  PROVE FALSE
  <2>1. S \cap A = A
    OBVIOUS
  <2> QED  BY <2>1
<1>2. PICK s \in Bad : \A y \in Bad : y \subseteq s => y = s
  <2> HIDE DEF Bad
  <2>1. Bad \subseteq SUBSET S
    BY DEF Bad
  <2> QED  BY <1>1, <2>1, MinimalSet
<1>3. \A y \in SUBSET s : IsFiniteSet(y) /\ SumFunctionOnSet(f, y) \in Int
  <2> TAKE y \in SUBSET s
  <2>1. IsFiniteSet(y) /\ \A x \in y : f[x] \in Int
    BY FS_Subset
  <2> QED  BY <2>1, SumIsInt
<1>4. s # {}
  <2>1. {} \cap A = {} /\ {} \ A = {}
    OBVIOUS
  <2> QED  BY <2>1, SumEmpty
<1>5. PICK e \in s : TRUE
  BY <1>4
<1> DEFINE r == s \ {e}
<1>6. SumFunctionOnSet(f, r) = SumFunctionOnSet(f, r \cap A) + SumFunctionOnSet(f, r \ A)
  BY <1>2, <1>5
<1>7. SumFunctionOnSet(f, s) = f[e] + SumFunctionOnSet(f, r)
  BY <1>3, SumRemove
<1> DEFINE in  == SumFunctionOnSet(f, r \cap A)
           out == SumFunctionOnSet(f, r \ A)
<1>a. in \in Int /\ out \in Int /\ f[e] \in Int
  <2>1. r \cap A \in SUBSET s /\ r \ A \in SUBSET s
    OBVIOUS
  <2> QED  BY <1>3, <2>1
<1>8. CASE e \in A
  <2>1. s \ A = r \ A /\ (s \cap A) \ {e} = r \cap A /\ s \cap A \in SUBSET s /\ e \in s \cap A
    BY <1>8
  <2>2. SumFunctionOnSet(f, s \cap A) = f[e] + SumFunctionOnSet(f, (s \cap A) \ {e})
    BY <1>3, <2>1, SumRemove
  <2>3. SumFunctionOnSet(f, s) = f[e] + (in + out)
    BY <1>6, <1>7
  <2>4. SumFunctionOnSet(f, s \cap A) + SumFunctionOnSet(f, s \ A) = (f[e] + in) + out
    BY <2>1, <2>2
  <2> HIDE DEF in, out
  <2>5. f[e] + (in + out) = (f[e] + in) + out
    BY <1>a
  <2> QED  BY <1>2, <2>3, <2>4, <2>5
<1>9. CASE e \notin A
  <2>1. s \cap A = r \cap A /\ (s \ A) \ {e} = r \ A /\ s \ A \in SUBSET s /\ e \in s \ A
    BY <1>9
  <2>2. SumFunctionOnSet(f, s \ A) = f[e] + SumFunctionOnSet(f, (s \ A) \ {e})
    BY <1>3, <2>1, SumRemove
  <2>3. SumFunctionOnSet(f, s) = f[e] + (in + out)
    BY <1>6, <1>7
  <2>4. SumFunctionOnSet(f, s \cap A) + SumFunctionOnSet(f, s \ A) = in + (f[e] + out)
    BY <2>1, <2>2
  <2> HIDE DEF in, out
  <2>5. f[e] + (in + out) = in + (f[e] + out)
    BY <1>a
  <2> QED  BY <1>2, <2>3, <2>4, <2>5
<1> QED  BY <1>8, <1>9

\* Larger values have a sum that is no smaller.
LEMMA SumNoLess ==
  ASSUME NEW S, IsFiniteSet(S), NEW f, NEW g,
         \A x \in S : f[x] \in Int /\ g[x] \in Int /\ f[x] <= g[x]
  PROVE  SumFunctionOnSet(f, S) <= SumFunctionOnSet(g, S)
<1> DEFINE Bad == {s \in SUBSET S : ~(SumFunctionOnSet(f, s) <= SumFunctionOnSet(g, s))}
<1>1. SUFFICES ASSUME Bad # {}  PROVE FALSE
  OBVIOUS
<1>2. PICK s \in Bad : \A y \in Bad : y \subseteq s => y = s
  <2> HIDE DEF Bad
  <2>1. Bad \subseteq SUBSET S
    BY DEF Bad
  <2> QED  BY <1>1, <2>1, MinimalSet
<1>3. s # {} /\ IsFiniteSet(s)
  <2>1. SumFunctionOnSet(f, {}) = 0 /\ SumFunctionOnSet(g, {}) = 0 /\ 0 <= 0
    BY SumEmpty
  <2>2. ~(SumFunctionOnSet(f, s) <= SumFunctionOnSet(g, s))
    OBVIOUS
  <2>3. s # {}
    <3> HIDE DEF Bad
    <3> QED  BY <2>1, <2>2
  <2> QED  BY <2>3, FS_Subset
<1> DEFINE e == Taken(s)
           r == s \ {e}
<1>4. e \in s /\ r \subseteq S /\ IsFiniteSet(r)
  BY <1>3, TakenIsIn, FS_Subset
<1>5. SumFunctionOnSet(f, r) <= SumFunctionOnSet(g, r)
  BY <1>2, <1>4
<1>6. /\ SumFunctionOnSet(f, s) = f[e] + SumFunctionOnSet(f, r)
      /\ SumFunctionOnSet(g, s) = g[e] + SumFunctionOnSet(g, r)
  BY <1>3, SumTaken
<1>7. SumFunctionOnSet(f, r) \in Int /\ SumFunctionOnSet(g, r) \in Int
  BY <1>4, SumIsInt
<1>8. f[e] \in Int /\ g[e] \in Int /\ f[e] <= g[e]
  BY <1>4
<1>9. ~(SumFunctionOnSet(f, s) <= SumFunctionOnSet(g, s))
  OBVIOUS
<1> HIDE DEF e, r, Bad
<1> QED  BY <1>5, <1>6, <1>7, <1>8, <1>9

\* Nor does a sum get smaller with more to add up.
LEMMA SumGrows ==
  ASSUME NEW T, IsFiniteSet(T), NEW S \in SUBSET T, NEW f, NEW g,
         \A x \in S : f[x] \in Int /\ f[x] <= g[x], \A x \in T : g[x] \in Nat
  PROVE  SumFunctionOnSet(f, S) <= SumFunctionOnSet(g, T)
<1>1. IsFiniteSet(S) /\ IsFiniteSet(T \ S)
  BY FS_Subset
<1>2. SumFunctionOnSet(f, S) <= SumFunctionOnSet(g, S)
  <2>1. \A x \in S : f[x] \in Int /\ g[x] \in Int /\ f[x] <= g[x]
    OBVIOUS
  <2> QED  BY <1>1, <2>1, SumNoLess
<1>3. SumFunctionOnSet(g, T) = SumFunctionOnSet(g, S) + SumFunctionOnSet(g, T \ S)
  BY SumSplit
<1>4. SumFunctionOnSet(g, T \ S) \in Nat
  <2>1. \A x \in T \ S : g[x] \in Nat
    OBVIOUS
  <2> QED  BY <1>1, <2>1, SumIsNat
<1>5. SumFunctionOnSet(f, S) \in Int /\ SumFunctionOnSet(g, S) \in Int
  <2>1. \A x \in S : f[x] \in Int /\ g[x] \in Int
    OBVIOUS
  <2> QED  BY <1>1, <2>1, SumIsInt
<1> QED  BY <1>2, <1>3, <1>4, <1>5

\* The sums over the parts of a set, each element being in the part c names.
LEMMA SumOfParts ==
  ASSUME NEW S, IsFiniteSet(S), NEW K, IsFiniteSet(K), NEW f, NEW c,
         \A x \in S : f[x] \in Int /\ c[x] \in K
  PROVE  SumFunctionOnSet([k \in K |-> SumFunctionOnSet(f, {x \in S : c[x] = k})], K)
           = SumFunctionOnSet(f, S)
<1> DEFINE Parts(s) == [k \in K |-> SumFunctionOnSet(f, {x \in s : c[x] = k})]
           Bad == {s \in SUBSET S : SumFunctionOnSet(Parts(s), K) # SumFunctionOnSet(f, s)}
<1>1. SUFFICES ASSUME Bad # {}  PROVE FALSE
  OBVIOUS
<1>2. PICK s \in Bad : \A y \in Bad : y \subseteq s => y = s
  <2> HIDE DEF Bad
  <2>1. Bad \subseteq SUBSET S
    BY DEF Bad
  <2> QED  BY <1>1, <2>1, MinimalSet
<1>3. s \in SUBSET S /\ SumFunctionOnSet(Parts(s), K) # SumFunctionOnSet(f, s)
  OBVIOUS
<1>4. \A r \in SUBSET s : r = s \/ SumFunctionOnSet(Parts(r), K) = SumFunctionOnSet(f, r)
  BY <1>2
<1> HIDE DEF Bad
<1>5. s # {}
  <2> SUFFICES ASSUME s = {}  PROVE FALSE
    OBVIOUS
  <2>1. \A k \in K : Parts(s)[k] = 0
    <3> TAKE k \in K
    <3>1. {x \in s : c[x] = k} = {}
      OBVIOUS
    <3> QED  BY <3>1, SumEmpty
  <2> HIDE DEF Parts
  <2>2. SumFunctionOnSet(Parts(s), K) = 0
    BY <2>1, SumOfZeros
  <2> QED  BY <1>3, <2>2, SumEmpty
<1>6. PICK e \in s : TRUE
  BY <1>5
<1>7. PICK r : r = s \ {e}
  OBVIOUS
<1>8. IsFiniteSet(s) /\ r \in SUBSET s /\ r # s /\ c[e] \in K /\ \A x \in s : f[x] \in Int
  BY <1>3, <1>6, <1>7, FS_Subset
<1>9. \A k \in K : Parts(s)[k] \in Int /\ Parts(r)[k] \in Int
  <2> TAKE k \in K
  <2>1. {x \in s : c[x] = k} \in SUBSET s /\ {x \in r : c[x] = k} \in SUBSET s
    BY <1>8
  <2>2. \A y \in SUBSET s : SumFunctionOnSet(f, y) \in Int
    <3> TAKE y \in SUBSET s
    <3>1. IsFiniteSet(y) /\ \A x \in y : f[x] \in Int
      BY <1>8, FS_Subset
    <3> QED  BY <3>1, SumIsInt
  <2> QED  BY <2>1, <2>2
<1>10. \A k \in K \ {c[e]} : Parts(s)[k] = Parts(r)[k]
  <2> TAKE k \in K \ {c[e]}
  <2>1. {x \in s : c[x] = k} = {x \in r : c[x] = k}
    BY <1>7
  <2> QED  BY <2>1
<1>11. Parts(s)[c[e]] = f[e] + Parts(r)[c[e]]
  <2> DEFINE mine == {x \in s : c[x] = c[e]}
  <2>1. e \in mine /\ mine \ {e} = {x \in r : c[x] = c[e]} /\ mine \in SUBSET s
    BY <1>6, <1>7
  <2>2. IsFiniteSet(mine) /\ \A x \in mine : f[x] \in Int
    BY <1>8, FS_Subset
  <2>3. Parts(s)[c[e]] = SumFunctionOnSet(f, mine)
    BY <1>8
  <2>4. Parts(r)[c[e]] = SumFunctionOnSet(f, mine \ {e})
    BY <1>8, <2>1
  <2> HIDE DEF mine, Parts
  <2>5. SumFunctionOnSet(f, mine) = f[e] + SumFunctionOnSet(f, mine \ {e})
    BY <2>1, <2>2, SumRemove
  <2> QED  BY <2>3, <2>4, <2>5
<1>12. PICK p : p = Parts(s)
  OBVIOUS
<1>13. PICK q : q = Parts(r)
  OBVIOUS
<1> HIDE DEF Parts
<1>14. SumFunctionOnSet(p, K) = SumFunctionOnSet(q, K) + p[c[e]] - q[c[e]]
  BY <1>8, <1>9, <1>10, <1>12, <1>13, SumUpdate
<1>15. SumFunctionOnSet(q, K) = SumFunctionOnSet(f, r)
  BY <1>4, <1>8, <1>13
<1>16. SumFunctionOnSet(f, s) = f[e] + SumFunctionOnSet(f, r)
  BY <1>6, <1>7, <1>8, SumRemove
<1>17. /\ SumFunctionOnSet(f, r) \in Int /\ f[e] \in Int
       /\ p[c[e]] \in Int /\ q[c[e]] \in Int /\ p[c[e]] = f[e] + q[c[e]]
  <2>1. IsFiniteSet(r) /\ \A x \in r : f[x] \in Int
    BY <1>8, FS_Subset
  <2> QED  BY <1>6, <1>8, <1>9, <1>11, <1>12, <1>13, <2>1, SumIsInt
<1> QED  BY <1>3, <1>12, <1>14, <1>15, <1>16, <1>17

\* The sum of differences.
LEMMA SumDifference ==
  ASSUME NEW S, IsFiniteSet(S), NEW f, NEW g, NEW h,
         \A x \in S : f[x] \in Int /\ g[x] \in Int /\ h[x] = f[x] - g[x]
  PROVE  SumFunctionOnSet(h, S) = SumFunctionOnSet(f, S) - SumFunctionOnSet(g, S)
<1> DEFINE Bad == {s \in SUBSET S :
                     SumFunctionOnSet(h, s) # SumFunctionOnSet(f, s) - SumFunctionOnSet(g, s)}
<1>1. SUFFICES ASSUME Bad # {}  PROVE FALSE
  OBVIOUS
<1>2. PICK s \in Bad : \A y \in Bad : y \subseteq s => y = s
  <2> HIDE DEF Bad
  <2>1. Bad \subseteq SUBSET S
    BY DEF Bad
  <2> QED  BY <1>1, <2>1, MinimalSet
<1>3. SumFunctionOnSet(h, s) # SumFunctionOnSet(f, s) - SumFunctionOnSet(g, s)
  OBVIOUS
<1>4. s # {} /\ IsFiniteSet(s)
  <2>1. /\ SumFunctionOnSet(f, {}) = 0 /\ SumFunctionOnSet(g, {}) = 0
        /\ SumFunctionOnSet(h, {}) = 0 /\ 0 = 0 - 0
    BY SumEmpty
  <2>2. s # {}
    <3> HIDE DEF Bad
    <3> QED  BY <1>3, <2>1
  <2> QED  BY <2>2, FS_Subset
<1> DEFINE e == Taken(s)
           r == s \ {e}
<1>5. e \in s /\ r \subseteq S /\ IsFiniteSet(r)
  BY <1>4, TakenIsIn, FS_Subset
<1>6. SumFunctionOnSet(h, r) = SumFunctionOnSet(f, r) - SumFunctionOnSet(g, r)
  BY <1>2, <1>5
<1>7. /\ SumFunctionOnSet(f, s) = f[e] + SumFunctionOnSet(f, r)
      /\ SumFunctionOnSet(g, s) = g[e] + SumFunctionOnSet(g, r)
      /\ SumFunctionOnSet(h, s) = h[e] + SumFunctionOnSet(h, r)
  BY <1>4, SumTaken
<1>8. SumFunctionOnSet(f, r) \in Int /\ SumFunctionOnSet(g, r) \in Int
  BY <1>5, SumIsInt
<1>9. f[e] \in Int /\ g[e] \in Int /\ h[e] = f[e] - g[e]
  BY <1>5
<1> HIDE DEF e, r, Bad
<1> QED  BY <1>3, <1>6, <1>7, <1>8, <1>9

\* What a part and what the rest add up to, as functions of their own.
LEMMA SumCut ==
  ASSUME NEW S, IsFiniteSet(S), NEW f, \A x \in S : f[x] \in Int, NEW A \in SUBSET S,
         NEW F, NEW G, DOMAIN F = A, \A x \in A : F[x] = f[x],
         DOMAIN G = S \ A, \A x \in S \ A : G[x] = f[x]
  PROVE  SumFunction(F) + SumFunction(G) = SumFunctionOnSet(f, S)
<1>2. IsFiniteSet(A) /\ IsFiniteSet(S \ A)
  BY FS_Subset
<1>3. SumFunctionOnSet(F, A) = SumFunctionOnSet(f, A)
  BY <1>2, SumSame
<1>4. SumFunctionOnSet(G, S \ A) = SumFunctionOnSet(f, S \ A)
  BY <1>2, SumSame
<1>5. SumFunctionOnSet(f, S) = SumFunctionOnSet(f, A) + SumFunctionOnSet(f, S \ A)
  BY SumSplit
<1> QED  BY <1>3, <1>4, <1>5 DEF SumFunction

\* A set of numbers has a least one.
LEMMA LeastOne ==
  ASSUME NEW S, S \subseteq Nat, S # {}
  PROVE  \E d \in S : \A e \in S : d <= e
<1>1. S \subseteq Nat
  OBVIOUS
<1>2. PICK last \in S : TRUE
  OBVIOUS
<1> DEFINE T == {0..d : d \in {e \in S : e <= last}}
<1>3. T \subseteq SUBSET (0..last) /\ T # {} /\ IsFiniteSet(0..last)
  <2>1. last \in Nat /\ last <= last
    BY <1>1, <1>2
  <2>2. 0..last \in T
    BY <2>1
  <2>3. \A t \in T : t \subseteq 0..last
    BY <1>1, <2>1
  <2>4. IsFiniteSet(0..last)
    BY <2>1, FS_Interval
  <2> HIDE DEF T
  <2> QED  BY <2>2, <2>3, <2>4
<1> DEFINE Upto == 0..last
<1>4. PICK x \in T : \A y \in T : y \subseteq x => y = x
  <2> HIDE DEF T, Upto
  <2>1. T \subseteq SUBSET Upto /\ T # {} /\ IsFiniteSet(Upto)
    BY <1>3 DEF Upto
  <2> QED  BY <2>1, MinimalSet
<1>5. PICK d \in S : d <= last /\ x = 0..d
  BY <1>4
<1>6. ASSUME NEW e \in S, e < d  PROVE FALSE
  <2>1. e \in Nat /\ d \in Nat /\ last \in Nat
    BY <1>1, <1>2, <1>5
  <2>2. 0..e \in T
    BY <1>5, <1>6, <2>1
  <2>3. 0..e \subseteq 0..d /\ d \in 0..d /\ d \notin 0..e
    BY <1>6, <2>1
  <2> HIDE DEF T
  <2> QED  BY <1>4, <1>5, <2>2, <2>3
<1>7. \A e \in S : d <= e
  BY <1>1, <1>5, <1>6
<1> QED  BY <1>7

\* A finite set of numbers has a greatest one.
LEMMA Greatest ==
  ASSUME NEW S, IsFiniteSet(S), \A x \in S : x \in Nat
  PROVE  S # {} => \E x \in S : \A y \in S : x >= y
<1> DEFINE Tops(s) == {x \in s : \A y \in s : x >= y}
           Bad == {s \in SUBSET S : s # {} /\ Tops(s) = {}}
<1>1. SUFFICES ASSUME Bad # {}  PROVE FALSE
  OBVIOUS
<1>2. PICK s \in Bad : \A y \in Bad : y \subseteq s => y = s
  <2> HIDE DEF Bad
  <2>1. Bad \subseteq SUBSET S
    BY DEF Bad
  <2> QED  BY <1>1, <2>1, MinimalSet
<1>3. PICK e \in s : TRUE
  OBVIOUS
<1>4. \A y \in s : y \in Nat
  OBVIOUS
<1> DEFINE r == s \ {e}
<1>5. CASE r = {}
  <2>1. e \in Nat /\ \A y \in s : y = e
    BY <1>3, <1>4, <1>5
  <2>2. e \in Tops(s)
    BY <1>3, <2>1
  <2> QED  BY <2>2
<1>6. CASE r # {}
  <2>1. PICK g \in r : \A y \in r : g >= y
    <3>1. r \notin Bad
      <4>1. r \subseteq s /\ r # s
        BY <1>3
      <4> HIDE DEF Bad, r
      <4> QED  BY <1>2, <4>1
    <3>2. r \subseteq S
      OBVIOUS
    <3>3. Tops(r) # {}
      BY <1>6, <3>1, <3>2
    <3> QED  BY <3>3
  <2>2. e \in Nat /\ g \in Nat
    BY <1>4
  <2>3. CASE g >= e
    <3>1. g \in Tops(s)
      BY <2>1, <2>3
    <3> QED  BY <3>1
  <2>4. CASE e >= g
    <3>1. \A y \in s : e >= y
      <4> SUFFICES ASSUME NEW y \in s, y # e  PROVE e >= y
        BY <2>2
      <4>1. y \in Nat /\ g >= y
        BY <1>4, <2>1
      <4> QED  BY <2>2, <2>4, <4>1
    <3>2. e \in Tops(s)
      BY <3>1
    <3> QED  BY <3>2
  <2> QED  BY <2>2, <2>3, <2>4
<1> QED  BY <1>5, <1>6
=============================================================================
