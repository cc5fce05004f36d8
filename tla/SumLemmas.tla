------------------------------ MODULE SumLemmas ------------------------------
(* The sums of the models, of what a function has at the members of a      *)
(* finite set, which the community modules define as a recursive function  *)
(* that takes the members in the order CHOOSE picks them.                  *)
(*                                                                         *)
(* Induction is by least counterexample: the strict subsets of a finite    *)
(* set are well-founded, so a set of finite sets that is not empty has a   *)
(* member none of whose strict subsets is in it.                           *)
EXTENDS Integers, Functions, FiniteSetsExt, FiniteSetTheorems, TLAPS

-----------------------------------------------------------------------------
(* The least counterexample. *)
LEMMA LeastSet ==
  ASSUME NEW S, IsFiniteSet(S), NEW B \in SUBSET SUBSET S, B # {}
  PROVE  \E T \in B : \A U \in SUBSET T : U # T => U \notin B
<1>1. IsWellFoundedOn(StrictSubsetOrdering(S), FiniteSubsetsOf(S))
  BY FS_StrictSubsetOrderingWellFounded
<1>2. B \subseteq FiniteSubsetsOf(S)  BY FS_FiniteSubsetsOfFinite
<1>3. \E T \in B : \A U \in B : ~ (<<U, T>> \in StrictSubsetOrdering(S))
  BY <1>1, <1>2, WFMin
<1> QED  BY <1>3 DEF StrictSubsetOrdering

-----------------------------------------------------------------------------
(* The recursion behind a sum: its solutions agree, and there is one. *)

Chosen(s) == CHOOSE x \in s : TRUE
Sums(g, f, S) ==
  g = [s \in SUBSET S |-> IF s = {} THEN 0 ELSE f[Chosen(s)] + g[s \ {Chosen(s)}]]

LEMMA ChosenIn == \A s : s # {} => Chosen(s) \in s
BY DEF Chosen

LEMMA SumsAgree ==
  ASSUME NEW S, IsFiniteSet(S), NEW T \in SUBSET S, NEW f, NEW g, NEW h,
         Sums(g, f, S), Sums(h, f, T)
  PROVE  \A U \in SUBSET T : g[U] = h[U]
<1> DEFINE B == {U \in SUBSET T : g[U] # h[U]}
<1> SUFFICES ASSUME B # {}  PROVE FALSE  OBVIOUS
<1>1. IsFiniteSet(T)  BY FS_Subset
<1>2. PICK U \in B : \A V \in SUBSET U : V # U => V \notin B
  <2>1. B \in SUBSET SUBSET T  OBVIOUS
  <2> HIDE DEF B
  <2> QED  BY <1>1, <2>1, LeastSet
<1>3. U # {}  BY DEF Sums
<1> DEFINE V == U \ {Chosen(U)}
<1>4. V \in SUBSET U /\ V # U  BY <1>3, ChosenIn
<1>5. g[V] = h[V]  BY <1>2, <1>4
<1>6. g[U] = f[Chosen(U)] + g[V] /\ h[U] = f[Chosen(U)] + h[V]
  BY <1>3 DEF Sums
<1> QED  BY <1>5, <1>6

LEMMA SumsExist ==
  ASSUME NEW S, IsFiniteSet(S), NEW f
  PROVE  \E g : Sums(g, f, S)
<1> DEFINE B == {T \in SUBSET S : ~ \E g : Sums(g, f, T)}
<1> SUFFICES ASSUME B # {}  PROVE FALSE  BY DEF B
<1>1. PICK T \in B : \A U \in SUBSET T : U # T => U \notin B
  <2>1. B \in SUBSET SUBSET S  OBVIOUS
  <2> HIDE DEF B
  <2> QED  BY <2>1, LeastSet
<1> DEFINE G(U) == CHOOSE g : Sums(g, f, U)
           h == [s \in SUBSET T |-> IF s = {} THEN 0
                                    ELSE f[Chosen(s)] + G(s \ {Chosen(s)})[s \ {Chosen(s)}]]
<1>2. ASSUME NEW U \in SUBSET T, U # T  PROVE Sums(G(U), f, U)
  <2>1. \E g : Sums(g, f, U)  BY <1>1, <1>2
  <2> QED  BY <2>1
<1> HIDE DEF G
<1>3. ASSUME NEW U \in SUBSET T, U # T  PROVE h[U] = G(U)[U]
  <2>1. CASE U = {}  BY <1>2, <2>1 DEF Sums
  <2>2. CASE U # {}
    <3> DEFINE V == U \ {Chosen(U)}
    <3>1. V \in SUBSET U /\ V # U /\ V # T  BY <1>3, <2>2, ChosenIn
    <3>2. Sums(G(U), f, U) /\ Sums(G(V), f, V)  BY <1>2, <1>3, <3>1
    <3>3. IsFiniteSet(U)  BY FS_Subset
    <3>4. G(U)[V] = G(V)[V]  BY <3>1, <3>2, <3>3, SumsAgree
    <3>5. G(U)[U] = f[Chosen(U)] + G(U)[V]  BY <2>2, <3>2 DEF Sums
    <3> QED  BY <2>2, <3>4, <3>5
  <2> QED  BY <2>1, <2>2
<1>4. ASSUME NEW s \in SUBSET T, s # {}
      PROVE  s \ {Chosen(s)} \in SUBSET T /\ s \ {Chosen(s)} # T
  BY <1>4, ChosenIn
<1>5. h = [s \in SUBSET T |-> IF s = {} THEN 0 ELSE f[Chosen(s)] + h[s \ {Chosen(s)}]]
  BY <1>3, <1>4
<1>6. Sums(h, f, T)  BY <1>5 DEF Sums
<1> QED  BY <1>6

-----------------------------------------------------------------------------
(* The sum, unfolded. *)

(* Whatever solves the recursion gives the sum of every part of the set.   *)
LEMMA SumSolution ==
  ASSUME NEW S, IsFiniteSet(S), NEW f, NEW g, Sums(g, f, S), NEW T \in SUBSET S
  PROVE  g[T] = SumFunctionOnSet(f, T)
<1>1. IsFiniteSet(T)  BY FS_Subset
<1> DEFINE h == CHOOSE k : Sums(k, f, T)
<1>2. SumFunctionOnSet(f, T) = h[T]
  BY DEF SumFunctionOnSet, FoldFunctionOnSet, MapThenFoldSet, Sums, Chosen
<1>3. Sums(h, f, T)
  <2>1. \E k : Sums(k, f, T)  BY <1>1, SumsExist
  <2> QED  BY <2>1
<1> HIDE DEF h
<1>4. g[T] = h[T]  BY <1>3, SumsAgree
<1> QED  BY <1>2, <1>4

LEMMA SumUnfold ==
  ASSUME NEW S, IsFiniteSet(S), NEW f
  PROVE  SumFunctionOnSet(f, S) =
           IF S = {} THEN 0
           ELSE f[Chosen(S)] + SumFunctionOnSet(f, S \ {Chosen(S)})
<1>1. PICK g : Sums(g, f, S)  BY SumsExist
<1>2. \A T \in SUBSET S : g[T] = SumFunctionOnSet(f, T)  BY <1>1, SumSolution
<1>3. g[S] = IF S = {} THEN 0 ELSE f[Chosen(S)] + g[S \ {Chosen(S)}]
  BY <1>1 DEF Sums
<1> QED  BY <1>2, <1>3

(* A sum of nothing is nothing. *)
LEMMA SumEmpty == \A f : SumFunctionOnSet(f, {}) = 0
BY SumUnfold, FS_EmptySet

(* A sum of integers is one, and of naturals, one too. *)
LEMMA SumClosed ==
  ASSUME NEW S, IsFiniteSet(S), NEW f, NEW D \in {Int, Nat}, \A x \in S : f[x] \in D
  PROVE  SumFunctionOnSet(f, S) \in D
<1> DEFINE B == {T \in SUBSET S : SumFunctionOnSet(f, T) \notin D}
<1> SUFFICES ASSUME B # {}  PROVE FALSE  OBVIOUS
<1>1. PICK T \in B : \A U \in SUBSET T : U # T => U \notin B
  <2>1. B \in SUBSET SUBSET S  OBVIOUS
  <2> HIDE DEF B
  <2> QED  BY <2>1, LeastSet
<1>2. IsFiniteSet(T)  BY FS_Subset
<1>3. T # {}  BY SumEmpty
<1> DEFINE U == T \ {Chosen(T)}
<1>4. U \in SUBSET T /\ U # T /\ Chosen(T) \in S  BY <1>3, ChosenIn
<1>5. SumFunctionOnSet(f, U) \in D  BY <1>1, <1>4
<1>6. SumFunctionOnSet(f, T) = f[Chosen(T)] + SumFunctionOnSet(f, U)
  BY <1>2, <1>3, SumUnfold
<1>7. f[Chosen(T)] \in D  BY <1>4
<1> QED  BY <1>1, <1>5, <1>6, <1>7

(* Any member may be taken first. *)
LEMMA SumRemove ==
  ASSUME NEW S, IsFiniteSet(S), NEW f, \A x \in S : f[x] \in Int, NEW x \in S
  PROVE  SumFunctionOnSet(f, S) = f[x] + SumFunctionOnSet(f, S \ {x})
<1> DEFINE Sum(T) == SumFunctionOnSet(f, T)
           B == {T \in SUBSET S : \E y \in T : Sum(T) # f[y] + Sum(T \ {y})}
<1>0. \A T \in SUBSET S : IsFiniteSet(T) /\ Sum(T) \in Int  BY FS_Subset, SumClosed
<1>1. SUFFICES ASSUME B # {}  PROVE FALSE
  <2>1. S \in SUBSET S /\ x \in S  OBVIOUS
  <2> QED  BY <1>1, <2>1
<1>2. PICK T \in B : \A U \in SUBSET T : U # T => U \notin B
  <2>1. B \in SUBSET SUBSET S  OBVIOUS
  <2> HIDE DEF B
  <2> QED  BY <1>1, <2>1, LeastSet
<1>3. PICK y \in T : Sum(T) # f[y] + Sum(T \ {y})  BY <1>2
<1> DEFINE c == Chosen(T)
<1>4. c \in T  BY <1>3, ChosenIn
<1>5. Sum(T) = f[c] + Sum(T \ {c})  BY <1>0, <1>3, SumUnfold
<1> HIDE DEF Sum
<1>6. y # c  BY <1>3, <1>5
<1> DEFINE R == (T \ {c}) \ {y}
<1>7. Sum(T \ {c}) = f[y] + Sum(R)
  <2>1. T \ {c} \notin B /\ y \in T \ {c}  BY <1>2, <1>4, <1>6
  <2> QED  BY <2>1
<1>8. Sum(T \ {y}) = f[c] + Sum(R)
  <2>1. T \ {y} \notin B /\ c \in T \ {y} /\ (T \ {y}) \ {c} = R  BY <1>2, <1>4, <1>6
  <2> HIDE DEF R
  <2> QED  BY <2>1
<1>9. f[c] \in Int /\ f[y] \in Int /\ Sum(R) \in Int  BY <1>0, <1>4
<1> QED  BY <1>3, <1>5, <1>7, <1>8, <1>9

LEMMA SumAdd ==
  ASSUME NEW S, IsFiniteSet(S), NEW x, x \notin S, NEW f,
         \A y \in S \cup {x} : f[y] \in Int
  PROVE  SumFunctionOnSet(f, S \cup {x}) = f[x] + SumFunctionOnSet(f, S)
<1>1. IsFiniteSet(S \cup {x})  BY FS_AddElement
<1>2. (S \cup {x}) \ {x} = S  OBVIOUS
<1>3. SumFunctionOnSet(f, S \cup {x}) = f[x] + SumFunctionOnSet(f, (S \cup {x}) \ {x})
  BY <1>1, SumRemove
<1> QED  BY <1>2, <1>3

(* Functions that agree on a set have the same sum over it. *)
LEMMA SumSame ==
  ASSUME NEW S, IsFiniteSet(S), NEW f, NEW g, \A x \in S : f[x] = g[x]
  PROVE  SumFunctionOnSet(f, S) = SumFunctionOnSet(g, S)
<1>1. PICK h : Sums(h, f, S)  BY SumsExist
<1>2. Sums(h, g, S)
  <2>1. \A s \in SUBSET S : s # {} => f[Chosen(s)] = g[Chosen(s)]  BY ChosenIn
  <2> QED  BY <1>1, <2>1 DEF Sums
<1> QED  BY <1>1, <1>2, SumSolution

(* What has nothing negative adds up to less in a part. *)
LEMMA SumMonotone ==
  ASSUME NEW S, IsFiniteSet(S), NEW T \in SUBSET S, NEW f, \A x \in S : f[x] \in Nat
  PROVE  SumFunctionOnSet(f, T) <= SumFunctionOnSet(f, S)
<1> DEFINE Sum(U) == SumFunctionOnSet(f, U)
           B == {U \in SUBSET S : T \subseteq U /\ ~ (Sum(T) <= Sum(U))}
<1>0. \A U \in SUBSET S : IsFiniteSet(U) /\ Sum(U) \in Nat  BY FS_Subset, SumClosed
<1>1. SUFFICES ASSUME B # {}  PROVE FALSE
  <2>1. S \in SUBSET S  OBVIOUS
  <2> QED  BY <1>1, <2>1
<1>2. PICK U \in B : \A V \in SUBSET U : V # U => V \notin B
  <2>1. B \in SUBSET SUBSET S  OBVIOUS
  <2> HIDE DEF B
  <2> QED  BY <1>1, <2>1, LeastSet
<1> HIDE DEF Sum
<1>3. T # U  BY <1>0, <1>2
<1>4. PICK x \in U : x \notin T  BY <1>2, <1>3
<1>5. Sum(T) <= Sum(U \ {x})  BY <1>2, <1>4
<1>6. Sum(U) = f[x] + Sum(U \ {x})
  <2>1. \A y \in U : f[y] \in Int  BY <1>2
  <2> QED  BY <1>0, <1>2, <2>1, SumRemove DEF Sum
<1> QED  BY <1>0, <1>2, <1>4, <1>5, <1>6

(* Sums over the first members of a list: each is the one before with the  *)
(* next member, and what is positive makes them grow.                      *)
LEMMA SumPrefix ==
  ASSUME NEW n \in Nat, NEW f, \A j \in 1..n : f[j] \in Int, NEW k \in Nat, k < n
  PROVE  SumFunctionOnSet(f, 1..(k + 1)) = SumFunctionOnSet(f, 1..k) + f[k + 1]
<1>1. IsFiniteSet(1..k)  BY FS_Interval
<1>2. k + 1 \notin 1..k /\ (1..k) \cup {k + 1} = 1..(k + 1)  OBVIOUS
<1>3. \A j \in (1..k) \cup {k + 1} : f[j] \in Int  OBVIOUS
<1>4. SumFunctionOnSet(f, (1..k) \cup {k + 1}) = f[k + 1] + SumFunctionOnSet(f, 1..k)
  BY <1>1, <1>2, <1>3, SumAdd
<1>5. SumFunctionOnSet(f, 1..k) \in Int /\ f[k + 1] \in Int
  BY <1>1, <1>3, SumClosed
<1>6. SumFunctionOnSet(f, 1..(k + 1)) = f[k + 1] + SumFunctionOnSet(f, 1..k)
  BY <1>2, <1>4
<1> QED  BY <1>5, <1>6

LEMMA SumPrefixGrows ==
  ASSUME NEW n \in Nat, NEW f, \A j \in 1..n : f[j] \in Nat \ {0}, NEW k \in Nat, k < n
  PROVE  SumFunctionOnSet(f, 1..k) < SumFunctionOnSet(f, 1..n)
<1>1. /\ SumFunctionOnSet(f, 1..(k + 1)) = SumFunctionOnSet(f, 1..k) + f[k + 1]
      /\ f[k + 1] > 0 /\ f[k + 1] \in Nat
  BY SumPrefix
<1>2. IsFiniteSet(1..n) /\ IsFiniteSet(1..k)  BY FS_Interval
<1>3. SumFunctionOnSet(f, 1..k) \in Nat /\ SumFunctionOnSet(f, 1..n) \in Nat
  BY <1>2, SumClosed
<1>4. SumFunctionOnSet(f, 1..(k + 1)) <= SumFunctionOnSet(f, 1..n)
  BY <1>2, SumMonotone
<1> QED  BY <1>1, <1>3, <1>4

(* The sums of one column of a table, as sums of a function.               *)
AmountsOf(table, keys) == MapThenSumSet(LAMBDA k : table[k].amount, keys)
FeesOf(table, keys) == MapThenSumSet(LAMBDA k : table[k].fee, keys)

LEMMA AmountsAsSum ==
  ASSUME NEW S, IsFiniteSet(S), NEW table
  PROVE  AmountsOf(table, S) = SumFunctionOnSet([k \in S |-> table[k].amount], S)
<1> DEFINE f == [k \in S |-> table[k].amount]
           Solves(g) == g = [s \in SUBSET S |->
                              IF s = {} THEN 0 ELSE table[Chosen(s)].amount + g[s \ {Chosen(s)}]]
           h == CHOOSE g : Solves(g)
<1>1. AmountsOf(table, S) = h[S]
  BY DEF AmountsOf, MapThenSumSet, MapThenFoldSet, Chosen
<1>2. \A s \in SUBSET S : s # {} => f[Chosen(s)] = table[Chosen(s)].amount  BY ChosenIn
<1>3. \A g : Sums(g, f, S) <=> Solves(g)
  <2> HIDE DEF f
  <2> QED  BY <1>2 DEF Sums
<1>4. \E g : Solves(g)  BY <1>3, SumsExist
<1>5. Sums(h, f, S)  BY <1>3, <1>4
<1> HIDE DEF h, f
<1> QED  BY <1>1, <1>5, SumSolution DEF f

LEMMA FeesAsSum ==
  ASSUME NEW S, IsFiniteSet(S), NEW table
  PROVE  FeesOf(table, S) = SumFunctionOnSet([k \in S |-> table[k].fee], S)
<1> DEFINE f == [k \in S |-> table[k].fee]
           Solves(g) == g = [s \in SUBSET S |->
                              IF s = {} THEN 0 ELSE table[Chosen(s)].fee + g[s \ {Chosen(s)}]]
           h == CHOOSE g : Solves(g)
<1>1. FeesOf(table, S) = h[S]
  BY DEF FeesOf, MapThenSumSet, MapThenFoldSet, Chosen
<1>2. \A s \in SUBSET S : s # {} => f[Chosen(s)] = table[Chosen(s)].fee  BY ChosenIn
<1>3. \A g : Sums(g, f, S) <=> Solves(g)
  <2> HIDE DEF f
  <2> QED  BY <1>2 DEF Sums
<1>4. \E g : Solves(g)  BY <1>3, SumsExist
<1>5. Sums(h, f, S)  BY <1>3, <1>4
<1> HIDE DEF h, f
<1> QED  BY <1>1, <1>5, SumSolution DEF f

(* A row more, and a part of the rows.                                     *)
LEMMA AmountsGrow ==
  ASSUME NEW S, IsFiniteSet(S), NEW k, k \notin S, NEW table, NEW new,
         \A j \in S : new[j] = table[j],
         \A j \in S : table[j].amount \in Int, new[k].amount \in Int
  PROVE  /\ AmountsOf(new, S \cup {k}) = AmountsOf(table, S) + new[k].amount
         /\ AmountsOf(table, S) \in Int
<1> DEFINE f == [j \in S |-> table[j].amount]
           T == S \cup {k}
           g == [j \in T |-> new[j].amount]
<1>1. IsFiniteSet(T)  BY FS_AddElement
<1>2. /\ \A j \in T : g[j] \in Int
      /\ \A j \in S : f[j] = g[j]
      /\ g[k] = new[k].amount
  OBVIOUS
<1>3. AmountsOf(table, S) = SumFunctionOnSet(f, S) /\ AmountsOf(new, T) = SumFunctionOnSet(g, T)
  BY <1>1, AmountsAsSum
<1> HIDE DEF f, g
<1>4. SumFunctionOnSet(g, T) = g[k] + SumFunctionOnSet(g, S)  BY <1>2, SumAdd
<1>5. SumFunctionOnSet(f, S) = SumFunctionOnSet(g, S)  BY <1>2, SumSame
<1>6. SumFunctionOnSet(g, S) \in Int  BY <1>2, SumClosed
<1> QED  BY <1>2, <1>3, <1>4, <1>5, <1>6

LEMMA FeesGrow ==
  ASSUME NEW S, IsFiniteSet(S), NEW k, k \notin S, NEW table, NEW new,
         \A j \in S : new[j] = table[j],
         \A j \in S : table[j].fee \in Int, new[k].fee \in Int
  PROVE  /\ FeesOf(new, S \cup {k}) = FeesOf(table, S) + new[k].fee
         /\ FeesOf(table, S) \in Int
<1> DEFINE f == [j \in S |-> table[j].fee]
           T == S \cup {k}
           g == [j \in T |-> new[j].fee]
<1>1. IsFiniteSet(T)  BY FS_AddElement
<1>2. /\ \A j \in T : g[j] \in Int
      /\ \A j \in S : f[j] = g[j]
      /\ g[k] = new[k].fee
  OBVIOUS
<1>3. FeesOf(table, S) = SumFunctionOnSet(f, S) /\ FeesOf(new, T) = SumFunctionOnSet(g, T)
  BY <1>1, FeesAsSum
<1> HIDE DEF f, g
<1>4. SumFunctionOnSet(g, T) = g[k] + SumFunctionOnSet(g, S)  BY <1>2, SumAdd
<1>5. SumFunctionOnSet(f, S) = SumFunctionOnSet(g, S)  BY <1>2, SumSame
<1>6. SumFunctionOnSet(g, S) \in Int  BY <1>2, SumClosed
<1> QED  BY <1>2, <1>3, <1>4, <1>5, <1>6

LEMMA AmountsOfPart ==
  ASSUME NEW S, IsFiniteSet(S), NEW T \in SUBSET S, NEW table,
         \A j \in S : table[j].amount \in Nat
  PROVE  /\ AmountsOf(table, T) <= AmountsOf(table, S)
         /\ AmountsOf(table, T) \in Nat /\ AmountsOf(table, S) \in Nat
<1> DEFINE f == [j \in T |-> table[j].amount]
           g == [j \in S |-> table[j].amount]
<1>1. IsFiniteSet(T)  BY FS_Subset
<1>2. (\A j \in S : g[j] \in Nat) /\ \A j \in T : f[j] = g[j]  OBVIOUS
<1>3. AmountsOf(table, T) = SumFunctionOnSet(f, T) /\ AmountsOf(table, S) = SumFunctionOnSet(g, S)
  BY <1>1, AmountsAsSum
<1> HIDE DEF f, g
<1>4. SumFunctionOnSet(f, T) = SumFunctionOnSet(g, T)  BY <1>1, <1>2, SumSame
<1>5. SumFunctionOnSet(g, T) <= SumFunctionOnSet(g, S)  BY <1>2, SumMonotone
<1>6. SumFunctionOnSet(g, T) \in Nat /\ SumFunctionOnSet(g, S) \in Nat  BY <1>1, <1>2, SumClosed
<1> QED  BY <1>3, <1>4, <1>5, <1>6

(* Rows that agree on a set add up to the same.                            *)
LEMMA AmountsSame ==
  ASSUME NEW S, IsFiniteSet(S), NEW table, NEW new, \A j \in S : new[j] = table[j]
  PROVE  AmountsOf(new, S) = AmountsOf(table, S) /\ FeesOf(new, S) = FeesOf(table, S)
<1>1. /\ [j \in S |-> table[j].amount] = [j \in S |-> new[j].amount]
      /\ [j \in S |-> table[j].fee] = [j \in S |-> new[j].fee]
  OBVIOUS
<1> QED  BY <1>1, AmountsAsSum, FeesAsSum


-----------------------------------------------------------------------------
(* Many rows more: the sum over what an injective list names is the sum    *)
(* over its positions.                                                     *)
Named(at, I) == {at[i] : i \in I}

LEMMA NamedFinite ==
  ASSUME NEW I, IsFiniteSet(I), NEW at
  PROVE  IsFiniteSet(Named(at, I))
<1> DEFINE f == [i \in I |-> at[i]]
<1>1. f \in Surjection(I, Named(at, I))  BY DEF Surjection, Named
<1> QED  BY <1>1, FS_Surjection

LEMMA SumOfNamed ==
  ASSUME NEW S, IsFiniteSet(S), NEW I, IsFiniteSet(I), NEW at,
         \A i \in I : at[i] \notin S, \A i, j \in I : at[i] = at[j] => i = j,
         NEW g, \A x \in S : g[x] \in Int,
         NEW f, \A i \in I : f[i] = g[at[i]] /\ f[i] \in Int
  PROVE  SumFunctionOnSet(g, S \cup Named(at, I))
           = SumFunctionOnSet(g, S) + SumFunctionOnSet(f, I)
<1> DEFINE Holds(T) == SumFunctionOnSet(g, S \cup Named(at, T))
                         = SumFunctionOnSet(g, S) + SumFunctionOnSet(f, T)
           B == {T \in SUBSET I : ~ Holds(T)}
<1>1. SumFunctionOnSet(g, S) \in Int  BY SumClosed
<1>2. ASSUME NEW T \in B, \A U \in SUBSET T : U # T => U \notin B
      PROVE  FALSE
  <2>1. T # {}
    <3>1. S \cup Named(at, {}) = S  BY DEF Named
    <3>2. SumFunctionOnSet(f, {}) = 0  BY SumEmpty
    <3>3. SumFunctionOnSet(g, S) = SumFunctionOnSet(g, S) + 0  BY <1>1
    <3>4. Holds({})  BY <3>1, <3>2, <3>3
    <3> QED  BY <3>4
  <2>2. PICK x \in T : TRUE  BY <2>1
  <2> DEFINE U == T \ {x}
             V == S \cup Named(at, U)
  <2>3. Holds(U)  BY <1>2, <2>2
  <2>4. IsFiniteSet(T) /\ IsFiniteSet(U)  BY FS_Subset
  <2>5. IsFiniteSet(V)
    <3>1. IsFiniteSet(Named(at, U))  BY <2>4, NamedFinite
    <3> QED  BY <3>1, FS_Union
  <2>6. S \cup Named(at, T) = V \cup {at[x]}  BY <2>2 DEF Named
  <2>7. at[x] \notin V  BY <2>2 DEF Named
  <2>8. \A y \in V \cup {at[x]} : g[y] \in Int  BY <2>2 DEF Named
  <2>9. SumFunctionOnSet(f, T) = f[x] + SumFunctionOnSet(f, U)
        /\ SumFunctionOnSet(f, U) \in Int /\ f[x] \in Int /\ f[x] = g[at[x]]
    BY <2>2, <2>4, SumRemove, SumClosed
  <2> HIDE DEF U, V
  <2>10. SumFunctionOnSet(g, V \cup {at[x]}) = g[at[x]] + SumFunctionOnSet(g, V)
    BY <2>5, <2>7, <2>8, SumAdd
  <2>11. SumFunctionOnSet(g, V) = SumFunctionOnSet(g, S) + SumFunctionOnSet(f, U)
    BY <2>3 DEF V
  <2>12. SumFunctionOnSet(g, V \cup {at[x]})
           = SumFunctionOnSet(g, S) + SumFunctionOnSet(f, T)
    BY <1>1, <2>9, <2>10, <2>11
  <2>13. Holds(T)  BY <2>6, <2>12
  <2> QED  BY <2>13
<1> HIDE DEF B
<1>3. B = {}
  <2>1. B \in SUBSET SUBSET I  BY DEF B
  <2> QED  BY <1>2, <2>1, LeastSet
<1> QED  BY <1>3 DEF B

LEMMA AmountsGrowBy ==
  ASSUME NEW S, IsFiniteSet(S), NEW I, IsFiniteSet(I), NEW at,
         \A i \in I : at[i] \notin S, \A i, j \in I : at[i] = at[j] => i = j,
         NEW table, NEW new, \A k \in S : new[k] = table[k],
         \A k \in S : table[k].amount \in Int,
         NEW f, \A i \in I : f[i] = new[at[i]].amount, \A i \in I : f[i] \in Int
  PROVE  AmountsOf(new, S \cup Named(at, I)) = AmountsOf(table, S) + SumFunctionOnSet(f, I)
<1> DEFINE T == S \cup Named(at, I)
           a == [k \in T |-> new[k].amount]
           b == [k \in S |-> table[k].amount]
<1>1. IsFiniteSet(T)
  <2>1. IsFiniteSet(Named(at, I))  BY NamedFinite
  <2> QED  BY <2>1, FS_Union
<1>2. AmountsOf(new, T) = SumFunctionOnSet(a, T) /\ AmountsOf(table, S) = SumFunctionOnSet(b, S)
  BY <1>1, AmountsAsSum
<1>3. \A k \in S : a[k] = b[k] /\ a[k] \in Int
  OBVIOUS
<1>4. \A i \in I : f[i] = a[at[i]] /\ f[i] \in Int
  BY DEF Named
<1> HIDE DEF a, b
<1>5. SumFunctionOnSet(a, S) = SumFunctionOnSet(b, S)
  BY <1>3, SumSame
<1>6. SumFunctionOnSet(a, T) = SumFunctionOnSet(a, S) + SumFunctionOnSet(f, I)
  BY <1>3, <1>4, SumOfNamed
<1> QED  BY <1>2, <1>5, <1>6

LEMMA FeesGrowBy ==
  ASSUME NEW S, IsFiniteSet(S), NEW I, IsFiniteSet(I), NEW at,
         \A i \in I : at[i] \notin S, \A i, j \in I : at[i] = at[j] => i = j,
         NEW table, NEW new, \A k \in S : new[k] = table[k],
         \A k \in S : table[k].fee \in Int,
         NEW f, \A i \in I : f[i] = new[at[i]].fee, \A i \in I : f[i] \in Int
  PROVE  FeesOf(new, S \cup Named(at, I)) = FeesOf(table, S) + SumFunctionOnSet(f, I)
<1> DEFINE T == S \cup Named(at, I)
           a == [k \in T |-> new[k].fee]
           b == [k \in S |-> table[k].fee]
<1>1. IsFiniteSet(T)
  <2>1. IsFiniteSet(Named(at, I))  BY NamedFinite
  <2> QED  BY <2>1, FS_Union
<1>2. FeesOf(new, T) = SumFunctionOnSet(a, T) /\ FeesOf(table, S) = SumFunctionOnSet(b, S)
  BY <1>1, FeesAsSum
<1>3. \A k \in S : a[k] = b[k] /\ a[k] \in Int
  OBVIOUS
<1>4. \A i \in I : f[i] = a[at[i]] /\ f[i] \in Int
  BY DEF Named
<1> HIDE DEF a, b
<1>5. SumFunctionOnSet(a, S) = SumFunctionOnSet(b, S)
  BY <1>3, SumSame
<1>6. SumFunctionOnSet(a, T) = SumFunctionOnSet(a, S) + SumFunctionOnSet(f, I)
  BY <1>3, <1>4, SumOfNamed
<1> QED  BY <1>2, <1>5, <1>6

(* What is at most a part of something adds up to at most that part of it. *)
LEMMA SumOfParts ==
  ASSUME NEW S, IsFiniteSet(S), NEW f, NEW h, NEW t \in Nat, NEW a \in Nat,
         \A x \in S : f[x] \in Nat /\ h[x] \in Nat /\ t * f[x] <= a * h[x]
  PROVE  t * SumFunctionOnSet(f, S) <= a * SumFunctionOnSet(h, S)
<1> DEFINE Holds(T) == t * SumFunctionOnSet(f, T) <= a * SumFunctionOnSet(h, T)
           B == {T \in SUBSET S : ~ Holds(T)}
<1>1. ASSUME NEW T \in B, \A U \in SUBSET T : U # T => U \notin B
      PROVE  FALSE
  <2>1. T # {}
    <3>1. Holds({})  BY SumEmpty
    <3> QED  BY <3>1
  <2>2. PICK x \in T : TRUE  BY <2>1
  <2> DEFINE U == T \ {x}
  <2>3. Holds(U)  BY <1>1, <2>2
  <2>4. IsFiniteSet(T) /\ IsFiniteSet(U)  BY FS_Subset
  <2>5. /\ SumFunctionOnSet(f, T) = f[x] + SumFunctionOnSet(f, U)
        /\ SumFunctionOnSet(h, T) = h[x] + SumFunctionOnSet(h, U)
    BY <2>2, <2>4, SumRemove
  <2>6. /\ SumFunctionOnSet(f, U) \in Nat /\ SumFunctionOnSet(h, U) \in Nat
        /\ f[x] \in Nat /\ h[x] \in Nat /\ t * f[x] <= a * h[x]
    BY <2>2, <2>4, SumClosed
  <2> HIDE DEF U
  <2>7. /\ t * (f[x] + SumFunctionOnSet(f, U)) = t * f[x] + t * SumFunctionOnSet(f, U)
        /\ a * (h[x] + SumFunctionOnSet(h, U)) = a * h[x] + a * SumFunctionOnSet(h, U)
        /\ t * f[x] \in Nat /\ a * h[x] \in Nat
        /\ t * SumFunctionOnSet(f, U) \in Nat /\ a * SumFunctionOnSet(h, U) \in Nat
    BY <2>6
  <2>8. t * f[x] + t * SumFunctionOnSet(f, U) <= a * h[x] + a * SumFunctionOnSet(h, U)
    BY <2>3, <2>6, <2>7
  <2>9. Holds(T)  BY <2>5, <2>7, <2>8
  <2> QED  BY <2>9
<1> HIDE DEF B
<1>2. B = {}
  <2>1. B \in SUBSET SUBSET S  BY DEF B
  <2> QED  BY <1>1, <2>1, LeastSet
<1> QED  BY <1>2 DEF B
=============================================================================
