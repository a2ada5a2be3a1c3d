----------------------------- MODULE DataLemmas -----------------------------
(***************************************************************************)
(* Facts about finite sets, sums and sequences that the theorems about     *)
(* several components rest on.                                             *)
(***************************************************************************)
EXTENDS Integers, Sequences, FiniteSetsExt, SequencesExt, Listing, FiniteSetTheorems,
        SequenceTheorems, NaturalsInduction, WellFoundedInduction, TLAPS

(***************************************************************************)
(* Sums over finite sets.  SumFunctionOnSet picks the elements one after   *)
(* the other; that the order does not matter is an induction over finite   *)
(* sets, done by taking a counterexample of the fewest elements.           *)
(***************************************************************************)
Picked(S) == CHOOSE x \in S : TRUE

\* f sums g over every subset of S.
Sums(f, g, S) ==
  f = [s \in SUBSET S |-> IF s = {} THEN 0 ELSE g[Picked(s)] + f[s \ {Picked(s)}]]

\* A family of finite sets has a member that contains no smaller one.
LEMMA SmallestMember ==
  ASSUME NEW F, F # {}, \A S \in F : IsFiniteSet(S)
  PROVE  \E S \in F : \A x \in S : S \ {x} \notin F
<1> DEFINE sizes == {Cardinality(S) : S \in F}
<1>1. sizes \subseteq Nat /\ sizes # {}
  BY FS_CardinalityType
<1>2. PICK n \in sizes : \A m \in sizes : ~ (<<m, n>> \in OpToRel(<, Nat))
  BY <1>1, NatLessThanWellFounded, WFMin
<1>3. PICK S \in F : n = Cardinality(S)
  OBVIOUS
<1>4. ASSUME NEW x \in S, S \ {x} \in F PROVE FALSE
  <2>1. Cardinality(S \ {x}) = n - 1 /\ Cardinality(S \ {x}) \in sizes
    BY <1>3, <1>4, FS_RemoveElement
  <2>2. n \in Nat /\ n - 1 \in Nat
    BY <1>1, <2>1
  <2>3. <<n - 1, n>> \in OpToRel(<, Nat)
    BY <2>2 DEF OpToRel
  <2> QED
    BY <1>2, <2>1, <2>3
<1> QED
  BY <1>4

\* What the community modules define, in the words used here.
LEMMA SumIs ==
  ASSUME NEW g, NEW S
  PROVE  SumFunctionOnSet(g, S) = (CHOOSE f : Sums(f, g, S))[S]
BY DEF SumFunctionOnSet, FoldFunctionOnSet, MapThenFoldSet, Sums, Picked

\* Two summations agree where both are defined.
LEMMA SumsAgree ==
  ASSUME NEW g, NEW A, NEW B, NEW f, NEW h, Sums(f, g, A), Sums(h, g, B),
         NEW S, IsFiniteSet(S), S \subseteq A, S \subseteq B
  PROVE  f[S] = h[S]
<1> DEFINE F == {T \in SUBSET S : f[T] # h[T]}
<1>1. ASSUME F # {} PROVE FALSE
  <2>1. \A T \in F : IsFiniteSet(T)
    BY FS_Subset
  <2>2. PICK T \in F : \A x \in T : T \ {x} \notin F
    BY <1>1, <2>1, SmallestMember
  <2>3. T \in SUBSET A /\ T \in SUBSET B
    OBVIOUS
  <2>4. CASE T = {}
    BY <2>3, <2>4 DEF Sums
  <2>5. CASE T # {}
    <3>1. Picked(T) \in T
      BY <2>5 DEF Picked
    <3>2. f[T \ {Picked(T)}] = h[T \ {Picked(T)}]
      BY <2>2, <3>1
    <3> QED
      BY <2>3, <2>5, <3>2 DEF Sums
  <2> QED
    BY <2>4, <2>5
<1> QED
  BY <1>1

\* Over a finite set there is a summation.
LEMMA SumsExist ==
  ASSUME NEW g, NEW U, IsFiniteSet(U)
  PROVE  \E f : Sums(f, g, U)
<1> DEFINE F == {S \in SUBSET U : ~ \E f : Sums(f, g, S)}
<1>1. ASSUME F # {} PROVE FALSE
  <2>1. \A S \in F : IsFiniteSet(S)
    BY FS_Subset
  <2>2. PICK S \in F : \A x \in S : S \ {x} \notin F
    BY <1>1, <2>1, SmallestMember
  <2>3. IsFiniteSet(S) /\ S \subseteq U
    BY <2>1
  <2> DEFINE x == Picked(S)
  <2>4. CASE S = {}
    <3>1. Sums([T \in SUBSET S |-> 0], g, S)
      BY <2>4 DEF Sums
    <3> QED
      BY <3>1
  <2>5. CASE S # {}
    <3>2. ASSUME NEW y \in S PROVE \E f : Sums(f, g, S \ {y})
      BY <2>2
    <3> DEFINE Part(y) == CHOOSE f : Sums(f, g, S \ {y})
    <3>3. \A y \in S : Sums(Part(y), g, S \ {y})
      BY <3>2
    <3> HIDE DEF Part
    <3> DEFINE Left(T) == CHOOSE y \in S : y \notin T
               f == [T \in SUBSET S |->
                       IF T = S THEN g[x] + Part(x)[S \ {x}] ELSE Part(Left(T))[T]]
    <3>4. ASSUME NEW T \in SUBSET S, T # S PROVE Left(T) \in S \ T
      BY <3>4
    <3>5. ASSUME NEW T \in SUBSET S, T # S, NEW y \in S \ T
          PROVE  f[T] = Part(y)[T]
      <4>1. IsFiniteSet(T)
        BY <2>3, FS_Subset
      <4>2. Left(T) \in S \ T
        BY <3>4, <3>5
      <4>3. f[T] = Part(Left(T))[T]
        BY <3>5
      <4> HIDE DEF Left, f
      <4>4. T \subseteq S \ {y} /\ T \subseteq S \ {Left(T)}
        BY <4>2
      <4>5. Sums(Part(y), g, S \ {y}) /\ Sums(Part(Left(T)), g, S \ {Left(T)})
        BY <3>3, <4>2
      <4> QED
        BY <4>1, <4>3, <4>4, <4>5, SumsAgree
    <3>6. ASSUME NEW T \in SUBSET S
          PROVE  f[T] = IF T = {} THEN 0 ELSE g[Picked(T)] + f[T \ {Picked(T)}]
      <4>1. CASE T = S
        <5>1. x \in S
          BY <2>5 DEF Picked
        <5>2. f[S] = g[x] + Part(x)[S \ {x}]
          OBVIOUS
        <5> HIDE DEF f
        <5>3. f[S \ {x}] = Part(x)[S \ {x}]
          BY <3>5, <5>1
        <5> QED
          BY <2>5, <4>1, <5>2, <5>3
      <4>2. CASE T # S
        <5>1. PICK y \in S : y \notin T
          BY <4>2
        <5>2. f[T] = Part(y)[T]
          BY <3>5, <4>2, <5>1
        <5>3. T \in SUBSET (S \ {y})
          BY <5>1
        <5>4. f[T \ {Picked(T)}] = Part(y)[T \ {Picked(T)}]
          BY <3>5, <5>1
        <5> HIDE DEF f
        <5>5. Part(y)[T] = IF T = {} THEN 0
                           ELSE g[Picked(T)] + Part(y)[T \ {Picked(T)}]
          BY <3>3, <5>3 DEF Sums
        <5> QED
          BY <5>2, <5>4, <5>5
      <4> QED
        BY <4>1, <4>2
    <3>7. f = [T \in SUBSET S |-> f[T]]
      OBVIOUS
    <3> HIDE DEF f
    <3>8. Sums(f, g, S)
      BY <3>6, <3>7 DEF Sums
    <3> QED
      BY <3>8
  <2> QED
    BY <2>4, <2>5
<1> QED
  BY <1>1

\* A sum over no element, and over one element more.
LEMMA SumStep ==
  ASSUME NEW g, NEW S, IsFiniteSet(S)
  PROVE  SumFunctionOnSet(g, S) =
           IF S = {} THEN 0
           ELSE g[Picked(S)] + SumFunctionOnSet(g, S \ {Picked(S)})
<1> DEFINE F(T) == CHOOSE f : Sums(f, g, T)
<1>1. IsFiniteSet(S \ {Picked(S)})
  BY FS_RemoveElement
<1>2. Sums(F(S), g, S) /\ Sums(F(S \ {Picked(S)}), g, S \ {Picked(S)})
  BY <1>1, SumsExist
<1>3. SumFunctionOnSet(g, S) = F(S)[S]
      /\ SumFunctionOnSet(g, S \ {Picked(S)}) = F(S \ {Picked(S)})[S \ {Picked(S)}]
  BY SumIs
<1> HIDE DEF F
<1>4. F(S)[S \ {Picked(S)}] = F(S \ {Picked(S)})[S \ {Picked(S)}]
  BY <1>1, <1>2, SumsAgree
<1>5. F(S)[S] = IF S = {} THEN 0 ELSE g[Picked(S)] + F(S)[S \ {Picked(S)}]
  BY <1>2 DEF Sums
<1> QED
  BY <1>3, <1>4, <1>5

\* A sum of naturals is one.
LEMMA SumType ==
  ASSUME NEW g, NEW U, IsFiniteSet(U), \A x \in U : g[x] \in Nat
  PROVE  SumFunctionOnSet(g, U) \in Nat
<1> DEFINE F == {S \in SUBSET U : SumFunctionOnSet(g, S) \notin Nat}
<1>1. ASSUME F # {} PROVE FALSE
  <2>1. \A S \in F : IsFiniteSet(S)
    BY FS_Subset
  <2>2. PICK S \in F : \A x \in S : S \ {x} \notin F
    BY <1>1, <2>1, SmallestMember
  <2>3. SumFunctionOnSet(g, S) =
          IF S = {} THEN 0 ELSE g[Picked(S)] + SumFunctionOnSet(g, S \ {Picked(S)})
    BY <2>1, SumStep
  <2>4. S # {} /\ Picked(S) \in S
    BY <2>3 DEF Picked
  <2>5. SumFunctionOnSet(g, S \ {Picked(S)}) \in Nat
    BY <2>2, <2>4
  <2>6. g[Picked(S)] \in Nat
    BY <2>4
  <2>7. SumFunctionOnSet(g, S) \in Nat
    BY <2>3, <2>4, <2>5, <2>6
  <2> QED
    BY <2>7
<1> QED
  BY <1>1

\* Only the summands count.
LEMMA SumSame ==
  ASSUME NEW g, NEW h, NEW U, IsFiniteSet(U), \A x \in U : g[x] = h[x]
  PROVE  SumFunctionOnSet(g, U) = SumFunctionOnSet(h, U)
<1> DEFINE F == {S \in SUBSET U : SumFunctionOnSet(g, S) # SumFunctionOnSet(h, S)}
<1>1. ASSUME F # {} PROVE FALSE
  <2>1. \A S \in F : IsFiniteSet(S)
    BY FS_Subset
  <2>2. PICK S \in F : \A x \in S : S \ {x} \notin F
    BY <1>1, <2>1, SmallestMember
  <2>3. SumFunctionOnSet(g, S) =
          IF S = {} THEN 0 ELSE g[Picked(S)] + SumFunctionOnSet(g, S \ {Picked(S)})
    BY <2>1, SumStep
  <2>4. SumFunctionOnSet(h, S) =
          IF S = {} THEN 0 ELSE h[Picked(S)] + SumFunctionOnSet(h, S \ {Picked(S)})
    BY <2>1, SumStep
  <2>5. S # {} /\ Picked(S) \in S
    BY <2>3, <2>4 DEF Picked
  <2>6. SumFunctionOnSet(g, S \ {Picked(S)}) = SumFunctionOnSet(h, S \ {Picked(S)})
        /\ g[Picked(S)] = h[Picked(S)]
    BY <2>2, <2>5
  <2> QED
    BY <2>3, <2>4, <2>5, <2>6
<1> QED
  BY <1>1

\* Whichever element is taken out, the rest adds up to what is left.
LEMMA SumWithout ==
  ASSUME NEW g, NEW U, IsFiniteSet(U), \A x \in U : g[x] \in Nat, NEW y \in U
  PROVE  SumFunctionOnSet(g, U) = g[y] + SumFunctionOnSet(g, U \ {y})
<1> DEFINE F == {S \in SUBSET U : \E x \in S :
                   SumFunctionOnSet(g, S) # g[x] + SumFunctionOnSet(g, S \ {x})}
<1>1. ASSUME F # {} PROVE FALSE
  <2>1. \A S \in F : IsFiniteSet(S)
    BY FS_Subset
  <2>2. PICK S \in F : \A x \in S : S \ {x} \notin F
    BY <1>1, <2>1, SmallestMember
  <2>3. PICK x \in S : SumFunctionOnSet(g, S) # g[x] + SumFunctionOnSet(g, S \ {x})
    OBVIOUS
  <2>4. PICK p \in S : p = Picked(S)
    BY <2>3 DEF Picked
  <2>5. SumFunctionOnSet(g, S) = g[p] + SumFunctionOnSet(g, S \ {p})
    BY <2>1, <2>4, SumStep
  <2>6. x # p
    BY <2>3, <2>5
  <2>7. S \ {p} \in SUBSET U /\ x \in S \ {p} /\ S \ {x} \in SUBSET U /\ p \in S \ {x}
    BY <2>6
  <2>8. SumFunctionOnSet(g, S \ {p}) = g[x] + SumFunctionOnSet(g, (S \ {p}) \ {x})
    BY <2>2, <2>4, <2>7
  <2>9. SumFunctionOnSet(g, S \ {x}) = g[p] + SumFunctionOnSet(g, (S \ {x}) \ {p})
    BY <2>2, <2>7
  <2>10. PICK T : T = (S \ {p}) \ {x} /\ T = (S \ {x}) \ {p}
    OBVIOUS
  <2>11. IsFiniteSet(T) /\ \A z \in T : g[z] \in Nat
    BY <2>10, FS_Subset
  <2>12. SumFunctionOnSet(g, T) \in Nat
    BY <2>11, SumType
  <2>13. g[x] \in Nat /\ g[p] \in Nat
    OBVIOUS
  <2> QED
    BY <2>3, <2>5, <2>8, <2>9, <2>10, <2>12, <2>13
<1> QED
  BY <1>1

\* One element more adds its value.
LEMMA SumMore ==
  ASSUME NEW g, NEW S, IsFiniteSet(S), NEW y, y \notin S,
         \A x \in S \cup {y} : g[x] \in Nat
  PROVE  /\ SumFunctionOnSet(g, S \cup {y}) = SumFunctionOnSet(g, S) + g[y]
         /\ SumFunctionOnSet(g, S) \in Nat
<1>1. IsFiniteSet(S \cup {y}) /\ y \in S \cup {y}
  BY FS_AddElement
<1>2. (S \cup {y}) \ {y} = S
  OBVIOUS
<1>3. SumFunctionOnSet(g, S \cup {y}) = g[y] + SumFunctionOnSet(g, (S \cup {y}) \ {y})
  BY <1>1, SumWithout
<1>4. SumFunctionOnSet(g, S) \in Nat
  BY SumType
<1>5. g[y] \in Nat
  OBVIOUS
<1> QED
  BY <1>2, <1>3, <1>4, <1>5

\* More elements, no smaller a sum.
LEMMA SumGrows ==
  ASSUME NEW g, NEW U, IsFiniteSet(U), \A x \in U : g[x] \in Nat,
         NEW S, S \subseteq U
  PROVE  SumFunctionOnSet(g, S) <= SumFunctionOnSet(g, U)
<1> DEFINE F == {T \in SUBSET U : /\ S \subseteq T
                   /\ ~ (SumFunctionOnSet(g, S) <= SumFunctionOnSet(g, T))}
<1>1. ASSUME F # {} PROVE FALSE
  <2>1. \A T \in F : IsFiniteSet(T)
    BY FS_Subset
  <2>2. PICK T \in F : \A x \in T : T \ {x} \notin F
    BY <1>1, <2>1, SmallestMember
  <2>3. SumFunctionOnSet(g, S) \in Nat
    BY FS_Subset, SumType
  <2>4. PICK x \in T : x \notin S
    BY <2>2, <2>3
  <2>5. SumFunctionOnSet(g, T) = g[x] + SumFunctionOnSet(g, T \ {x})
    BY <2>1, SumWithout
  <2>6. SumFunctionOnSet(g, S) <= SumFunctionOnSet(g, T \ {x})
    BY <2>2, <2>4
  <2>7. IsFiniteSet(T \ {x}) /\ \A z \in T \ {x} : g[z] \in Nat
    BY FS_Subset
  <2>8. SumFunctionOnSet(g, T \ {x}) \in Nat
    BY <2>7, SumType
  <2>9. g[x] \in Nat
    OBVIOUS
  <2>10. SumFunctionOnSet(g, S) <= SumFunctionOnSet(g, T)
    BY <2>3, <2>5, <2>6, <2>8, <2>9
  <2> QED
    BY <2>10
<1> QED
  BY <1>1

-----------------------------------------------------------------------------
(***************************************************************************)
(* Counting, and the least and the greatest of what was counted.           *)
(***************************************************************************)

\* Induction over the natural numbers, of a set of them.
LEMMA NatSetInduction ==
  ASSUME NEW P \in SUBSET Nat, 0 \in P, \A n \in P : n + 1 \in P
  PROVE  P = Nat
<1> SUFFICES ASSUME Nat \ P # {} PROVE FALSE
  OBVIOUS
<1>1. PICK n \in Nat \ P : \A k \in 0 .. n - 1 : k \notin Nat \ P
  <2>1. PICK n \in Nat \ P : \A m \in Nat \ P : ~ (<<m, n>> \in OpToRel(<, Nat))
    BY NatLessThanWellFounded, WFMin
  <2>2. n \in Nat
    OBVIOUS
  <2>3. \A k \in 0 .. n - 1 : k \in Nat /\ k < n
    BY <2>2
  <2> QED BY <2>1, <2>2, <2>3 DEF OpToRel
<1>2. n - 1 \in Nat /\ n - 1 \in 0 .. n - 1
  BY <1>1
<1>3. n - 1 \in P /\ (n - 1) + 1 = n
  BY <1>1, <1>2
<1> QED BY <1>1, <1>3

\* A one-to-one correspondence keeps the number of elements.
LEMMA SameCount ==
  ASSUME NEW A, NEW B, IsFiniteSet(A), NEW f \in [A -> B],
         \A x, y \in A : f[x] = f[y] => x = y, \A b \in B : \E x \in A : f[x] = b
  PROVE  IsFiniteSet(B) /\ Cardinality(A) = Cardinality(B)
<1>1. f \in Bijection(A, B)
  BY DEF Bijection, Injection, Surjection, IsInjective
<1> QED BY <1>1, FS_Bijection DEF ExistsBijection

\* An injection does not make a set smaller.
LEMMA NoFewer ==
  ASSUME NEW A, NEW B, IsFiniteSet(B), NEW f \in [A -> B],
         \A x, y \in A : f[x] = f[y] => x = y
  PROVE  IsFiniteSet(A) /\ Cardinality(A) <= Cardinality(B)
<1>1. f \in Injection(A, B)
  BY DEF Injection, IsInjective
<1> QED BY <1>1, FS_Injection

\* An injection from a finite set to another of the same size reaches every element.
LEMMA AllReached ==
  ASSUME NEW A, NEW B, IsFiniteSet(A), IsFiniteSet(B), Cardinality(A) = Cardinality(B),
         NEW f \in [A -> B], \A x, y \in A : f[x] = f[y] => x = y
  PROVE  \A b \in B : \E x \in A : f[x] = b
<1> DEFINE I == {f[x] : x \in A}
           g == [x \in A |-> f[x]]
<1>1. g \in [A -> I] /\ (\A x, y \in A : g[x] = g[y] => x = y)
        /\ \A b \in I : \E x \in A : g[x] = b
  OBVIOUS
<1>2. I \subseteq B
  OBVIOUS
<1> HIDE DEF g, I
<1>3. Cardinality(I) = Cardinality(A)
  BY <1>1, SameCount
<1>4. I = B
  BY <1>2, <1>3, FS_Subset
<1> QED BY <1>4 DEF I

\* What disjoint sets have together.
LEMMA CountApart ==
  ASSUME NEW A, NEW B, IsFiniteSet(A), IsFiniteSet(B), A \cap B = {}
  PROVE  /\ IsFiniteSet(A \cup B)
         /\ Cardinality(A) \in Nat /\ Cardinality(B) \in Nat
         /\ Cardinality(A \cup B) = Cardinality(A) + Cardinality(B)
<1>1. Cardinality(A \cap B) = 0
  BY FS_EmptySet
<1>2. Cardinality(A) \in Nat /\ Cardinality(B) \in Nat
  BY FS_CardinalityType
<1>3. /\ IsFiniteSet(A \cup B)
      /\ Cardinality(A \cup B) = Cardinality(A) + Cardinality(B) - Cardinality(A \cap B)
  BY FS_Union
<1> QED BY <1>1, <1>2, <1>3

\* The least of a set of natural numbers.
LEMMA LeastOf ==
  ASSUME NEW F \in SUBSET Nat, F # {}
  PROVE  \E n \in F : \A m \in F : n <= m
<1>1. PICK n \in F : \A m \in F : ~ (<<m, n>> \in OpToRel(<, Nat))
  BY NatLessThanWellFounded, WFMin
<1>2. \A m \in F : n <= m
  <2>1. SUFFICES ASSUME NEW m \in F PROVE n <= m
    OBVIOUS
  <2>2. n \in Nat /\ m \in Nat
    OBVIOUS
  <2>3. m < n => <<m, n>> \in OpToRel(<, Nat)
    BY <2>2 DEF OpToRel
  <2>4. ~ (m < n)
    BY <1>1, <2>3
  <2> QED BY <2>2, <2>4
<1> QED BY <1>2

\* That is Min.
LEMMA MinIs ==
  ASSUME NEW F \in SUBSET Nat, F # {}
  PROVE  Min(F) \in F /\ \A m \in F : Min(F) <= m
<1>1. PICK n \in F : \A m \in F : ~ (<<m, n>> \in OpToRel(<, Nat))
  BY NatLessThanWellFounded, WFMin
<1>2. \A m \in F : n <= m
  <2>1. SUFFICES ASSUME NEW m \in F PROVE n <= m
    OBVIOUS
  <2>2. n \in Nat /\ m \in Nat
    OBVIOUS
  <2>3. m < n => <<m, n>> \in OpToRel(<, Nat)
    BY <2>2 DEF OpToRel
  <2>4. ~ (m < n)
    BY <1>1, <2>3
  <2> QED BY <2>2, <2>4
<1> QED BY <1>2 DEF Min

\* The greatest of a set of integers that has a bound.
LEMMA GreatestOf ==
  ASSUME NEW L \in Int, NEW F \in SUBSET Int, F # {}, \A x \in F : x <= L
  PROVE  \E n \in F : \A m \in F : m <= n
<1> DEFINE G == {L - x : x \in F}
<1>1. G \in SUBSET Nat /\ G # {}
  <2>1. \A x \in F : L - x \in Nat
    OBVIOUS
  <2> QED BY <2>1
<1>2. PICK g \in G : \A h \in G : g <= h
  BY <1>1, LeastOf
<1>3. PICK n \in F : g = L - n
  BY <1>2
<1>4. \A m \in F : L - m \in G
  OBVIOUS
<1>5. \A m \in F : L - n <= L - m
  BY <1>2, <1>3, <1>4
<1>6. \A m \in F : m <= n
  BY <1>5
<1> QED BY <1>6

\* One of finitely many scores is the highest.
LEMMA Highest ==
  ASSUME NEW S, IsFiniteSet(S), S # {}, NEW score, \A a \in S : score[a] \in Nat
  PROVE  \E a \in S : \A b \in S : score[b] <= score[a]
<1> DEFINE F == {T \in SUBSET S : T # {} /\ ~ \E a \in T : \A b \in T :
                  score[b] <= score[a]}
<1>1. ASSUME F # {} PROVE FALSE
  <2>1. \A T \in F : IsFiniteSet(T)
    BY FS_Subset
  <2>2. PICK T \in F : \A x \in T : T \ {x} \notin F
    BY <1>1, <2>1, SmallestMember
  <2>3. PICK y \in T : TRUE
    OBVIOUS
  <2>4. T # {y}
    BY <2>3
  <2>5. T \ {y} # {} /\ T \ {y} \in SUBSET S
    BY <2>3, <2>4
  <2>6. PICK a \in T \ {y} : \A b \in T \ {y} : score[b] <= score[a]
    BY <2>2, <2>3, <2>5
  <2>7. score[a] \in Nat /\ score[y] \in Nat /\ \A b \in T : score[b] \in Nat
    BY <2>3, <2>6
  <2>8. CASE score[y] <= score[a]
    BY <2>6, <2>8
  <2>9. CASE ~ (score[y] <= score[a])
    <3>1. \A b \in T : score[b] <= score[y]
      BY <2>6, <2>7, <2>9
    <3> QED BY <2>3, <3>1
  <2> QED BY <2>8, <2>9
<1> QED BY <1>1

\* A finite set has subsets of every size up to its own.
LEMMA SubsetOfSize ==
  ASSUME NEW S, IsFiniteSet(S), NEW n \in Nat, n <= Cardinality(S)
  PROVE  kSubset(n, S) # {}
<1> DEFINE N == Cardinality(S)
<1>1. PICK f \in Bijection(1 .. N, S) : N \in Nat
  BY FS_CardinalityType DEF ExistsBijection
<1>2. /\ \A i \in 1 .. N : f[i] \in S
      /\ \A i, j \in 1 .. N : f[i] = f[j] => i = j
  BY <1>1 DEF Bijection, Injection, IsInjective
<1> DEFINE A == 1 .. n
           B == {f[i] : i \in A}
           g == [i \in A |-> f[i]]
<1> HIDE DEF N
<1>3. A \subseteq 1 .. N
  BY <1>1 DEF N
<1>4. IsFiniteSet(A) /\ Cardinality(A) = n
  <2>1. IsFiniteSet(1 .. n) /\ Cardinality(1 .. n) = IF 1 > n THEN 0 ELSE n - 1 + 1
    BY FS_Interval
  <2>2. Cardinality(1 .. n) = n
    BY <2>1
  <2> QED BY <2>1, <2>2
<1> HIDE DEF A
<1>5. /\ g \in [A -> B] /\ (\A i, j \in A : g[i] = g[j] => i = j)
         /\ \A b \in B : \E i \in A : g[i] = b
  BY <1>2, <1>3
<1>6. B \in SUBSET S
  BY <1>2, <1>3
<1> HIDE DEF B, g
<1>7. Cardinality(B) = n
  BY <1>4, <1>5, SameCount
<1> QED BY <1>6, <1>7 DEF kSubset

\* What div gives.
LEMMA Division ==
  ASSUME NEW a \in Nat, NEW b \in Nat, b > 0
  PROVE  /\ a \div b \in Nat
         /\ b * (a \div b) <= a
         /\ a < b * (a \div b) + b
BY Z3

\* A product grows with its factors.
LEMMA Growing ==
  ASSUME NEW b \in Nat, NEW x \in Nat, NEW y \in Nat, x <= y
  PROVE  b * x <= b * y
BY Z3

-----------------------------------------------------------------------------
(***************************************************************************)
(* Rows listed in an order, and parts of sequences.                        *)
(***************************************************************************)

\* Listing a finite set by the number of elements before each lists every
\* element once, in order.
LEMMA OrderIs ==
  ASSUME NEW S, IsFiniteSet(S), NEW below \in [S -> SUBSET S],
         \A x \in S : x \notin below[x],
         \A x, y, z \in S : x \in below[y] /\ y \in below[z] => x \in below[z],
         \A x, y \in S : x = y \/ x \in below[y] \/ y \in below[x],
         NEW N, N = Cardinality(S), NEW s,
         \A n \in 1 .. N :
            (\E x \in S : Cardinality(below[x]) = n - 1)
              => s[n] \in S /\ Cardinality(below[s[n]]) = n - 1
  PROVE  /\ N \in Nat
         /\ \A n \in 1 .. N : s[n] \in S
         /\ \A x \in S : \E n \in 1 .. N : s[n] = x
         /\ \A i, j \in 1 .. N : i < j <=> s[i] \in below[s[j]]
<1> DEFINE rank == [x \in S |-> Cardinality(below[x]) + 1]
<1>1. N \in Nat
  BY FS_CardinalityType
<1>2. ASSUME NEW x \in S PROVE IsFiniteSet(below[x]) /\ Cardinality(below[x]) \in 0 .. N - 1
  <2>1. below[x] \subseteq S \ {x} /\ IsFiniteSet(S \ {x}) /\ Cardinality(S \ {x}) = N - 1
    BY FS_RemoveElement
  <2>2. IsFiniteSet(below[x]) /\ Cardinality(below[x]) <= N - 1
    BY <2>1, FS_Subset
  <2> QED BY <1>1, <2>2, FS_CardinalityType
<1>3. ASSUME NEW x \in S, NEW y \in S, x \in below[y]
      PROVE  Cardinality(below[x]) < Cardinality(below[y])
  <2>1. below[x] \subseteq below[y] /\ x \in below[y] /\ x \notin below[x]
    BY <1>3
  <2>2. Cardinality(below[x]) <= Cardinality(below[y])
        /\ Cardinality(below[x]) # Cardinality(below[y])
    BY <1>2, <2>1, FS_Subset
  <2> QED BY <1>2, <2>2
<1>4. rank \in [S -> 1 .. N]
  BY <1>1, <1>2
<1>5. \A x, y \in S : Cardinality(below[x]) = Cardinality(below[y]) => x = y
  BY <1>2, <1>3
<1>6. rank \in Injection(S, 1 .. N)
  BY <1>4, <1>5, <1>2 DEF Injection, IsInjective
<1>7. IsFiniteSet(1 .. N) /\ Cardinality(1 .. N) = N
  BY <1>1, FS_Interval
<1>8. rank \in Surjection(S, 1 .. N)
  BY <1>6, <1>7, FS_Injection
<1>9. \A n \in 1 .. N : \E x \in S : rank[x] = n
  BY <1>8 DEF Surjection
<1>10. ASSUME NEW n \in 1 .. N PROVE s[n] \in S /\ Cardinality(below[s[n]]) = n - 1
  <2>1. PICK x \in S : rank[x] = n
    BY <1>9
  <2>2. Cardinality(below[x]) = n - 1
    BY <1>2, <2>1
  <2> QED BY <2>2
<1>11. ASSUME NEW x \in S PROVE \E n \in 1 .. N : s[n] = x
  <2>1. PICK n \in 1 .. N : Cardinality(below[x]) = n - 1
    BY <1>1, <1>2, <1>4
  <2> QED BY <1>5, <1>10, <2>1
<1>12. ASSUME NEW i \in 1 .. N, NEW j \in 1 .. N PROVE i < j <=> s[i] \in below[s[j]]
  <2>1. s[i] \in S /\ s[j] \in S /\ Cardinality(below[s[i]]) = i - 1
        /\ Cardinality(below[s[j]]) = j - 1
    BY <1>10
  <2>2. s[i] \in below[s[j]] => i < j
    BY <1>1, <1>3, <2>1
  <2>3. s[j] \in below[s[i]] => j < i
    BY <1>1, <1>3, <2>1
  <2>4. s[i] = s[j] => i = j
    BY <1>1, <2>1
  <2> QED BY <1>1, <2>1, <2>2, <2>3, <2>4
<1> QED BY <1>1, <1>10, <1>11, <1>12

\* q has the elements of s at the indices in I, in their order: at[n] is the index
\* of the n-th.
Keeps(q, s, I, at) ==
  LET K == Cardinality(I) IN
  /\ at \in [1 .. K -> I]
  /\ q = [n \in 1 .. K |-> s[at[n]]]
  /\ \A i \in I : \E n \in 1 .. K : at[n] = i
  /\ \A m, n \in 1 .. K : m < n <=> at[m] < at[n]
  /\ \A m, n \in 1 .. K : at[m] = at[n] => m = n

\* That is what a loop keeps.
LEMMA KeptInOrder ==
  ASSUME NEW s, NEW I \in SUBSET Int, IsFiniteSet(I), NEW q, q = KeepAt(s, I)
  PROVE  \E at : Keeps(q, s, I, at)
<1> DEFINE at == OrderBy(I, LAMBDA i, j : i < j)
           below == [x \in I |-> {y \in I : y < x}]
           N == Cardinality(I)
           nth(n) == CHOOSE x \in I : Cardinality({y \in I : y < x}) = n - 1
<1>1. at = [n \in 1 .. N |-> nth(n)]
  BY DEF OrderBy
<1>2. below \in [I -> SUBSET I]
      /\ \A x \in I : below[x] = {y \in I : y < x}
  OBVIOUS
<1>3. \A n \in 1 .. N : (\E x \in I : Cardinality(below[x]) = n - 1)
                           => at[n] \in I /\ Cardinality(below[at[n]]) = n - 1
  BY <1>1, <1>2
<1>4. /\ \A x \in I : x \notin below[x]
      /\ \A x, y, z \in I : x \in below[y] /\ y \in below[z] => x \in below[z]
      /\ \A x, y \in I : x = y \/ x \in below[y] \/ y \in below[x]
  BY <1>2
<1>b. \A x, y \in I : x \in below[y] <=> x < y
  BY <1>2
<1> HIDE DEF nth, below
<1>a. KeepAt(s, I) = [n \in 1 .. N |-> s[at[n]]]
  BY DEF KeepAt
<1> HIDE DEF at
<1>5. /\ N \in Nat
      /\ \A n \in 1 .. N : at[n] \in I
      /\ \A x \in I : \E n \in 1 .. N : at[n] = x
      /\ \A i, j \in 1 .. N : i < j <=> at[i] \in below[at[j]]
  <2>1. PICK S, n, b, a : S = I /\ n = N /\ b = below /\ a = at
    OBVIOUS
  <2>2. /\ IsFiniteSet(S) /\ b \in [S -> SUBSET S] /\ n = Cardinality(S)
        /\ \A x \in S : x \notin b[x]
    BY <1>2, <1>4, <2>1
  <2>3. /\ \A x, y, z \in S : x \in b[y] /\ y \in b[z] => x \in b[z]
        /\ \A x, y \in S : x = y \/ x \in b[y] \/ y \in b[x]
    BY <1>4, <2>1
  <2>4. \A k \in 1 .. n : (\E x \in S : Cardinality(b[x]) = k - 1)
                               => a[k] \in S /\ Cardinality(b[a[k]]) = k - 1
    BY <1>3, <2>1
  <2>5. /\ n \in Nat
        /\ \A k \in 1 .. n : a[k] \in S
        /\ \A x \in S : \E k \in 1 .. n : a[k] = x
        /\ \A i, j \in 1 .. n : i < j <=> a[i] \in b[a[j]]
    BY <2>2, <2>3, <2>4, OrderIs
  <2> QED BY <2>1, <2>5
<1>6. at = [n \in 1 .. N |-> at[n]]
  BY <1>1
<1>7. at \in [1 .. N -> I]
  BY <1>5, <1>6
<1>8. \A i, j \in 1 .. N : i < j <=> at[i] < at[j]
  BY <1>b, <1>5
<1>9. \A m, n \in 1 .. N : at[m] = at[n] => m = n
  BY <1>5, <1>8
<1>10. Keeps(q, s, I, at)
  BY <1>5, <1>7, <1>8, <1>9, <1>a DEF Keeps
<1> QED BY <1>10

\* The list SetToSeq makes of a finite set.
LEMMA ListOf ==
  ASSUME NEW S, IsFiniteSet(S), NEW s, s = SetToSeq(S)
  PROVE  /\ s \in [1 .. Cardinality(S) -> S] /\ Cardinality(S) \in Nat
         /\ \A i, j \in 1 .. Cardinality(S) : s[i] = s[j] => i = j
         /\ \A x \in S : \E i \in 1 .. Cardinality(S) : s[i] = x
<1> DEFINE N == Cardinality(S)
<1>1. N \in Nat /\ \E f : f \in Bijection(1 .. N, S)
  BY FS_CardinalityType DEF ExistsBijection
<1>2. \E f \in [1 .. N -> S] : IsInjective(f)
  BY <1>1 DEF Bijection, Injection, IsInjective
<1>3. s \in [1 .. N -> S] /\ IsInjective(s)
  BY <1>2 DEF SetToSeq
<1>4. \A i, j \in 1 .. N : s[i] = s[j] => i = j
  BY <1>3 DEF IsInjective
<1> HIDE DEF N
<1>5. \A x \in S : \E i \in 1 .. N : s[i] = x
  <2>1. PICK A : A = 1 .. N
    OBVIOUS
  <2>2. IsFiniteSet(A) /\ Cardinality(A) = Cardinality(S)
    <3>1. IsFiniteSet(1 .. N) /\ Cardinality(1 .. N) = IF 1 > N THEN 0 ELSE N - 1 + 1
      BY <1>1, FS_Interval
    <3>2. Cardinality(1 .. N) = N
      BY <1>1, <3>1
    <3> QED BY <2>1, <3>1, <3>2 DEF N
  <2>3. s \in [A -> S] /\ \A i, j \in A : s[i] = s[j] => i = j
    BY <1>3, <1>4, <2>1
  <2>4. \A x \in S : \E i \in A : s[i] = x
    BY <2>2, <2>3, AllReached
  <2> QED BY <2>1, <2>4
<1> QED BY <1>1, <1>3, <1>4, <1>5 DEF N

\* Where neighbours are in order, all are.
LEMMA InOrderThroughout ==
  ASSUME NEW L \in Nat, NEW a, \A i \in 1 .. L : a[i] \in Int,
         \A i \in 1 .. L - 1 : a[i] <= a[i + 1]
  PROVE  \A i, j \in 1 .. L : i <= j => a[i] <= a[j]
<1> DEFINE P == {d \in Nat : \A i \in 1 .. L : i + d <= L => a[i] <= a[i + d]}
<1>1. 0 \in P
  <2>1. \A i \in 1 .. L : i + 0 = i /\ a[i] <= a[i]
    OBVIOUS
  <2> QED BY <2>1
<1>2. ASSUME NEW d \in P PROVE d + 1 \in P
  <2>1. SUFFICES ASSUME NEW i \in 1 .. L, i + (d + 1) <= L PROVE a[i] <= a[i + (d + 1)]
    OBVIOUS
  <2>2. i + d \in 1 .. L - 1 /\ (i + d) + 1 = i + (d + 1) /\ i + d \in 1 .. L
          /\ i + (d + 1) \in 1 .. L
    BY <2>1
  <2>3. a[i] <= a[i + d] /\ a[i + d] <= a[i + (d + 1)]
    BY <2>2
  <2> QED BY <2>2, <2>3
<1>3. P = Nat
  <2>1. P \in SUBSET Nat
    OBVIOUS
  <2> HIDE DEF P
  <2> QED BY <1>1, <1>2, <2>1, NatSetInduction
<1>4. SUFFICES ASSUME NEW i \in 1 .. L, NEW j \in 1 .. L, i <= j PROVE a[i] <= a[j]
  OBVIOUS
<1>5. j - i \in Nat /\ i + (j - i) = j /\ j <= L
  BY <1>4
<1>6. j - i \in P
  BY <1>3, <1>5
<1> QED BY <1>5, <1>6

\* A sequence with something put into it, at the one place where it is.
LEMMA PutIn ==
  ASSUME NEW T, NEW a \in Seq(T), NEW c \in Seq(T), NEW x, x \notin T,
         NEW s, s = a \o <<x>> \o c
  PROVE  /\ DOMAIN s = 1 .. Len(s) /\ Len(s) = Len(a) + 1 + Len(c)
         /\ (CHOOSE i \in DOMAIN s : s[i] = x) = Len(a) + 1
         /\ SubSeq(s, 1, Len(a)) = a /\ SubSeq(s, Len(a) + 2, Len(s)) = c
<1> DEFINE U == T \cup {x}
<1>1. a \in Seq(U) /\ c \in Seq(U) /\ <<x>> \in Seq(U)
  OBVIOUS
<1>2. /\ Len(a) \in Nat /\ Len(c) \in Nat /\ DOMAIN a = 1 .. Len(a)
         /\ DOMAIN c = 1 .. Len(c)
      /\ \A i \in 1 .. Len(a) : a[i] \in T
      /\ \A i \in 1 .. Len(c) : c[i] \in T
  OBVIOUS
<1> HIDE DEF U
<1>3. /\ s \in Seq(U) /\ Len(s) = Len(a) + 1 + Len(c) /\ DOMAIN s = 1 .. Len(s)
      /\ \A i \in 1 .. Len(a) : s[i] = a[i]
      /\ s[Len(a) + 1] = x
      /\ \A i \in 1 .. Len(c) : s[Len(a) + 1 + i] = c[i]
  BY <1>1, <1>2
<1>4. \A i \in DOMAIN s : s[i] = x => i = Len(a) + 1
  <2>1. SUFFICES ASSUME NEW i \in DOMAIN s, i # Len(a) + 1 PROVE s[i] # x
    OBVIOUS
  <2>2. CASE i \in 1 .. Len(a)
    BY <1>2, <1>3, <2>2
  <2>3. CASE i \notin 1 .. Len(a)
    <3>1. i - (Len(a) + 1) \in 1 .. Len(c) /\ Len(a) + 1 + (i - (Len(a) + 1)) = i
      BY <1>2, <1>3, <2>1, <2>3
    <3> QED BY <1>2, <1>3, <3>1
  <2> QED BY <2>2, <2>3
<1>5. Len(a) + 1 \in DOMAIN s
  BY <1>2, <1>3
<1>6. SubSeq(s, 1, Len(a)) = a
  <2>1. SubSeq(s, 1, Len(a)) = [i \in 1 .. Len(a) |-> s[i]]
    BY <1>2, <1>3
  <2>2. a = [i \in 1 .. Len(a) |-> a[i]]
    BY <1>2
  <2> QED BY <1>3, <2>1, <2>2
<1>7. SubSeq(s, Len(a) + 2, Len(s)) = c
  <2>1. SubSeq(s, Len(a) + 2, Len(s)) = [i \in 1 .. Len(c) |-> s[Len(a) + 1 + i]]
    BY <1>2, <1>3
  <2>2. c = [i \in 1 .. Len(c) |-> c[i]]
    BY <1>2
  <2> QED BY <1>3, <2>1, <2>2
<1> QED BY <1>3, <1>4, <1>5, <1>6, <1>7

\* What FlattenSeq folds its sequences into.
Flattens(f, seqs) ==
  f = [i \in 1 .. Len(seqs) |-> IF i = 1 THEN seqs[i] ELSE f[i - 1] \o seqs[i]]

\* FlattenSeq is such a fold.
LEMMA FlattenIs ==
  ASSUME NEW seqs, Len(seqs) # 0
  PROVE  FlattenSeq(seqs) = (CHOOSE f : Flattens(f, seqs))[Len(seqs)]
BY DEF FlattenSeq, Flattens

\* Cutting a sequence at growing places and putting the pieces together again
\* gives the part up to the last of them.
LEMMA FlattenPieces ==
  ASSUME NEW T, NEW all \in Seq(T), NEW k \in Nat \ {0},
         NEW cut \in [0 .. k -> 0 .. Len(all)],
         cut[0] = 0, \A i \in 1 .. k : cut[i - 1] <= cut[i],
         NEW seqs, seqs = [i \in 1 .. k |-> SubSeq(all, cut[i - 1] + 1, cut[i])]
  PROVE  FlattenSeq(seqs) = SubSeq(all, 1, cut[k])
<1> DEFINE g == [i \in 1 .. k |-> SubSeq(all, 1, cut[i])]
<1>0. Len(seqs) = k /\ k \in Nat
  OBVIOUS
<1>1. ASSUME NEW i \in 1 .. k, i # 1
      PROVE  SubSeq(all, 1, cut[i]) = SubSeq(all, 1, cut[i - 1])
               \o SubSeq(all, cut[i - 1] + 1, cut[i])
  <2>1. i - 1 \in 0 .. k /\ cut[i] \in 0 .. Len(all) /\ cut[i - 1] \in 0 .. Len(all)
        /\ cut[i - 1] <= cut[i]
    BY <1>1, SMTT(60)
  <2>2. 1 \in 1 .. Len(all) + 1 /\ cut[i - 1] \in 0 .. Len(all)
        /\ cut[i] \in cut[i - 1] .. Len(all) /\ 1 - 1 = 0
    BY <2>1
  <2> QED BY <2>2, ConcatAdjacentSubSeq
<1>2. Flattens(g, seqs)
  <2>1. ASSUME NEW i \in 1 .. k
        PROVE  g[i] = IF i = 1 THEN seqs[i] ELSE g[i - 1] \o seqs[i]
    <3>1. CASE i = 1
      BY <3>1, SMTT(60)
    <3>2. CASE i # 1
      <4>1. i - 1 \in 1 .. k
        BY <1>0, <3>2
      <4>2. g[i - 1] = SubSeq(all, 1, cut[i - 1]) /\ g[i] = SubSeq(all, 1, cut[i])
        BY <4>1
      <4>3. seqs[i] = SubSeq(all, cut[i - 1] + 1, cut[i])
        OBVIOUS
      <4> QED BY <1>1, <3>2, <4>2, <4>3
    <3> QED BY <3>1, <3>2
  <2>2. g = [i \in 1 .. k |-> g[i]]
    OBVIOUS
  <2> HIDE DEF g
  <2>3. [i \in 1 .. k |-> g[i]]
          = [i \in 1 .. k |-> IF i = 1 THEN seqs[i] ELSE g[i - 1] \o seqs[i]]
    BY <2>1
  <2> QED BY <1>0, <2>2, <2>3 DEF Flattens
<1>3. ASSUME NEW f, Flattens(f, seqs) PROVE f[k] = SubSeq(all, 1, cut[k])
  <2> DEFINE P == {i \in Nat : i + 1 \in 1 .. k => f[i + 1] = SubSeq(all, 1, cut[i + 1])}
  <2>1. ASSUME NEW i \in 1 .. k
        PROVE  f[i] = IF i = 1 THEN seqs[i] ELSE f[i - 1] \o seqs[i]
    BY <1>0, <1>3 DEF Flattens
  <2>2. 0 \in P
    <3>1. 1 \in 1 .. k /\ 1 - 1 = 0
      OBVIOUS
    <3>2. f[1] = seqs[1]
      BY <2>1, <3>1
    <3>3. seqs[1] = SubSeq(all, 1, cut[1])
      BY <3>1, SMTT(60)
    <3>4. 0 \in Nat /\ 0 + 1 = 1
      OBVIOUS
    <3> QED BY <3>2, <3>3, <3>4
  <2>3. ASSUME NEW i \in P PROVE i + 1 \in P
    <3>1. i \in Nat /\ (i + 1) + 1 # 1 /\ ((i + 1) + 1) - 1 = i + 1
      OBVIOUS
    <3>2. CASE (i + 1) + 1 \in 1 .. k
      <4>1. i + 1 \in 1 .. k
        BY <3>1, <3>2
      <4>2. f[i + 1] = SubSeq(all, 1, cut[i + 1])
        BY <4>1
      <4>3. f[(i + 1) + 1] = f[i + 1] \o seqs[(i + 1) + 1]
        BY <2>1, <3>1, <3>2
      <4>4. seqs[(i + 1) + 1] = SubSeq(all, cut[i + 1] + 1, cut[(i + 1) + 1])
        BY <3>1, <3>2
      <4>5. SubSeq(all, 1, cut[(i + 1) + 1])
              = SubSeq(all, 1, cut[i + 1]) \o SubSeq(all, cut[i + 1] + 1, cut[(i + 1) + 1])
        BY <1>1, <3>1, <3>2
      <4>6. f[(i + 1) + 1] = SubSeq(all, 1, cut[(i + 1) + 1])
        BY <4>2, <4>3, <4>4, <4>5
      <4> QED BY <3>1, <4>6
    <3>3. CASE (i + 1) + 1 \notin 1 .. k
      BY <3>3, <3>1
    <3> QED BY <3>2, <3>3
  <2>4. P = Nat
    <3> HIDE DEF P
    <3>1. P \in SUBSET Nat
      BY DEF P
    <3> QED BY <2>2, <2>3, <3>1, NatSetInduction
  <2>5. k - 1 \in Nat /\ (k - 1) + 1 = k
    OBVIOUS
  <2>6. k - 1 \in P
    <3> HIDE DEF P
    <3> QED BY <2>4, <2>5
  <2> QED BY <2>5, <2>6
<1> QED
  <2>1. FlattenSeq(seqs) = (CHOOSE f : Flattens(f, seqs))[k]
    BY <1>0, FlattenIs
  <2>2. Flattens(CHOOSE f : Flattens(f, seqs), seqs)
    BY <1>2
  <2> QED BY <1>3, <2>1, <2>2

-----------------------------------------------------------------------------
(***************************************************************************)
(* More on sums.                                                           *)
(***************************************************************************)

\* A sum of a function is one over its domain.
LEMMA SumOf ==
  ASSUME NEW f PROVE SumFunction(f) = SumFunctionOnSet(f, DOMAIN f)
BY DEF SumFunction

\* Elements that add nothing can be left out of a sum.
LEMMA SumPart ==
  ASSUME NEW g, NEW U, IsFiniteSet(U), \A x \in U : g[x] \in Nat,
         NEW S, S \subseteq U, \A x \in U \ S : g[x] = 0
  PROVE  SumFunctionOnSet(g, U) = SumFunctionOnSet(g, S)
<1> DEFINE F == {T \in SUBSET U :
                   S \subseteq T /\ SumFunctionOnSet(g, T) # SumFunctionOnSet(g, S)}
<1>1. ASSUME F # {} PROVE FALSE
  <2>1. \A T \in F : IsFiniteSet(T)
    BY FS_Subset
  <2>2. PICK T \in F : \A x \in T : T \ {x} \notin F
    BY <1>1, <2>1, SmallestMember
  <2>3. IsFiniteSet(T) /\ T \subseteq U /\ S \subseteq T
    BY <2>1
  <2>4. T # S
    OBVIOUS
  <2>5. PICK y \in T \ S : TRUE
    BY <2>3, <2>4
  <2>6. SumFunctionOnSet(g, T) = g[y] + SumFunctionOnSet(g, T \ {y})
    BY <2>3, <2>5, SumWithout
  <2>7. g[y] = 0 /\ T \ {y} \in SUBSET U /\ S \subseteq T \ {y}
    BY <2>3, <2>5
  <2>8. SumFunctionOnSet(g, T \ {y}) = SumFunctionOnSet(g, S)
    BY <2>2, <2>5, <2>7
  <2>9. IsFiniteSet(T \ {y})
    BY <2>3, FS_RemoveElement
  <2>10. SumFunctionOnSet(g, T \ {y}) \in Nat
    BY <2>7, <2>9, SumType
  <2>11. SumFunctionOnSet(g, T) = SumFunctionOnSet(g, S)
    BY <2>6, <2>7, <2>8, <2>10
  <2> QED BY <2>11
<1> QED BY <1>1

\* A sum is positive when one of its terms is.
LEMMA SumPositive ==
  ASSUME NEW g, NEW U, IsFiniteSet(U), \A x \in U : g[x] \in Nat
  PROVE  /\ SumFunctionOnSet(g, U) \in Nat
         /\ SumFunctionOnSet(g, U) > 0 <=> \E x \in U : g[x] > 0
<1>1. SumFunctionOnSet(g, U) \in Nat
  BY SumType
<1>2. ASSUME NEW x \in U, g[x] > 0 PROVE SumFunctionOnSet(g, U) > 0
  <2>1. SumFunctionOnSet(g, U) = g[x] + SumFunctionOnSet(g, U \ {x})
    BY SumWithout
  <2>2. IsFiniteSet(U \ {x}) /\ \A y \in U \ {x} : g[y] \in Nat
    BY FS_RemoveElement
  <2>3. SumFunctionOnSet(g, U \ {x}) \in Nat
    BY <2>2, SumType
  <2>4. g[x] \in Nat
    OBVIOUS
  <2> QED BY <1>2, <2>1, <2>3, <2>4
<1>3. ASSUME \A x \in U : ~ (g[x] > 0) PROVE SumFunctionOnSet(g, U) = 0
  <2>1. \A x \in U \ {} : g[x] = 0
    BY <1>3
  <2>2. SumFunctionOnSet(g, U) = SumFunctionOnSet(g, {})
    BY <2>1, SumPart
  <2>3. SumFunctionOnSet(g, {}) = 0
    BY FS_EmptySet, SumStep
  <2> QED BY <2>2, <2>3
<1> QED BY <1>1, <1>2, <1>3

\* A sum does not depend on what its terms are called.
LEMMA SumMoved ==
  ASSUME NEW A, NEW B, IsFiniteSet(A), NEW f \in [A -> B],
         \A x, y \in A : f[x] = f[y] => x = y, \A b \in B : \E x \in A : f[x] = b,
         NEW g, NEW h, \A x \in A : g[x] \in Nat /\ h[f[x]] = g[x]
  PROVE  SumFunctionOnSet(g, A) = SumFunctionOnSet(h, B)
<1> DEFINE Image(S) == {f[x] : x \in S}
           F == {S \in SUBSET A : SumFunctionOnSet(g, S) # SumFunctionOnSet(h, Image(S))}
<1>1. ASSUME F # {} PROVE FALSE
  <2>1. \A S \in F : IsFiniteSet(S)
    BY FS_Subset
  <2>2. PICK S \in F : \A x \in S : S \ {x} \notin F
    BY <1>1, <2>1, SmallestMember
  <2>3. IsFiniteSet(S) /\ S \subseteq A
    BY <2>1
  <2>4. CASE S = {}
    <3>1. Image(S) = {}
      BY <2>4
    <3>2. SumFunctionOnSet(g, {}) = 0 /\ SumFunctionOnSet(h, {}) = 0
      BY FS_EmptySet, SumStep
    <3> QED BY <2>4, <3>1, <3>2
  <2>5. CASE S # {}
    <3>1. PICK y \in S : TRUE
      BY <2>5
    <3> DEFINE R == S \ {y}
    <3>2. R \subseteq A /\ R \cup {y} = S /\ y \notin R /\ y \in A
      BY <2>3, <3>1
    <3>3. SumFunctionOnSet(g, R) = SumFunctionOnSet(h, Image(R))
      BY <2>2, <3>1, <3>2
    <3>4. Image(R) \cup {f[y]} = Image(S) /\ f[y] \notin Image(R)
      BY <2>3, <3>1, <3>2
    <3>5. IsFiniteSet(R)
      BY <2>3, FS_RemoveElement
    <3>6. IsFiniteSet(Image(R))
      <4> DEFINE i == [x \in R |-> f[x]]
      <4>1. i \in Surjection(R, Image(R))
        BY DEF Surjection
      <4> HIDE DEF i, R, Image
      <4> QED BY <3>5, <4>1, FS_Surjection
    <3>7. \A b \in Image(R) \cup {f[y]} : h[b] \in Nat
      BY <3>2
    <3>8. \A x \in R \cup {y} : g[x] \in Nat
      BY <3>2
    <3> HIDE DEF R, Image
    <3>9. SumFunctionOnSet(g, S) = SumFunctionOnSet(g, R) + g[y]
      BY <3>2, <3>5, <3>8, SumMore
    <3>10. SumFunctionOnSet(h, Image(S)) = SumFunctionOnSet(h, Image(R)) + h[f[y]]
      BY <3>4, <3>6, <3>7, SumMore
    <3>11. SumFunctionOnSet(g, S) = SumFunctionOnSet(h, Image(S))
      BY <3>2, <3>3, <3>9, <3>10
    <3> QED BY <3>11 DEF Image
  <2> QED BY <2>4, <2>5
<1>2. SumFunctionOnSet(g, A) = SumFunctionOnSet(h, Image(A))
  BY <1>1
<1>3. Image(A) = B
  OBVIOUS
<1> QED BY <1>2, <1>3

\* Sets that are apart have together the sum of what each has.
LEMMA SumOfCounts ==
  ASSUME NEW U, IsFiniteSet(U), NEW part, \A x \in U : IsFiniteSet(part[x]),
         \A x, y \in U : x # y => part[x] \cap part[y] = {},
         NEW g, \A x \in U : g[x] = Cardinality(part[x])
  PROVE  SumFunctionOnSet(g, U) = Cardinality(UNION {part[x] : x \in U})
<1> DEFINE All(S) == UNION {part[x] : x \in S}
           F == {S \in SUBSET U : ~ (/\ IsFiniteSet(All(S))
                                     /\ SumFunctionOnSet(g, S) = Cardinality(All(S)))}
<1>1. ASSUME F # {} PROVE FALSE
  <2>1. \A S \in F : IsFiniteSet(S)
    BY FS_Subset
  <2>2. PICK S \in F : \A x \in S : S \ {x} \notin F
    BY <1>1, <2>1, SmallestMember
  <2>3. IsFiniteSet(S) /\ S \subseteq U
    BY <2>1
  <2>4. CASE S = {}
    <3>1. All(S) = {}
      BY <2>4
    <3>2. SumFunctionOnSet(g, {}) = 0
      BY FS_EmptySet, SumStep
    <3> QED BY <2>4, <3>1, <3>2, FS_EmptySet
  <2>5. CASE S # {}
    <3>1. PICK y \in S : TRUE
      BY <2>5
    <3> DEFINE R == S \ {y}
    <3>2. R \subseteq U /\ R \cup {y} = S /\ y \notin R /\ y \in U
      BY <2>3, <3>1
    <3>3. IsFiniteSet(All(R)) /\ SumFunctionOnSet(g, R) = Cardinality(All(R))
      BY <2>2, <3>1, <3>2
    <3>4. All(S) = All(R) \cup part[y]
      BY <3>2
    <3>5. All(R) \cap part[y] = {}
      BY <3>2
    <3>6. IsFiniteSet(R)
      BY <2>3, FS_RemoveElement
    <3>7. \A x \in R \cup {y} : g[x] \in Nat
      BY <3>2, FS_CardinalityType
    <3> HIDE DEF R, All
    <3>8. SumFunctionOnSet(g, S) = SumFunctionOnSet(g, R) + g[y]
      BY <3>2, <3>6, <3>7, SumMore
    <3>9. /\ IsFiniteSet(All(S))
          /\ Cardinality(All(S)) = Cardinality(All(R)) + Cardinality(part[y])
      <4>1. IsFiniteSet(part[y])
        BY <3>2
      <4>2. PICK a, b : a = All(R) /\ b = part[y]
        OBVIOUS
      <4>3. IsFiniteSet(a) /\ IsFiniteSet(b) /\ a \cap b = {}
        BY <3>3, <3>5, <4>1, <4>2
      <4>4. IsFiniteSet(a \cup b) /\ Cardinality(a \cup b) = Cardinality(a) + Cardinality(b)
        BY <4>3, CountApart
      <4> QED BY <3>4, <4>2, <4>4
    <3>10. SumFunctionOnSet(g, S) = Cardinality(All(S))
      BY <3>2, <3>3, <3>8, <3>9
    <3> QED BY <3>9, <3>10 DEF All
  <2> QED BY <2>4, <2>5
<1>2. SumFunctionOnSet(g, U) = Cardinality(All(U))
  BY <1>1
<1> QED BY <1>2
=============================================================================
