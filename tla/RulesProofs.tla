------------------------------ MODULE RulesProofs ------------------------------
(***************************************************************************)
(* Lemmas about the rules (module Rules), for the proofs about the         *)
(* commands that obey them: what a setting can be, which sizes are near    *)
(* another one, what grows with an image, and how tiles lie on a sheet.    *)
(***************************************************************************)
EXTENDS Rules, FiniteSetTheorems, SequenceTheorems, WellFoundedInduction, TLAPS

-------------------------------------------------------------------------------
(* Sets of numbers.                                                        *)

LEMMA LeastElement ==
  ASSUME NEW S \in SUBSET Nat, S # {}
  PROVE  \E x \in S : \A y \in S : x <= y
<1>1. IsWellFoundedOn(OpToRel(<, Nat), Nat)
  BY NatLessThanWellFounded
<1>2. PICK x \in S : \A y \in S : ~(<<y, x>> \in OpToRel(<, Nat))
  BY <1>1, WFMin
<1>3. \A y \in S : ~(y < x)
  BY <1>2 DEF OpToRel
<1> QED
  BY <1>3

LEMMA SmallestIsLeast ==
  ASSUME NEW S \in SUBSET Nat, S # {}
  PROVE  Smallest(S) \in S /\ \A y \in S : Smallest(S) <= y
BY LeastElement DEF Smallest

-------------------------------------------------------------------------------
(* Sums over finite sets, which the community modules define by recursion. *)

Total(w, S) == MapThenSumSet(LAMBDA x : w[x], S)

AddUp(g, w, s) == IF s = {} THEN 0 ELSE LET x == CHOOSE x \in s : TRUE IN w[x] + g[s \ {x}]

IsSum(g, w, S) == g = [s \in SUBSET S |-> AddUp(g, w, s)]

(* What is left of a set that is not empty, without the chosen element.    *)
LEMMA OneLess ==
  ASSUME NEW S, IsFiniteSet(S), NEW s \in SUBSET S, NEW x \in s
  PROVE  /\ s \ {x} \in SUBSET S
         /\ Cardinality(s) \in Nat \ {0}
         /\ Cardinality(s \ {x}) = Cardinality(s) - 1
<1>1. IsFiniteSet(s) /\ Cardinality(s) \in Nat
  BY FS_Subset, FS_CardinalityType
<1>2. Cardinality(s \ {x}) = Cardinality(s) - 1 /\ IsFiniteSet(s \ {x})
  BY <1>1, FS_RemoveElement
<1>3. Cardinality(s \ {x}) \in Nat
  BY <1>2, FS_CardinalityType
<1> QED
  BY <1>1, <1>2, <1>3

LEMMA NothingLess ==
  ASSUME NEW S, IsFiniteSet(S), NEW s \in SUBSET S
  PROVE  /\ IsFiniteSet(s) /\ Cardinality(s) \in Nat
         /\ Cardinality(s) <= Cardinality(S) /\ Cardinality(S) \in Nat
         /\ Cardinality(s) = 0 <=> s = {}
BY FS_Subset, FS_CardinalityType, FS_EmptySet

(* The recursion has a solution: for the subsets of at most n elements it  *)
(* follows from one for fewer.                                             *)
LEMMA SumExists ==
  ASSUME NEW S, IsFiniteSet(S), NEW w
  PROVE  \E g : IsSum(g, w, S)
<1> DEFINE Part(n) == {s \in SUBSET S : Cardinality(s) <= n}
           Solved(n) == \E g : g = [s \in Part(n) |-> AddUp(g, w, s)]
           Bad == {n \in Nat : ~Solved(n)}
<1>1. Bad = {}
  <2> SUFFICES ASSUME Bad # {} PROVE FALSE
    OBVIOUS
  <2>1. Bad \in SUBSET Nat
    OBVIOUS
  <2> HIDE DEF Bad
  <2>2. PICK n \in Bad : \A m \in Bad : n <= m
    BY <2>1, LeastElement
  <2> USE DEF Bad
  <2>3. n \in Nat /\ ~Solved(n)
    BY <2>2
  <2>4. CASE n = 0
    <3> DEFINE h == [s \in Part(0) |-> 0]
    <3>1. \A s \in Part(0) : s = {}
      BY NothingLess
    <3>2. h = [s \in Part(0) |-> AddUp(h, w, s)]
      BY <3>1 DEF AddUp
    <3> QED
      BY <2>3, <2>4, <3>2
  <2>5. CASE n > 0
    <3>1. n - 1 \in Nat /\ n - 1 \notin Bad
      <4> HIDE DEF Bad
      <4> QED
        BY <2>2, <2>3, <2>5
    <3>2. PICK g : g = [s \in Part(n - 1) |-> AddUp(g, w, s)]
      BY <3>1
    <3> DEFINE h == [s \in Part(n) |-> AddUp(g, w, s)]
    <3>3. \A s \in Part(n - 1) : s \in Part(n) /\ h[s] = g[s]
      <4>1. SUFFICES ASSUME NEW s \in Part(n - 1) PROVE s \in Part(n) /\ h[s] = g[s]
        OBVIOUS
      <4>2. s \in Part(n)
        BY <2>3, NothingLess
      <4>3. g[s] = AddUp(g, w, s)
        BY <3>2
      <4> QED
        BY <4>2, <4>3
    <3>4. \A s \in Part(n) : s # {} => s \ {CHOOSE x \in s : TRUE} \in Part(n - 1)
      <4>1. SUFFICES ASSUME NEW s \in Part(n), s # {}, NEW x \in s PROVE s \ {x} \in Part(n - 1)
        OBVIOUS
      <4>2. Cardinality(s) \in Nat /\ Cardinality(s \ {x}) = Cardinality(s) - 1 /\ s \ {x} \in SUBSET S
        BY OneLess
      <4> QED
        BY <2>3, <4>2
    <3>5. \A s \in Part(n) : AddUp(g, w, s) = AddUp(h, w, s)
      <4> SUFFICES ASSUME NEW s \in Part(n), s # {} PROVE AddUp(g, w, s) = AddUp(h, w, s)
        BY DEF AddUp
      <4>1. h[s \ {CHOOSE x \in s : TRUE}] = g[s \ {CHOOSE x \in s : TRUE}]
        BY <3>3, <3>4
      <4> HIDE DEF h
      <4> QED
        BY <4>1 DEF AddUp
    <3>6. h = [s \in Part(n) |-> AddUp(h, w, s)]
      BY <3>5
    <3> QED
      BY <2>3, <3>6
  <2> QED
    BY <2>3, <2>4, <2>5
<1>2. Cardinality(S) \in Nat /\ Part(Cardinality(S)) = SUBSET S
  BY NothingLess
<1>3. Solved(Cardinality(S))
  BY <1>1, <1>2
<1> QED
  BY <1>2, <1>3 DEF IsSum

(* Of two solutions the one for the smaller set is part of the other.      *)
LEMMA SumIsUnique ==
  ASSUME NEW S, IsFiniteSet(S), NEW T \in SUBSET S, NEW w, NEW g, NEW h,
         IsSum(g, w, S), IsSum(h, w, T)
  PROVE  \A s \in SUBSET T : g[s] = h[s]
<1> DEFINE Bad == {n \in Nat : \E s \in SUBSET T : Cardinality(s) = n /\ g[s] # h[s]}
<1>1. Bad = {}
  <2> SUFFICES ASSUME Bad # {} PROVE FALSE
    OBVIOUS
  <2>1. Bad \in SUBSET Nat
    OBVIOUS
  <2> HIDE DEF Bad
  <2>2. PICK n \in Bad : \A m \in Bad : n <= m
    BY <2>1, LeastElement
  <2> USE DEF Bad
  <2>3. PICK s \in SUBSET T : n \in Nat /\ Cardinality(s) = n /\ g[s] # h[s]
    BY <2>2
  <2>4. s \in SUBSET S /\ g[s] = AddUp(g, w, s) /\ h[s] = AddUp(h, w, s)
    BY DEF IsSum
  <2>5. s # {}
    BY <2>3, <2>4 DEF AddUp
  <2>6. PICK x \in s : x = CHOOSE y \in s : TRUE
    BY <2>5
  <2>7. n > 0 /\ Cardinality(s \ {x}) = n - 1 /\ s \ {x} \in SUBSET T
    BY <2>3, <2>4, OneLess
  <2>8. g[s \ {x}] = h[s \ {x}]
    <3>1. n - 1 \in Nat /\ n - 1 \notin Bad
      BY <2>2, <2>3, <2>7
    <3> QED
      BY <2>7, <3>1
  <2> QED
    BY <2>3, <2>4, <2>6, <2>8 DEF AddUp
<1> QED
  BY <1>1, NothingLess

LEMMA TotalIsSum ==
  ASSUME NEW S, IsFiniteSet(S), NEW T \in SUBSET S, NEW w, NEW g, IsSum(g, w, S)
  PROVE  Total(w, T) = g[T]
<1>1. IsFiniteSet(T)
  BY FS_Subset
<1>2. \E h : IsSum(h, w, T)
  BY <1>1, SumExists
<1> DEFINE h == CHOOSE h : IsSum(h, w, T)
<1>3. IsSum(h, w, T)
  BY <1>2
<1>4. Total(w, T) = h[T]
  BY DEF Total, MapThenSumSet, MapThenFoldSet, IsSum, AddUp
<1> QED
  BY <1>3, <1>4, SumIsUnique

LEMMA TotalStep ==
  ASSUME NEW S, IsFiniteSet(S), NEW w
  PROVE  Total(w, S) = IF S = {} THEN 0
                       ELSE LET x == CHOOSE x \in S : TRUE IN w[x] + Total(w, S \ {x})
<1>1. PICK g : IsSum(g, w, S)
  BY SumExists
<1>2. Total(w, S) = AddUp(g, w, S)
  <2>1. Total(w, S) = g[S]
    BY <1>1, TotalIsSum
  <2> QED
    BY <1>1, <2>1 DEF IsSum
<1>3. \A x \in S : Total(w, S \ {x}) = g[S \ {x}]
  <2>1. SUFFICES ASSUME NEW x \in S PROVE Total(w, S \ {x}) = g[S \ {x}]
    OBVIOUS
  <2>2. S \ {x} \in SUBSET S
    OBVIOUS
  <2> QED
    BY <1>1, <2>2, TotalIsSum
<1> QED
  BY <1>2, <1>3 DEF AddUp

LEMMA TotalType ==
  ASSUME NEW D, NEW w \in [D -> Nat], NEW S \in SUBSET D, IsFiniteSet(S)
  PROVE  Total(w, S) \in Nat
<1> DEFINE Bad == {n \in Nat : \E s \in SUBSET S : Cardinality(s) = n /\ Total(w, s) \notin Nat}
<1>1. Bad = {}
  <2> SUFFICES ASSUME Bad # {} PROVE FALSE
    OBVIOUS
  <2>1. Bad \in SUBSET Nat
    OBVIOUS
  <2> HIDE DEF Bad
  <2>2. PICK n \in Bad : \A m \in Bad : n <= m
    BY <2>1, LeastElement
  <2> USE DEF Bad
  <2>3. PICK s \in SUBSET S : n \in Nat /\ Cardinality(s) = n /\ Total(w, s) \notin Nat
    BY <2>2
  <2>4. Total(w, s) = IF s = {} THEN 0
                      ELSE LET x == CHOOSE x \in s : TRUE IN w[x] + Total(w, s \ {x})
    BY TotalStep, NothingLess
  <2>5. PICK x \in s : Total(w, s) = w[x] + Total(w, s \ {x})
    <3>1. s # {}
      BY <2>3, <2>4
    <3> HIDE DEF Bad
    <3> QED
      BY <2>4, <3>1
  <2>6. n > 0 /\ Cardinality(s \ {x}) = n - 1 /\ s \ {x} \in SUBSET S
    BY <2>3, OneLess
  <2>7. n - 1 \in Nat /\ n - 1 \notin Bad
    BY <2>2, <2>3, <2>6
  <2>8. Total(w, s \ {x}) \in Nat
    BY <2>6, <2>7
  <2> QED
    BY <2>3, <2>5, <2>8
<1> QED
  BY <1>1, NothingLess

(* Any element may be taken out first.                                     *)
LEMMA TotalWithout ==
  ASSUME NEW D, NEW w \in [D -> Nat], NEW S \in SUBSET D, IsFiniteSet(S), NEW e \in S
  PROVE  Total(w, S) = w[e] + Total(w, S \ {e})
<1> DEFINE Wrong(s, y) == Total(w, s) # w[y] + Total(w, s \ {y})
           Bad == {n \in Nat : \E s \in SUBSET S : Cardinality(s) = n /\ \E y \in s : Wrong(s, y)}
<1>1. Bad = {}
  <2> SUFFICES ASSUME Bad # {} PROVE FALSE
    OBVIOUS
  <2>1. Bad \in SUBSET Nat
    OBVIOUS
  <2> HIDE DEF Bad
  <2>2. PICK n \in Bad : \A m \in Bad : n <= m
    BY <2>1, LeastElement
  <2> USE DEF Bad
  <2>3. PICK s \in SUBSET S : n \in Nat /\ Cardinality(s) = n /\ \E y \in s : Wrong(s, y)
    BY <2>2
  <2>4. PICK y \in s : Wrong(s, y)
    BY <2>3
  <2>5. Total(w, s) = IF s = {} THEN 0
                      ELSE LET x == CHOOSE x \in s : TRUE IN w[x] + Total(w, s \ {x})
    BY TotalStep, NothingLess
  <2>6. PICK x \in s : Total(w, s) = w[x] + Total(w, s \ {x})
    BY <2>4, <2>5
  <2>7. x # y
    BY <2>4, <2>6
  <2>8. /\ n > 0 /\ n - 1 \in Nat
        /\ Cardinality(s \ {x}) = n - 1 /\ s \ {x} \in SUBSET S
        /\ Cardinality(s \ {y}) = n - 1 /\ s \ {y} \in SUBSET S
    BY <2>3, OneLess
  <2>9. n - 1 \notin Bad
    <3> HIDE DEF Bad
    <3> QED
      BY <2>2, <2>3, <2>8
  <2>10. ~Wrong(s \ {x}, y) /\ ~Wrong(s \ {y}, x)
    <3>1. y \in s \ {x} /\ x \in s \ {y}
      BY <2>7
    <3> HIDE DEF Wrong
    <3> QED
      BY <2>8, <2>9, <3>1
  <2>11. (s \ {x}) \ {y} = (s \ {y}) \ {x} /\ (s \ {x}) \ {y} \in SUBSET S
    OBVIOUS
  <2>12. /\ Total(w, (s \ {x}) \ {y}) \in Nat
         /\ w[x] \in Nat /\ w[y] \in Nat
    <3>1. (s \ {x}) \ {y} \in SUBSET D /\ IsFiniteSet((s \ {x}) \ {y})
      BY <2>11, NothingLess
    <3> QED
      BY <3>1, TotalType
  <2>13. Total(w, s) = w[x] + (w[y] + Total(w, (s \ {x}) \ {y}))
    BY <2>6, <2>10
  <2>14. w[y] + Total(w, s \ {y}) = w[y] + (w[x] + Total(w, (s \ {x}) \ {y}))
    BY <2>10, <2>11
  <2>15. Total(w, s) = w[y] + Total(w, s \ {y})
    BY <2>12, <2>13, <2>14
  <2> QED
    BY <2>4, <2>15
<1> QED
  <2>1. ~\E n \in Nat : Cardinality(S) = n /\ \E y \in S : Wrong(S, y)
    BY <1>1
  <2> QED
    BY <2>1, FS_CardinalityType

(* (An opaque name for an equation of sums, which the provers instantiate  *)
(* more easily.)                                                           *)
Adds(w, R, e, S) == Total(w, R) \in Nat /\ Total(w, S) = Total(w, R) + w[e]

LEMMA TotalWith ==
  ASSUME NEW D, NEW w \in [D -> Nat], NEW S \in SUBSET D, NEW R \in SUBSET D,
         IsFiniteSet(S), IsFiniteSet(R), NEW e \in S, R = S \ {e}
  PROVE  Adds(w, R, e, S)
<1>1. Total(w, R) \in Nat /\ w[e] \in Nat
  BY TotalType
<1>2. Total(w, S) = w[e] + Total(w, S \ {e})
  BY TotalWithout
<1> QED
  BY <1>1, <1>2 DEF Adds

(* The sum over the first k numbers and the k-th.                          *)
LEMMA TotalUpTo ==
  ASSUME NEW n \in Nat, NEW w \in [1 .. n -> Nat], NEW k \in 1 .. n
  PROVE  /\ Total(w, 1 .. k - 1) \in Nat
         /\ Total(w, 1 .. k) = Total(w, 1 .. k - 1) + w[k]
<1>1. /\ 1 .. k - 1 \in SUBSET (1 .. n) /\ 1 .. k \in SUBSET (1 .. n)
      /\ k \in 1 .. k /\ 1 .. k - 1 = (1 .. k) \ {k}
  OBVIOUS
<1>2. IsFiniteSet(1 .. k) /\ IsFiniteSet(1 .. k - 1)
  BY FS_Interval
<1>3. Adds(w, 1 .. k - 1, k, 1 .. k)
  BY <1>1, <1>2, TotalWith
<1> QED
  BY <1>3 DEF Adds

LEMMA TotalGrows ==
  ASSUME NEW n \in Nat, NEW w \in [1 .. n -> Nat], NEW i \in 1 .. n, NEW j \in 1 .. n, i < j
  PROVE  Total(w, 1 .. i - 1) + w[i] <= Total(w, 1 .. j - 1)
<1> DEFINE Left(k) == Total(w, 1 .. k - 1)
           Bad == {k \in i + 1 .. n : ~(Left(i) + w[i] <= Left(k))}
<1>1. \A k \in 1 .. n : Left(k) \in Nat /\ Total(w, 1 .. k) = Left(k) + w[k] /\ w[k] \in Nat
  BY TotalUpTo
<1>2. \A k \in 1 .. n - 1 : Left(k + 1) = Left(k) + w[k]
  <2>1. SUFFICES ASSUME NEW k \in 1 .. n - 1 PROVE Left(k + 1) = Left(k) + w[k]
    OBVIOUS
  <2>2. k + 1 - 1 = k /\ k \in 1 .. n
    OBVIOUS
  <2> QED
    BY <1>1, <2>2
<1> HIDE DEF Left
<1>3. Bad = {}
  <2> SUFFICES ASSUME Bad # {} PROVE FALSE
    OBVIOUS
  <2>1. Bad \in SUBSET Nat
    OBVIOUS
  <2> HIDE DEF Bad
  <2>2. PICK k \in Bad : \A m \in Bad : k <= m
    BY <2>1, LeastElement
  <2>3. k \in i + 1 .. n /\ ~(Left(i) + w[i] <= Left(k))
    BY <2>2 DEF Bad
  <2>4. k - 1 \notin Bad /\ k - 1 \in 1 .. n - 1
    BY <2>1, <2>2, <2>3
  <2>5. Left(k) = Left(k - 1) + w[k - 1]
    <3>1. k - 1 + 1 = k
      BY <2>3
    <3> QED
      BY <1>2, <2>4, <3>1
  <2>6. k - 1 # i
    <3>1. Left(i) \in Nat /\ w[i] \in Nat
      BY <1>1
    <3> QED
      BY <2>3, <2>5, <3>1
  <2>7. Left(i) + w[i] <= Left(k - 1)
    <3>1. k - 1 \in i + 1 .. n
      BY <2>3, <2>6
    <3> QED
      BY <2>4, <3>1 DEF Bad
  <2>8. Left(i) \in Nat /\ w[i] \in Nat /\ Left(k - 1) \in Nat /\ w[k - 1] \in Nat
    BY <1>1, <2>4
  <2> QED
    BY <2>3, <2>5, <2>7, <2>8
<1>4. j \in i + 1 .. n /\ j \notin Bad
  BY <1>3
<1> QED
  BY <1>4 DEF Left

-------------------------------------------------------------------------------
(* Configuration.                                                          *)

LEMMA SettingFromALayer ==
  ASSUME NEW flags, NEW env, NEW file, NEW k \in LeafKeys, k \notin DOMAIN flags
  PROVE  LET v == Settings(flags, env, file)[k]
         IN  \/ v = Defaults[k]
             \/ k \in DOMAIN env /\ v = env[k]
             \/ k \in DOMAIN file /\ v = file[k]
<1>1. k \notin DOMAIN Known(flags)
  BY DEF Known
<1>2. CASE k \notin DOMAIN Values(flags, env, file)
  BY <1>2 DEF Settings
<1>3. CASE k \in DOMAIN Values(flags, env, file)
  <2>1. Settings(flags, env, file)[k] = Values(flags, env, file)[k]
    BY <1>3 DEF Settings
  <2>2. \/ k \in DOMAIN Known(env) /\ Values(flags, env, file)[k] = Known(env)[k]
        \/ k \in DOMAIN Known(file) /\ Values(flags, env, file)[k] = Known(file)[k]
    BY <1>1, <1>3 DEF Values, Overlay
  <2> QED
    BY <2>1, <2>2 DEF Known
<1> QED
  BY <1>2, <1>3

LEMMA DefaultsTyped ==
  /\ {"size", "steps", "serve.bind"} \subseteq LeafKeys
  /\ Defaults["size"] = <<1024, 1024>>
  /\ Defaults["steps"] = 40
  /\ Defaults["serve.bind"] = "none"
BY DEF LeafKeys, Defaults

LEMMA OrElseTyped ==
  ASSUME NEW T, NEW option \in SUBSET T, NEW default \in T
  PROVE  OrElse(option, default) \in T
BY DEF OrElse

-------------------------------------------------------------------------------
(* Sizes.                                                                  *)

(* The two sizes named to a user who asked for an impossible one: they are  *)
(* possible, and no possible one is nearer on their side.                  *)
LEMMA NearestAreNear ==
  ASSUME NEW size \in Int \X Int, NEW near \in Nearest(size), NEW d \in 1 .. 2
  PROVE  /\ ValidSide(near[d])
         /\ \A other \in MinSize .. MaxSize : ValidSide(other) =>
              ~(size[d] < other /\ other < near[d]) /\ ~(near[d] < other /\ other < size[d])
<1>1. \A e \in Int : \A n \in {Lower(e), Upper(e)} :
        /\ ValidSide(n)
        /\ \A other \in MinSize .. MaxSize : ValidSide(other) =>
             ~(e < other /\ other < n) /\ ~(n < other /\ other < e)
  <2>1. \A e \in Int : LET n == Lower(e) IN
          /\ ValidSide(n)
          /\ \A other \in MinSize .. MaxSize : ValidSide(other) =>
               ~(e < other /\ other < n) /\ ~(n < other /\ other < e)
    BY DEF Lower, Clamp, ValidSide, SizeStep, MinSize, MaxSize
  <2>2. \A e \in Int : LET n == Upper(e) IN
          /\ ValidSide(n)
          /\ \A other \in MinSize .. MaxSize : ValidSide(other) =>
               ~(e < other /\ other < n) /\ ~(n < other /\ other < e)
    BY DEF Upper, Clamp, ValidSide, SizeStep, MinSize, MaxSize
  <2> QED
    BY <2>1, <2>2
<1>2. size[d] \in Int /\ near[d] \in {Lower(size[d]), Upper(size[d])}
  BY DEF Nearest
<1> QED
  BY <1>1, <1>2

LEMMA SidesTyped == \A d \in Int : Lower(d) \in Int
BY DEF Lower, Clamp, SizeStep, MinSize, MaxSize

-------------------------------------------------------------------------------
(* Arithmetic.                                                             *)

LEMMA Product == \A a, b \in Nat : a * b \in Nat
<1>1. SUFFICES ASSUME NEW a \in Nat, NEW b \in Nat PROVE a * b \in Nat
  OBVIOUS
<1> QED
  OBVIOUS

LEMMA Quotient ==
  ASSUME NEW a \in Nat, NEW b \in Nat \ {0}
  PROVE  a \div b \in Nat /\ a % b \in Nat /\ a = b * (a \div b) + (a % b)
OBVIOUS

-------------------------------------------------------------------------------
(* Memory.                                                                 *)

LEMMA RegistryIsFinite ==
  /\ IsFiniteSet(Artifacts)
  /\ \A a \in Artifacts : a.mib \in Nat
<1> DEFINE D == DOMAIN Registry.artifacts
           f == [i \in D |-> Registry.artifacts[i]]
<1>1. D = 1 .. 6
  BY DEF Registry
<1>2. IsFiniteSet(D)
  <2>1. \A n \in Nat : IsFiniteSet(1 .. n)
    BY FS_Interval
  <2> HIDE DEF D
  <2> QED
    BY <1>1, <2>1
<1>3. f \in Surjection(D, Artifacts)
  BY DEF Surjection, Artifacts, ToSet
<1>4. IsFiniteSet(Artifacts)
  <2> HIDE DEF D, f
  <2> QED
    BY <1>2, <1>3, FS_Surjection
<1>5. \A i \in 1 .. 6 : Registry.artifacts[i].mib \in Nat
  BY DEF Registry
<1>6. \A a \in Artifacts : \E i \in 1 .. 6 : a = Registry.artifacts[i]
  BY <1>1 DEF Artifacts, ToSet
<1> QED
  BY <1>4, <1>5, <1>6

LEMMA RegistryIsSound == RegistryLoads
<1>1. \A i, j \in DOMAIN Registry.artifacts :
        Registry.artifacts[i].name = Registry.artifacts[j].name => i = j
  BY DEF Registry
<1>2. \A s \in ToSet(Registry.sets) : ToSet(s.artifacts) \subseteq {a.name : a \in Artifacts}
  BY DEF Registry, Artifacts, ToSet
<1> QED
  BY <1>1, <1>2 DEF RegistryLoads

(* The weights of an engine: a set of artifacts, and their sum is a number. *)
LEMMA WeightsTyped ==
  ASSUME NEW engine, NEW platform
  PROVE  SetFor(engine, platform) \subseteq Artifacts
<1> DEFINE sets == PlatformSets(engine, platform)
           chosen == Registry.sets[Smallest(sets)]
<1>1. SUFFICES ASSUME sets # {}
               PROVE  {Get(name) : name \in ToSet(chosen.artifacts)} \subseteq Artifacts
  BY DEF SetFor
<1>2. DOMAIN Registry.sets = 1 .. 3
  BY DEF Registry
<1>3. Smallest(sets) \in DOMAIN Registry.sets
  <2>1. sets \in SUBSET Nat /\ sets \subseteq DOMAIN Registry.sets
    BY <1>2 DEF PlatformSets
  <2> HIDE DEF sets
  <2> QED
    BY <1>1, <2>1, SmallestIsLeast
<1>4. chosen \in ToSet(Registry.sets)
  <2> HIDE DEF sets
  <2> QED
    BY <1>3 DEF ToSet
<1> HIDE DEF chosen
<1>5. ToSet(chosen.artifacts) \subseteq {a.name : a \in Artifacts}
  BY <1>4, RegistryIsSound DEF RegistryLoads
<1>6. \A name \in ToSet(chosen.artifacts) : Get(name) \in Artifacts
  BY <1>5 DEF Get
<1> QED
  BY <1>6

LEMMA SumOfWeights ==
  ASSUME NEW loaded \in SUBSET Artifacts
  PROVE  MapThenSumSet(LAMBDA a : a.mib, loaded) \in Nat
<1> DEFINE w == [a \in loaded |-> a.mib]
           h == CHOOSE h : h = [s \in SUBSET loaded |->
                                  IF s = {} THEN 0
                                  ELSE LET x == CHOOSE x \in s : TRUE IN x.mib + h[s \ {x}]]
<1>1. IsFiniteSet(loaded) /\ w \in [loaded -> Nat]
  BY RegistryIsFinite, FS_Subset
<1>2. \A g : \A s \in SUBSET loaded :
        AddUp(g, w, s) = IF s = {} THEN 0
                         ELSE LET x == CHOOSE x \in s : TRUE IN x.mib + g[s \ {x}]
  BY DEF AddUp
<1>3. \A g : IsSum(g, w, loaded) <=>
        g = [s \in SUBSET loaded |->
               IF s = {} THEN 0 ELSE LET x == CHOOSE x \in s : TRUE IN x.mib + g[s \ {x}]]
  BY <1>2 DEF IsSum
<1>4. IsSum(h, w, loaded)
  <2>1. \E g : IsSum(g, w, loaded)
    BY <1>1, SumExists
  <2> HIDE DEF w
  <2> QED
    BY <1>3, <2>1
<1>5. h[loaded] \in Nat
  <2> HIDE DEF h, w
  <2> QED
    BY <1>1, <1>4, TotalIsSum, TotalType
<1>6. MapThenSumSet(LAMBDA a : a.mib, loaded) = h[loaded]
  BY DEF MapThenSumSet, MapThenFoldSet
<1> QED
  BY <1>5, <1>6

(* Sizes are multiples of 32, so that more pixels are more tiles of 32x32. *)
LEMMA TilesOfASide ==
  ASSUME NEW d, ValidSide(d)
  PROVE  d \in Nat /\ d \div SizeStep \in Nat /\ d = 32 * (d \div SizeStep)
BY DEF ValidSide, SizeStep, MinSize, MaxSize

(* What an image takes grows with its area.                                *)
LEMMA PeakGrows ==
  ASSUME NEW engine \in {"sdcpp", "ncnn"}, NEW platform, NEW edit \in BOOLEAN,
         NEW a, NEW b, ValidSize(a), ValidSize(b), a[1] * a[2] <= b[1] * b[2]
  PROVE  /\ PeakMemory(engine, platform, a, edit) \in Int
         /\ PeakMemory(engine, platform, b, edit) \in Int
         /\ PeakMemory(engine, platform, a, edit) <= PeakMemory(engine, platform, b, edit)
<1> DEFINE loaded == {x \in SetFor(engine, platform) : edit \/ x.role # "mmproj"}
           weights == MapThenSumSet(LAMBDA x : x.mib, loaded)
           factor == Registry.memory[engine].factor
           base == (weights * factor) \div 100
           x == a[1] \div SizeStep
           y == a[2] \div SizeStep
           u == b[1] \div SizeStep
           v == b[2] \div SizeStep
<1>1. weights \in Nat
  BY WeightsTyped, SumOfWeights
<1>2. factor \in {95, 100} /\ Registry.memory[engine].perPixel = 3400
  BY DEF Registry
<1>3. /\ PeakMemory(engine, platform, a, edit) = base + (3400 * x * y) \div 1024
      /\ PeakMemory(engine, platform, b, edit) = base + (3400 * u * v) \div 1024
  BY <1>2 DEF PeakMemory
<1>4. base \in Nat
  <2> HIDE DEF weights, factor
  <2>1. weights * factor \in Nat
    BY <1>1, <1>2
  <2> QED
    BY <2>1
<1>5. /\ x \in Nat /\ y \in Nat /\ u \in Nat /\ v \in Nat
      /\ a[1] = 32 * x /\ a[2] = 32 * y /\ b[1] = 32 * u /\ b[2] = 32 * v
  BY TilesOfASide DEF ValidSize
<1> HIDE DEF base, x, y, u, v
<1>6. x * y \in Nat /\ u * v \in Nat
  BY <1>5, Product, Zenon
<1>7. x * y <= u * v
  <2>1. (32 * x) * (32 * y) = 1024 * (x * y) /\ (32 * u) * (32 * v) = 1024 * (u * v)
    BY <1>5
  <2>2. 1024 * (x * y) <= 1024 * (u * v)
    BY <1>5, <2>1
  <2> QED
    BY <1>6, <2>2
<1>8. 3400 * x * y = 3400 * (x * y) /\ 3400 * u * v = 3400 * (u * v)
  BY <1>5
<1>9. (3400 * (x * y)) \div 1024 <= (3400 * (u * v)) \div 1024
  BY <1>6, <1>7
<1>10. (3400 * (x * y)) \div 1024 \in Int /\ (3400 * (u * v)) \div 1024 \in Int
  BY <1>6
<1> QED
  BY <1>3, <1>4, <1>8, <1>9, <1>10

-------------------------------------------------------------------------------
(* The contact sheet.                                                      *)

(* Where tile i of a row begins and what it is wide, for any widths.       *)
LEMMA RowIsSpread ==
  ASSUME NEW sizes \in Seq((Nat \ {0}) \X (Nat \ {0})), NEW i \in DOMAIN sizes, NEW j \in DOMAIN sizes,
         i < j
  PROVE  Row(sizes)[i].at[1] + Row(sizes)[i].tile[1] <= Row(sizes)[j].at[1]
<1> DEFINE D == 1 .. Len(sizes)
           heights == {TilePx} \cup {sizes[k][2] : k \in DOMAIN sizes}
           height == Smallest(heights)
           width == [k \in DOMAIN sizes |->
                       (2 * sizes[k][1] * height + sizes[k][2]) \div (2 * sizes[k][2])]
<1>1. DOMAIN sizes = D /\ Len(sizes) \in Nat
  OBVIOUS
<1>2. \A k \in D : sizes[k][1] \in Nat \ {0} /\ sizes[k][2] \in Nat \ {0}
  <2>1. \A k \in D : sizes[k] \in (Nat \ {0}) \X (Nat \ {0})
    OBVIOUS
  <2> QED
    BY <2>1
<1>3. height \in Nat
  <2>1. heights \in SUBSET Nat /\ heights # {}
    BY <1>1, <1>2 DEF TilePx
  <2> HIDE DEF heights
  <2> QED
    BY <2>1, SmallestIsLeast
<1>4. Row(sizes) = [k \in D |-> [at |-> <<Total(width, 1 .. k - 1), 0>>, tile |-> <<width[k], height>>]]
  BY <1>1 DEF Row, Total
<1> HIDE DEF height
<1>5. width \in [D -> Nat]
  <2>1. SUFFICES ASSUME NEW k \in D
                 PROVE  (2 * sizes[k][1] * height + sizes[k][2]) \div (2 * sizes[k][2]) \in Nat
    BY <1>1
  <2> DEFINE x == sizes[k][1]
             y == sizes[k][2]
  <2>2. x \in Nat /\ y \in Nat \ {0}
    BY <1>2
  <2> HIDE DEF x, y
  <2>3. 2 * x * height + y \in Nat /\ 2 * y \in Nat \ {0}
    <3>1. 2 * x \in Nat
      BY <2>2
    <3>2. 2 * x * height \in Nat
      BY <1>3, <3>1, Product
    <3> QED
      BY <2>2, <3>2
  <2>4. (2 * x * height + y) \div (2 * y) \in Nat
    BY <2>3, Quotient
  <2> QED
    BY <2>4 DEF x, y
<1> HIDE DEF width
<1>6. Total(width, 1 .. i - 1) + width[i] <= Total(width, 1 .. j - 1)
  BY <1>1, <1>5, TotalGrows
<1> QED
  BY <1>1, <1>4, <1>6

(* A row of cells before another one, and a column before another one.     *)
LEMMA CellsBefore ==
  ASSUME NEW a \in Nat, NEW b \in Nat, NEW c \in Nat, a < b
  PROVE  a * c + c <= b * c
<1>1. PICK k \in Nat : b = a + 1 + k
  <2>1. b - a - 1 \in Nat /\ b = a + 1 + (b - a - 1)
    OBVIOUS
  <2> QED
    BY <2>1
<1>2. b * c = a * c + c + k * c
  BY <1>1
<1>3. k * c \in Nat /\ a * c \in Nat
  OBVIOUS
<1> QED
  BY <1>2, <1>3

LEMMA CellsApart ==
  ASSUME NEW a \in Nat, NEW b \in Nat, NEW c \in Nat, a # b
  PROVE  a * c + c <= b * c \/ b * c + c <= a * c
<1>1. CASE a < b
  BY <1>1, CellsBefore
<1>2. CASE b < a
  BY <1>2, CellsBefore
<1> QED
  BY <1>1, <1>2

(* A place in the grid is the column and the row it is in.                 *)
LEMMA PlacesDiffer ==
  ASSUME NEW i \in Nat, NEW j \in Nat, NEW n \in Nat \ {0},
         i % n = j % n, i \div n = j \div n
  PROVE  i = j
<1>1. i = n * (i \div n) + (i % n) /\ j = n * (j \div n) + (j % n)
  BY Quotient
<1> QED
  BY <1>1

LEMMA ColumnsType == ASSUME NEW n \in Nat \ {0} PROVE Columns(n) \in 1 .. n
<1> DEFINE C == {c \in 1 .. n : c * c >= n}
<1>1. n * n >= n
  BY CellsBefore
<1>2. C \in SUBSET Nat /\ n \in C
  BY <1>1
<1>3. Smallest(C) \in C
  <2> HIDE DEF C
  <2> QED
    BY <1>2, SmallestIsLeast
<1> QED
  BY <1>3 DEF Columns

LEMMA GridIsSpread ==
  ASSUME NEW sizes \in Seq((Nat \ {0}) \X (Nat \ {0})), NEW i \in DOMAIN sizes, NEW j \in DOMAIN sizes,
         i # j
  PROVE  \E d \in 1 .. 2 :
           LET a == Grid(sizes)[i]
               b == Grid(sizes)[j]
           IN  a.at[d] + a.tile[d] <= b.at[d] \/ b.at[d] + b.tile[d] <= a.at[d]
<1> DEFINE longEdge == Largest({sizes[1][1], sizes[1][2]})
           Scaled(d) == IF longEdge <= TilePx THEN d ELSE (d * TilePx) \div longEdge
           w == Scaled(sizes[1][1])
           h == Scaled(sizes[1][2])
           n == Columns(Len(sizes))
<1>1. DOMAIN sizes = 1 .. Len(sizes) /\ Len(sizes) \in Nat \ {0} /\ 1 \in DOMAIN sizes
  OBVIOUS
<1>2. Grid(sizes) = [k \in DOMAIN sizes |->
                       [at |-> <<((k - 1) % n) * w, ((k - 1) \div n) * h>>, tile |-> <<w, h>>]]
  BY DEF Grid
<1>3. w \in Nat /\ h \in Nat
  <2> DEFINE x == sizes[1][1]
             y == sizes[1][2]
  <2>1. x \in Nat \ {0} /\ y \in Nat \ {0}
    <3>1. sizes[1] \in (Nat \ {0}) \X (Nat \ {0})
      BY <1>1
    <3> QED
      BY <3>1
  <2> HIDE DEF x, y
  <2>2. longEdge \in Nat \ {0}
    <3>1. longEdge = Largest({x, y})
      BY DEF x, y
    <3>2. Largest({x, y}) \in {x, y}
      <4>1. \E z \in {x, y} : \A v \in {x, y} : v <= z
        <5>1. CASE x <= y
          BY <2>1, <5>1
        <5>2. CASE y <= x
          BY <2>1, <5>2
        <5> QED
          BY <2>1, <5>1, <5>2
      <4> QED
        BY <4>1 DEF Largest
    <3> QED
      BY <2>1, <3>1, <3>2
  <2> HIDE DEF longEdge
  <2>3. \A d \in Nat : Scaled(d) \in Nat
    <3>1. SUFFICES ASSUME NEW d \in Nat PROVE (d * TilePx) \div longEdge \in Nat
      OBVIOUS
    <3>2. d * TilePx \in Nat
      BY DEF TilePx
    <3> QED
      BY <2>2, <3>2, Quotient
  <2> QED
    BY <2>1, <2>3 DEF x, y
<1>4. n \in Nat \ {0}
  BY <1>1, ColumnsType
<1> HIDE DEF w, h, n
<1>5. /\ i - 1 \in Nat /\ j - 1 \in Nat /\ i - 1 # j - 1
      /\ (i - 1) % n \in Nat /\ (i - 1) \div n \in Nat
      /\ (j - 1) % n \in Nat /\ (j - 1) \div n \in Nat
  <2>1. i - 1 \in Nat /\ j - 1 \in Nat /\ i - 1 # j - 1
    BY <1>1
  <2> QED
    BY <1>4, <2>1, Quotient
<1>6. \/ (i - 1) % n # (j - 1) % n
      \/ (i - 1) \div n # (j - 1) \div n
  BY <1>4, <1>5, PlacesDiffer
<1> DEFINE column(k) == (k - 1) % n
           row(k) == (k - 1) \div n
<1>7. /\ Grid(sizes)[i] = [at |-> <<column(i) * w, row(i) * h>>, tile |-> <<w, h>>]
      /\ Grid(sizes)[j] = [at |-> <<column(j) * w, row(j) * h>>, tile |-> <<w, h>>]
  BY <1>2
<1>8. CASE column(i) # column(j)
  <2>1. column(i) * w + w <= column(j) * w \/ column(j) * w + w <= column(i) * w
    BY <1>3, <1>5, <1>8, CellsApart
  <2> QED
    BY <1>7, <2>1
<1>9. CASE row(i) # row(j)
  <2>1. row(i) * h + h <= row(j) * h \/ row(j) * h + h <= row(i) * h
    BY <1>3, <1>5, <1>9, CellsApart
  <2> QED
    BY <1>7, <2>1
<1> QED
  BY <1>6, <1>8, <1>9

===============================================================================
