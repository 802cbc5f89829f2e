------------------------ MODULE QualificationProofs ------------------------
(***************************************************************************)
(* Types and the safety properties of Qualification, for any leads, staff,  *)
(* questions, points, versions and requests.                                *)
(*                                                                          *)
(* None of the properties is inductive.  That a routed lead goes to         *)
(* somebody active is known only from the rows its turn has locked          *)
(* (LockedAreActive), and from the choice being one of them, which needs a  *)
(* best candidate to exist (RoutedIsLocked).  That a request writes a whole *)
(* set is known from what it deleted when it got the project                *)
(* (ProjectsAreLocked).  That a qualified lead has gone through all the     *)
(* questions follows from what holds at each of them: those before it are   *)
(* answered or passed over (AskedSoFar), of a version that is never changed *)
(* (SessionsKeepTheirVersion), and one answer keeps that (AnswerCovers).    *)
(*                                                                          *)
(* A score is the result of a recursive definition.  That it is a number is *)
(* proved by induction over the questions, from the well-founded order of   *)
(* the numbers.                                                             *)
(***************************************************************************)
EXTENDS Qualification, FiniteSetTheorems, WellFoundedInduction, TLAPS

(* Two ways to induction that need no operator: the least element of a set of *)
(* numbers, and a set of numbers that each number hands on to the next.       *)

LEMMA LeastNumber ==
  ASSUME NEW S, S \subseteq Nat, S # {}
  PROVE  \E n \in S : \A m \in S : n <= m
<1> DEFINE less == OpToRel(<, Nat)
<1>1. less = {ss \in Nat \X Nat : ss[1] < ss[2]}
  BY DEF OpToRel
<1>2. IsWellFoundedOn(less, Nat)
  BY NatLessThanWellFounded
<1> HIDE DEF less
<1>3. PICK x \in S : \A y \in S : ~(<<y, x>> \in less)
  BY <1>2, WFMin
<1>4. ASSUME NEW m \in S
      PROVE  x <= m
  <2>1. <<m, x>> \notin less /\ <<m, x>> \in Nat \X Nat
    BY <1>3
  <2>2. ~(m < x)
    BY <1>1, <2>1
  <2> QED
    BY <2>2
<1> QED
  BY <1>4

LEMMA Induction ==
  ASSUME NEW S, 0 \in S, \A n \in Nat : n \in S => n + 1 \in S
  PROVE  Nat \subseteq S
<1> SUFFICES ASSUME Nat \ S # {}
             PROVE  FALSE
  OBVIOUS
<1>1. PICK n \in Nat \ S : \A m \in Nat \ S : n <= m
  BY LeastNumber
<1>2. n - 1 \in Nat /\ ~(n <= n - 1)
  BY <1>1
<1>3. n - 1 \in S
  BY <1>1, <1>2
<1> QED
  BY <1>1, <1>2, <1>3

-----------------------------------------------------------------------------
(* The sum of the points. *)

\* One step of the sum over the subset s of the questions that were answered, when f
\* is the sum over smaller ones.
Added(f, given, s) == f[s \ {CHOOSE x \in s : TRUE}] + given[CHOOSE x \in s : TRUE]

IsSum(f, given, D) ==
  \A s \in SUBSET D : f[s] = IF s = {} THEN 0 ELSE Added(f, given, s)

\* The sum over the subsets of D is a function: it is built up from those with at
\* most n elements.
LEMMA SumExists ==
  ASSUME NEW D, IsFiniteSet(D), NEW given \in [D -> Nat]
  PROVE  \E f \in [SUBSET D -> Nat] : IsSum(f, given, D)
<1> DEFINE Upto(n) == {s \in SUBSET D : Cardinality(s) <= n}
           Sums(n) == {f \in [Upto(n) -> Nat] :
                         \A s \in Upto(n) : f[s] = IF s = {} THEN 0 ELSE Added(f, given, s)}
           S == {n \in Nat : Sums(n) # {}}
<1>1. \A s \in SUBSET D : Cardinality(s) \in Nat /\ (s = {} <=> Cardinality(s) = 0)
  BY FS_Subset, FS_CardinalityType, FS_EmptySet
<1>2. \A s \in SUBSET D : s # {} =>
        Cardinality(s \ {CHOOSE x \in s : TRUE}) = Cardinality(s) - 1
  <2> SUFFICES ASSUME NEW s \in SUBSET D, s # {}
               PROVE  Cardinality(s \ {CHOOSE x \in s : TRUE}) = Cardinality(s) - 1
    OBVIOUS
  <2>1. IsFiniteSet(s) /\ (CHOOSE x \in s : TRUE) \in s
    BY FS_Subset
  <2> QED
    BY <2>1, FS_RemoveElement
<1>3. 0 \in S
  <2> DEFINE f == [s \in Upto(0) |-> 0]
  <2>1. \A s \in Upto(0) : s = {}
    <3> TAKE s \in Upto(0)
    <3>1. s \in SUBSET D /\ Cardinality(s) <= 0
      OBVIOUS
    <3>2. Cardinality(s) = 0
      BY <1>1, <3>1
    <3> QED
      BY <1>1, <3>1, <3>2
  <2>2. f \in Sums(0)
    BY <2>1
  <2> QED
    BY <2>2
<1>4. ASSUME NEW n \in Nat, n \in S
      PROVE  n + 1 \in S
  <2>1. PICK f \in Sums(n) : TRUE
    BY <1>4
  <2> DEFINE g == [s \in Upto(n + 1) |-> IF s = {} THEN 0 ELSE Added(f, given, s)]
  <2>2. \A s \in Upto(n + 1) : s # {} => s \ {CHOOSE x \in s : TRUE} \in Upto(n)
    <3> SUFFICES ASSUME NEW s \in Upto(n + 1), s # {}
                 PROVE  s \ {CHOOSE x \in s : TRUE} \in Upto(n)
      OBVIOUS
    <3>1. s \in SUBSET D /\ Cardinality(s) <= n + 1
      OBVIOUS
    <3>2. /\ s \ {CHOOSE x \in s : TRUE} \in SUBSET D
          /\ Cardinality(s) \in Nat
          /\ Cardinality(s \ {CHOOSE x \in s : TRUE}) = Cardinality(s) - 1
      BY <1>2, <1>1, <3>1
    <3>3. Cardinality(s \ {CHOOSE x \in s : TRUE}) <= n
      BY <3>1, <3>2
    <3> QED
      BY <3>2, <3>3
  <2>3. Upto(n) \subseteq Upto(n + 1)
    BY <1>1
  <2>4. \A s \in Upto(n) : g[s] = f[s]
    BY <2>1, <2>3
  <2>5. ASSUME NEW s \in Upto(n + 1)
        PROVE  /\ g[s] \in Nat
               /\ g[s] = IF s = {} THEN 0 ELSE Added(g, given, s)
    <3>1. CASE s = {}
      BY <3>1
    <3>2. CASE s # {}
      <4> DEFINE x == CHOOSE x \in s : TRUE
      <4>1. s \ {x} \in Upto(n) /\ given[x] \in Nat
        BY <2>2, <3>2
      <4>2. f[s \ {x}] \in Nat /\ g[s \ {x}] = f[s \ {x}]
        BY <2>1, <2>4, <4>1
      <4> HIDE DEF Upto
      <4>3. g[s] = Added(f, given, s)
        BY <3>2
      <4> QED
        BY <3>2, <4>1, <4>2, <4>3 DEF Added
    <3> QED
      BY <3>1, <3>2
  <2>6. g \in Sums(n + 1)
    <3> HIDE DEF Upto
    <3>1. g \in [Upto(n + 1) -> Nat]
      <4> HIDE DEF g
      <4>1. \E G : g = [s \in Upto(n + 1) |-> G[s]]
        <5> USE DEF g
        <5>1. g = [s \in Upto(n + 1) |-> g[s]]
          OBVIOUS
        <5> QED
          BY <5>1
      <4> QED
        BY <2>5, <4>1
    <3> HIDE DEF g
    <3> QED
      BY <2>5, <3>1
  <2> HIDE DEF g, Sums
  <2> QED
    BY <2>6
<1>5. Cardinality(D) \in S
  <2> HIDE DEF S
  <2>1. Nat \subseteq S
    BY <1>3, <1>4, Induction
  <2> QED
    BY <2>1, FS_CardinalityType
<1>6. PICK f \in Sums(Cardinality(D)) : TRUE
  BY <1>5
<1>7. Upto(Cardinality(D)) = SUBSET D
  BY FS_Subset
<1> QED
  <2> HIDE DEF Upto
  <2>1. f \in [SUBSET D -> Nat]
    BY <1>6, <1>7
  <2>2. IsSum(f, given, D)
    BY <1>6, <1>7 DEF IsSum
  <2> QED
    BY <2>1, <2>2

\* So points add up to a natural number.
LEMMA PointsAddUp ==
  ASSUME NEW D, IsFiniteSet(D), NEW given \in [D -> Nat]
  PROVE  FoldSet(LAMBDA q, sum : sum + given[q], 0, D) \in Nat
<1> DEFINE iter[s \in SUBSET D] ==
             IF s = {} THEN 0
             ELSE LET x == CHOOSE x \in s : TRUE
                  IN  iter[s \ {x}] + given[x]
<1>1. FoldSet(LAMBDA q, sum : sum + given[q], 0, D) = iter[D]
  BY DEF FoldSet, MapThenFoldSet
<1>2. iter = [s \in SUBSET D |-> IF s = {} THEN 0 ELSE Added(iter, given, s)]
  <2> DEFINE Sum(f) == f = [s \in SUBSET D |-> IF s = {} THEN 0
                                              ELSE LET x == CHOOSE x \in s : TRUE
                                                   IN  f[s \ {x}] + given[x]]
  <2>1. iter = CHOOSE f : Sum(f)
    OBVIOUS
  <2>2. PICK f \in [SUBSET D -> Nat] : IsSum(f, given, D)
    BY SumExists
  <2>3. Sum(f)
    BY <2>2 DEF IsSum, Added
  <2> HIDE DEF iter
  <2>4. Sum(iter)
    BY <2>1, <2>3
  <2> QED
    BY <2>4 DEF Added
<1> HIDE DEF iter
<1> DEFINE Bad == {s \in SUBSET D : iter[s] \notin Nat}
<1>3. Bad = {}
  <2> SUFFICES ASSUME Bad # {}
               PROVE  FALSE
    OBVIOUS
  <2>1. \A s \in SUBSET D : IsFiniteSet(s) /\ Cardinality(s) \in Nat
    BY FS_Subset, FS_CardinalityType
  <2>2. PICK s \in Bad : \A t \in Bad : Cardinality(s) <= Cardinality(t)
    <3> DEFINE Sizes == {Cardinality(s) : s \in Bad}
    <3>1. Sizes \subseteq Nat /\ Sizes # {}
      BY <2>1
    <3> HIDE DEF Sizes
    <3>2. PICK n \in Sizes : \A m \in Sizes : n <= m
      BY <3>1, LeastNumber
    <3> USE DEF Sizes
    <3> QED
      BY <3>2
  <2> DEFINE x == CHOOSE x \in s : TRUE
  <2>3. s # {}
    BY <1>2
  <2>4. x \in s
    BY <2>3
  <2> HIDE DEF x
  <2>5. Cardinality(s \ {x}) = Cardinality(s) - 1 /\ s \ {x} \in SUBSET D
    BY <2>1, <2>4, FS_RemoveElement
  <2>6. ~(Cardinality(s) <= Cardinality(s \ {x}))
    BY <2>1, <2>5
  <2>7. iter[s \ {x}] \in Nat
    BY <2>2, <2>5, <2>6
  <2>8. given[x] \in Nat
    BY <2>4
  <2>9. iter[s] = iter[s \ {x}] + given[x]
    BY <1>2, <2>3 DEF Added, x
  <2> QED
    BY <2>7, <2>8, <2>9
<1> QED
  BY <1>1, <1>3

\* A score has two digits, or is 100.
LEMMA ScoreType ==
  ASSUME NEW given, IsFiniteSet(DOMAIN given), given \in [DOMAIN given -> Nat], NEW qualified \in BOOLEAN
  PROVE  Score(given, qualified) \in 0 .. 100
<1> DEFINE points == FoldSet(LAMBDA q, sum : sum + given[q], 0, DOMAIN given)
           total == 10 + points + IF qualified THEN 5 ELSE 0
<1>1. points \in Nat
  BY PointsAddUp
<1>2. Score(given, qualified) = Min({100, total})
  BY DEF Score
<1> HIDE DEF points
<1>3. total \in Nat
  BY <1>1
<1> HIDE DEF total
<1>4. Min({100, total}) = IF 100 <= total THEN 100 ELSE total
  <2>1. CASE 100 <= total
    BY <1>3, <2>1 DEF Min
  <2>2. CASE ~(100 <= total)
    BY <1>3, <2>2 DEF Min
  <2> QED
    BY <2>1, <2>2
<1> QED
  BY <1>2, <1>3, <1>4

-----------------------------------------------------------------------------
(* The candidate that is chosen. *)

\* A finite set has a best element in any order that compares all of it.
LEMMA BestExists ==
  ASSUME NEW T, IsFiniteSet(T), T # {}, NEW R,
         \A p \in T, q \in T : <<p, q>> \in R \/ <<q, p>> \in R,
         \A p \in T, q \in T, r \in T : <<p, q>> \in R /\ <<q, r>> \in R => <<p, r>> \in R
  PROVE  \E p \in T : \A q \in T : <<p, q>> \in R
<1> DEFINE Best(U) == \E p \in U : \A q \in U : <<p, q>> \in R
           S == {n \in Nat : \A U \in SUBSET T : Cardinality(U) = n /\ U # {} => Best(U)}
<1>1. 0 \in S
  BY FS_Subset, FS_EmptySet
<1>2. ASSUME NEW n \in Nat, n \in S
      PROVE  n + 1 \in S
  <2> SUFFICES ASSUME NEW U \in SUBSET T, Cardinality(U) = n + 1, U # {}
               PROVE  Best(U)
    OBVIOUS
  <2>1. PICK x \in U : TRUE
    OBVIOUS
  <2>2. U \ {x} \in SUBSET T /\ Cardinality(U \ {x}) = n
    <3>1. IsFiniteSet(U)
      BY FS_Subset
    <3>2. Cardinality(U \ {x}) = Cardinality(U) - 1
      BY <2>1, <3>1, FS_RemoveElement
    <3> QED
      BY <3>2
  <2>3. CASE U = {x}
    BY <2>3
  <2>4. CASE U # {x}
    <3>1. PICK p \in U \ {x} : \A q \in U \ {x} : <<p, q>> \in R
      BY <1>2, <2>1, <2>2, <2>4
    <3>2. CASE <<p, x>> \in R
      BY <3>1, <3>2
    <3>3. CASE <<x, p>> \in R
      <4>1. <<x, x>> \in R
        BY <2>1
      <4> QED
        BY <2>1, <3>1, <3>3, <4>1
    <3> QED
      BY <2>1, <3>1, <3>2, <3>3
  <2> QED
    BY <2>3, <2>4
<1> HIDE DEF S
<1>3. Nat \subseteq S
  BY <1>1, <1>2, Induction
<1> USE DEF S
<1>4. Cardinality(T) \in S
  BY <1>3, FS_CardinalityType
<1> QED
  BY <1>4

LEMMA StaffFinite == IsFiniteSet(People)
<1>1. Len(Ranking) \in Nat /\ DOMAIN Ranking = 1 .. Len(Ranking)
  BY QualificationAssumption
<1>2. Ranking \in Surjection(1 .. Len(Ranking), People)
  <2>1. Ranking \in [1 .. Len(Ranking) -> People]
    BY QualificationAssumption
  <2>2. \A p \in People : \E i \in 1 .. Len(Ranking) : Ranking[i] = p
    BY DEF People
  <2> QED
    BY <2>1, <2>2 DEF Surjection
<1>3. IsFiniteSet(1 .. Len(Ranking))
  BY <1>1, FS_Interval
<1> QED
  BY <1>2, <1>3, FS_Surjection

LEMMA RankType ==
  ASSUME NEW p \in People
  PROVE  Rank(p) \in Int
<1>1. \E i \in 1 .. Len(Ranking) : Ranking[i] = p
  BY DEF People
<1>2. Rank(p) \in 1 .. Len(Ranking)
  BY <1>1 DEF Rank
<1> QED
  BY <1>2

\* A lead is given to one of those its turn has locked; to nobody when there is none.
LEMMA RoutedIsLocked ==
  ASSUME NEW n \in Numbers, about[n] \in Leads, got[n] \subseteq People, seen[n] \in [People -> Nat]
  PROVE  IF got[n] = {} THEN Routed(n) = Nobody ELSE Routed(n) \in got[n]
<1> DEFINE points(p) == Fit[<<about[n], p>>] - Rank(p) - 10 * seen[n][p]
           better(p, q) == points(p) > points(q) \/ (points(p) = points(q) /\ Rank(p) <= Rank(q))
           roomy == {p \in got[n] : seen[n][p] < Capacity[p]}
           lighter(p, q) == seen[n][p] < seen[n][q] \/ (seen[n][p] = seen[n][q] /\ better(p, q))
<1>1. \A p \in People : points(p) \in Int /\ Rank(p) \in Int /\ seen[n][p] \in Nat
  BY RankType, QualificationAssumption
<1>2. IsFiniteSet(got[n]) /\ IsFiniteSet(roomy)
  BY StaffFinite, FS_Subset
<1>3. Routed(n) = CASE roomy # {} -> CHOOSE p \in roomy : \A q \in roomy : better(p, q)
                    [] roomy = {} /\ got[n] # {} -> CHOOSE p \in got[n] : \A q \in got[n] : lighter(p, q)
                    [] OTHER -> Nobody
  BY DEF Routed
<1>a. roomy \subseteq got[n]
  OBVIOUS
<1> HIDE DEF points, lighter
<1>4. CASE roomy # {}
  <2> DEFINE R == {x \in People \X People : better(x[1], x[2])}
  <2>1. \A p, q \in People : <<p, q>> \in R <=> better(p, q)
    OBVIOUS
  <2>2. \A p, q \in People : better(p, q) \/ better(q, p)
    BY <1>1
  <2>3. \A p, q, r \in People : better(p, q) /\ better(q, r) => better(p, r)
    BY <1>1
  <2> HIDE DEF R, better
  <2>4. \E p \in roomy : \A q \in roomy : <<p, q>> \in R
    <3>1. \A p \in roomy, q \in roomy : <<p, q>> \in R \/ <<q, p>> \in R
      BY <2>1, <2>2
    <3>2. \A p \in roomy, q \in roomy, r \in roomy : <<p, q>> \in R /\ <<q, r>> \in R => <<p, r>> \in R
      BY <2>1, <2>3
    <3> QED
      BY <1>2, <1>4, <3>1, <3>2, BestExists
  <2>5. \E p \in roomy : \A q \in roomy : better(p, q)
    BY <2>1, <2>4
  <2>6. (CHOOSE p \in roomy : \A q \in roomy : better(p, q)) \in roomy
    BY <2>5
  <2> HIDE DEF roomy
  <2>7. Routed(n) = CHOOSE p \in roomy : \A q \in roomy : better(p, q)
    BY <1>3, <1>4
  <2> QED
    BY <1>4, <1>a, <2>6, <2>7
<1> USE DEF lighter
<1>5. CASE roomy = {} /\ got[n] # {}
  <2> DEFINE R == {x \in People \X People : lighter(x[1], x[2])}
  <2>1. \A p, q \in People : <<p, q>> \in R <=> lighter(p, q)
    OBVIOUS
  <2>2. \A p, q \in People : lighter(p, q) \/ lighter(q, p)
    BY <1>1
  <2>3. \A p, q, r \in People : lighter(p, q) /\ lighter(q, r) => lighter(p, r)
    BY <1>1
  <2> HIDE DEF R, lighter
  <2>4. \E p \in got[n] : \A q \in got[n] : <<p, q>> \in R
    <3>1. \A p \in got[n], q \in got[n] : <<p, q>> \in R \/ <<q, p>> \in R
      BY <2>1, <2>2
    <3>2. \A p \in got[n], q \in got[n], r \in got[n] : <<p, q>> \in R /\ <<q, r>> \in R => <<p, r>> \in R
      BY <2>1, <2>3
    <3> QED
      BY <1>2, <1>5, <3>1, <3>2, BestExists
  <2>5. \E p \in got[n] : \A q \in got[n] : lighter(p, q)
    BY <2>1, <2>4
  <2>6. (CHOOSE p \in got[n] : \A q \in got[n] : lighter(p, q)) \in got[n]
    BY <2>5
  <2> QED
    BY <1>3, <1>5, <2>6
<1>6. CASE got[n] = {}
  BY <1>3, <1>6
<1> QED
  BY <1>4, <1>5, <1>6

-----------------------------------------------------------------------------
(* The questions. *)

\* What the answers to some of the questions can be.
Given == UNION {[D -> Nat] : D \in SUBSET Questions}

LEMMA GivenType ==
  ASSUME NEW given \in Given
  PROVE  given \in [DOMAIN given -> Nat] /\ DOMAIN given \subseteq Questions
<1>1. PICK D \in SUBSET Questions : given \in [D -> Nat]
  BY DEF Given
<1> QED
  BY <1>1

LEMMA WithType ==
  ASSUME NEW given \in Given, NEW q \in Questions, NEW points \in Nat
  PROVE  /\ With(given, q, points) \in Given
         /\ DOMAIN With(given, q, points) = DOMAIN given \cup {q}
         /\ With(given, q, points)[q] = points
         /\ \A k \in DOMAIN given : k # q => With(given, q, points)[k] = given[k]
<1> DEFINE D == DOMAIN given \cup {q}
           w == [k \in D |-> IF k = q THEN points ELSE given[k]]
<1>1. given \in [DOMAIN given -> Nat] /\ D \in SUBSET Questions
  BY GivenType
<1>2. w \in [D -> Nat]
  BY <1>1
<1>3. With(given, q, points) = w
  BY DEF With
<1>4. w[q] = points /\ \A k \in DOMAIN given : k # q => w[k] = given[k]
  OBVIOUS
<1> HIDE DEF w
<1>5. w \in Given /\ DOMAIN w = D
  BY <1>1, <1>2 DEF Given
<1> QED
  BY <1>3, <1>4, <1>5

LEMMA AskedType ==
  ASSUME NEW v \in Versions \cup {NoVersion}
  PROVE  /\ Len(v.questions) \in Nat /\ Asked(v) \subseteq Questions /\ IsFiniteSet(Asked(v))
         /\ \A i \in 1 .. Len(v.questions) : v.questions[i] \in Asked(v)
<1> DEFINE s == v.questions
<1>1. s \in Seq(Questions)
  <2>1. CASE v = NoVersion
    <3>1. s = <<>>
      BY <2>1 DEF NoVersion
    <3> QED
      BY <3>1
  <2>2. CASE v \in Versions
    BY <2>2 DEF Versions
  <2> QED
    BY <2>1, <2>2
<1>2. Asked(v) = {s[i] : i \in 1 .. Len(s)}
  BY DEF Asked
<1> HIDE DEF s
<1>3. Len(s) \in Nat /\ \A i \in 1 .. Len(s) : s[i] \in Questions
  BY <1>1
<1>4. IsFiniteSet({s[i] : i \in 1 .. Len(s)})
  <2> DEFINE f == [i \in 1 .. Len(s) |-> s[i]]
  <2>1. f \in Surjection(1 .. Len(s), {s[i] : i \in 1 .. Len(s)})
    BY DEF Surjection
  <2>2. IsFiniteSet(1 .. Len(s))
    BY <1>3, FS_Interval
  <2> QED
    BY <2>1, <2>2, FS_Surjection
<1> QED
  BY <1>2, <1>3, <1>4 DEF s

\* A question's index is its first place.
LEMMA IndexIsFirst ==
  ASSUME NEW v \in Versions \cup {NoVersion}, NEW q \in Asked(v)
  PROVE  /\ Index(v, q) \in 1 .. Len(v.questions) /\ v.questions[Index(v, q)] = q
         /\ \A i \in 1 .. Len(v.questions) : v.questions[i] = q => Index(v, q) <= i
<1> DEFINE places == {i \in 1 .. Len(v.questions) : v.questions[i] = q}
<1>1. places \subseteq Nat /\ places # {}
  BY DEF Asked
<1>2. Index(v, q) = CHOOSE i \in places : \A k \in places : i <= k
  BY DEF Index, Min
<1>3. \E i \in places : \A k \in places : i <= k
  <2> HIDE DEF places
  <2> QED
    BY <1>1, LeastNumber
<1>4. Index(v, q) \in places /\ \A k \in places : Index(v, q) <= k
  <2> HIDE DEF places
  <2> QED
    BY <1>2, <1>3
<1> QED
  BY <1>4

Covers(given, v, q) == q \in DOMAIN given \cup Passed(v, given) \cup {Permission}

\* What the conversation keeps of an answer.
Noted(given, q, points) == IF q = Permission THEN given ELSE With(given, q, points)

\* If the questions before the one that is answered are covered, so are those before the
\* next, and all of them when there is none.
LEMMA AnswerCovers ==
  ASSUME NEW v \in Versions, NEW given \in Given, NEW q \in Asked(v), NEW points \in Nat,
         \A r \in Asked(v) : Index(v, r) < Index(v, q) => Covers(given, v, r)
  PROVE  LET next == Following(v, q, points)
         IN IF next = "none"
            THEN \A r \in Asked(v) : Covers(Noted(given, q, points), v, r)
            ELSE /\ next \in Asked(v)
                 /\ \A r \in Asked(v) :
                      Index(v, r) < Index(v, next) => Covers(Noted(given, q, points), v, r)
<1> DEFINE g == Noted(given, q, points)
           next == Following(v, q, points)
           L == Len(v.questions)
<1>1. /\ L \in Nat /\ Asked(v) \subseteq Questions
      /\ \A i \in 1 .. L : v.questions[i] \in Asked(v)
  BY AskedType
<1>2. \A r \in Asked(v) : /\ Index(v, r) \in 1 .. L /\ v.questions[Index(v, r)] = r
                          /\ \A i \in 1 .. L : v.questions[i] = r => Index(v, r) <= i
  BY IndexIsFirst
<1>3. /\ DOMAIN given \subseteq DOMAIN g /\ (q # Permission => q \in DOMAIN g /\ g[q] = points)
      /\ \A k \in DOMAIN given : k # q \/ q = Permission => g[k] = given[k]
  <2>1. CASE q = Permission
    BY <2>1 DEF Noted
  <2>2. CASE q # Permission
    <3>1. g = With(given, q, points) /\ q \in Questions
      BY <1>1, <2>2 DEF Noted
    <3>2. /\ DOMAIN With(given, q, points) = DOMAIN given \cup {q}
          /\ With(given, q, points)[q] = points
          /\ \A k \in DOMAIN given : k # q => With(given, q, points)[k] = given[k]
      BY <3>1, WithType
    <3> HIDE DEF g
    <3> QED
      BY <2>2, <3>1, <3>2
  <2> QED
    BY <2>1, <2>2
<1> HIDE DEF g, L
<1>4. ASSUME NEW r \in Asked(v), Index(v, r) <= Index(v, q)
      PROVE  Covers(g, v, r)
  <2>1. CASE r = q
    BY <1>3, <2>1 DEF Covers
  <2>2. CASE r # q
    <3>1. Index(v, r) < Index(v, q)
      BY <1>1, <1>2, <1>4, <2>2
    <3>2. Covers(given, v, r)
      BY <3>1
    <3>3. CASE r \in Passed(v, given)
      <4>1. Plan # q
        BY <1>1, <1>2, <3>1, <3>3 DEF Passed
      <4>2. Plan \in DOMAIN given /\ Plan \in DOMAIN g /\ g[Plan] = given[Plan]
        BY <1>3, <3>3, <4>1 DEF Passed
      <4>3. r \in Passed(v, g)
        BY <3>3, <4>2 DEF Passed
      <4> QED
        BY <4>3 DEF Covers
    <3>4. CASE r \notin Passed(v, given)
      BY <1>3, <3>2, <3>4 DEF Covers
    <3> QED
      BY <3>3, <3>4
  <2> QED
    BY <2>1, <2>2
<1>5. CASE Skips(q, points)
  <2>1. q = Plan /\ q # Permission /\ Plan \in Asked(v) \cap DOMAIN g /\ Skips(Plan, g[Plan])
    BY <1>3, <1>5, QualificationAssumption DEF Skips
  <2>2. \A r \in Asked(v) :
          Index(v, q) < Index(v, r) /\ (Timeline \in Asked(v) => Index(v, r) < Index(v, Timeline))
            => Covers(g, v, r)
    BY <2>1 DEF Passed, Covers
  <2>3. CASE Timeline \in Asked(v)
    <3>1. next = Timeline /\ next # "none" /\ next \in Asked(v)
      BY <1>1, <1>5, <2>3, QualificationAssumption DEF Following, Stages
    <3>2. ASSUME NEW r \in Asked(v), Index(v, r) < Index(v, Timeline)
          PROVE  Covers(g, v, r)
      <4>1. Index(v, r) <= Index(v, q) \/ Index(v, q) < Index(v, r)
        BY <1>1, <1>2
      <4> QED
        BY <1>4, <2>2, <3>2, <4>1
    <3> QED
      BY <3>1, <3>2 DEF g
  <2>4. CASE Timeline \notin Asked(v)
    <3>1. next = "none"
      BY <1>5, <2>4 DEF Following
    <3>2. ASSUME NEW r \in Asked(v)
          PROVE  Covers(g, v, r)
      <4>1. Index(v, r) <= Index(v, q) \/ Index(v, q) < Index(v, r)
        BY <1>1, <1>2
      <4> QED
        BY <1>4, <2>2, <2>4, <4>1
    <3> QED
      BY <3>1, <3>2 DEF g
  <2> QED
    BY <2>3, <2>4
<1>6. CASE ~Skips(q, points) /\ Index(v, q) < L
  <2> DEFINE i == Index(v, q) + 1
  <2>1. i \in 1 .. L
    BY <1>1, <1>2, <1>6
  <2>2. next = v.questions[i]
    BY <1>6 DEF Following, L
  <2>3. next \in Asked(v) /\ next # "none"
    BY <1>1, <2>1, <2>2, QualificationAssumption DEF Stages
  <2>4. Index(v, next) <= i
    BY <1>2, <2>1, <2>2, <2>3
  <2>5. ASSUME NEW r \in Asked(v), Index(v, r) < Index(v, next)
        PROVE  Covers(g, v, r)
    <3>1. Index(v, r) \in Int /\ Index(v, next) \in Int /\ Index(v, q) \in Int
      BY <1>1, <1>2, <2>3
    <3>2. Index(v, r) <= Index(v, q)
      BY <2>4, <2>5, <3>1
    <3> QED
      BY <1>4, <3>2
  <2> QED
    BY <2>3, <2>5 DEF g
<1>7. CASE ~Skips(q, points) /\ ~(Index(v, q) < L)
  <2>1. next = "none"
    BY <1>7 DEF Following, L
  <2>2. ASSUME NEW r \in Asked(v)
        PROVE  Covers(g, v, r)
    <3>1. Index(v, r) <= Index(v, q)
      BY <1>1, <1>2, <1>7
    <3> QED
      BY <1>4, <3>1
  <2> QED
    BY <2>1, <2>2 DEF g
<1> QED
  BY <1>5, <1>6, <1>7

-----------------------------------------------------------------------------
(* The invariant. *)

\* Types, and that every version asks something.
Types ==
  /\ QualificationTypeOK
  /\ said \in [Numbers -> Given] /\ answers \in [Leads -> Given]
  /\ reply \in [Numbers -> Nat]
  /\ got \in [Numbers -> SUBSET People] /\ seen \in [Numbers -> [People -> Nat]]
  /\ \A v \in published : v.questions # <<>>
  /\ \A s \in Scopes : current[s] \in published \cup {NoVersion}

\* A turn that chooses has an answer that no question follows, and only such a turn holds
\* the rows of salespeople.
TurnsChoose ==
  \A n \in Numbers :
    IF turn[n] = "choosing"
    THEN asks[n] \in Questions /\ NextQuestion(n, reply[n]) = "none"
    ELSE got[n] = {}

\* Whose row is locked stays active.
LockedAreActive == \A n \in Numbers : got[n] \subseteq active

\* One request has the project, and it has deleted all of its rows.
ProjectsAreLocked ==
  /\ \A r \in Requests, o \in Requests : request[r] = "locked" /\ request[o] = "locked" => r = o
  /\ \A r \in Requests : request[r] = "locked" => removed[r] = eligible

\* A conversation is about a lead of its number and asks and keeps the questions of its version.
ConversationsKeepTheirVersion ==
  \A n \in Numbers :
    /\ IF pinned[n] = NoVersion THEN asks[n] = "none" /\ said[n] = NoAnswers ELSE about[n] \in Leads
    /\ about[n] \in Leads => Number[about[n]] = n
    /\ asks[n] \in Questions => asks[n] \in Asked(pinned[n])
    /\ DOMAIN said[n] \subseteq Asked(pinned[n])

\* The questions before the one it asks are answered or passed over.
AskedSoFar ==
  \A n \in Numbers : asks[n] \in Questions =>
    \A r \in Asked(pinned[n]) : Index(pinned[n], r) < Index(pinned[n], asks[n]) => Covers(said[n], pinned[n], r)

\* Every answer a conversation keeps is in the session of one of its leads.
AnswersAreKept ==
  \A n \in Numbers : \A q \in DOMAIN said[n] :
    \E k \in Leads : Number[k] = n /\ q \in DOMAIN answers[k]

\* A session is stamped with the version of its number's conversation; it is completed, and
\* its lead given to somebody, when the conversation is.
SessionsKeepTheirVersion ==
  \A l \in Leads :
    /\ session[l] # "none" => stamp[l] = pinned[Number[l]] /\ pinned[Number[l]] # NoVersion
    /\ session[l] = "completed" \/ owner[l] # Nobody => asks[Number[l]] = "qualified"

IInv ==
  /\ Types
  /\ TurnsChoose
  /\ LockedAreActive
  /\ ProjectsAreLocked
  /\ ConversationsKeepTheirVersion
  /\ AskedSoFar
  /\ AnswersAreKept
  /\ SessionsKeepTheirVersion
  /\ QualifiedAsPinned

\* What a step that leaves the conversations, the leads and the turns alone cannot change.
LEMMA LeadsKept ==
  ASSUME IInv, UNCHANGED <<talk_vars, lead_vars, turn_vars>>
  PROVE  /\ TurnsChoose' /\ ConversationsKeepTheirVersion' /\ AskedSoFar' /\ AnswersAreKept'
         /\ SessionsKeepTheirVersion' /\ QualifiedAsPinned'
<1> USE DEF IInv, talk_vars, lead_vars, turn_vars
<1>1. TurnsChoose'
  BY DEF TurnsChoose, NextQuestion
<1>2. ConversationsKeepTheirVersion' /\ SessionsKeepTheirVersion' /\ AnswersAreKept'
  BY DEF ConversationsKeepTheirVersion, SessionsKeepTheirVersion, AnswersAreKept
<1>3. AskedSoFar' /\ QualifiedAsPinned'
  BY DEF AskedSoFar, QualifiedAsPinned
<1> QED
  BY <1>1, <1>2, <1>3

-----------------------------------------------------------------------------
(* Steps of operators. *)

LEMMA ConfigKeeps ==
  ASSUME IInv, ConfigStep
  PROVE  IInv'
<1>1. UNCHANGED <<talk_vars, lead_vars, staff_vars, turn_vars, request_vars>> /\ edits' \in 0 .. MaxEdits
  BY QualificationAssumption DEF ConfigStep, Publish, ActivateVersion, Edits, IInv, Types, QualificationTypeOK
<1> DEFINE Kept == /\ published' \subseteq Versions
                   /\ current' \in [Scopes -> Versions \cup {NoVersion}]
                   /\ \A v \in published' : v.questions # <<>>
                   /\ \A s \in Scopes : current'[s] \in published' \cup {NoVersion}
<1>2. Kept
  <2>1. ASSUME NEW scope \in Scopes, NEW sheet \in Sheets, Publish(scope, sheet)
        PROVE  Kept
    <3> DEFINE v == Compile(scope, sheet)
    <3>1. v \in Versions
      BY QualificationAssumption DEF Compile, Versions, Scopes
    <3>2. /\ published' = published \cup {v} /\ current' = [current EXCEPT ![scope] = v]
          /\ v.questions # <<>>
      BY <2>1 DEF Publish
    <3> HIDE DEF v
    <3> QED
      BY <3>1, <3>2 DEF IInv, Types, QualificationTypeOK
  <2>2. ASSUME NEW scope \in Scopes, NEW v \in published, ActivateVersion(v, scope)
        PROVE  Kept
    BY <2>2 DEF ActivateVersion, IInv, Types, QualificationTypeOK
  <2> QED
    BY <2>1, <2>2 DEF ConfigStep
<1>3. Types'
  BY <1>1, <1>2 DEF IInv, Types, QualificationTypeOK, talk_vars, lead_vars, staff_vars, turn_vars, request_vars
<1>4. LockedAreActive' /\ ProjectsAreLocked'
  BY <1>1 DEF IInv, LockedAreActive, ProjectsAreLocked, staff_vars, turn_vars, request_vars
<1> QED
  BY <1>1, <1>3, <1>4, LeadsKept DEF IInv

\* Nobody is deactivated while a turn has the row.
LEMMA StaffKeeps ==
  ASSUME IInv, NEW p \in People, Hire(p) \/ SetActive(p)
  PROVE  IInv'
<1>1. UNCHANGED <<config_vars, talk_vars, lead_vars, turn_vars, request_vars>> /\ edits' \in 0 .. MaxEdits
  BY QualificationAssumption DEF Hire, SetActive, Edits, IInv, Types, QualificationTypeOK
<1>2. active' \subseteq hired' /\ hired' \subseteq People
  BY DEF Hire, SetActive, IInv, Types, QualificationTypeOK
<1>3. Types'
  BY <1>1, <1>2 DEF IInv, Types, QualificationTypeOK, config_vars, talk_vars, lead_vars, turn_vars, request_vars
<1>4. LockedAreActive'
  BY <1>1 DEF Hire, SetActive, Choosing, IInv, LockedAreActive, turn_vars
<1>5. ProjectsAreLocked'
  BY <1>1 DEF IInv, ProjectsAreLocked, request_vars
<1> QED
  BY <1>1, <1>3, <1>4, <1>5, LeadsKept DEF IInv

LEMMA RequestKeeps ==
  ASSUME IInv, NEW r \in Requests,
         LockProject(r) \/ InsertRow(r) \/ SetProjectSalespeople(r) \/ VictimRequest(r)
  PROVE  IInv'
<1>1. UNCHANGED <<config_vars, talk_vars, lead_vars, staff_vars, turn_vars, edits>>
  BY DEF LockProject, InsertRow, SetProjectSalespeople, VictimRequest
<1>2. /\ eligible' \subseteq People
      /\ request' \in [Requests -> {"ready", "locked", "done", "refused"}]
      /\ removed' \in [Requests -> SUBSET People] /\ held' \in [Requests -> Nat]
  <2>1. WantedSet(r) \subseteq People
    BY QualificationAssumption DEF WantedSet
  <2>2. CASE LockProject(r)
    BY <2>2 DEF LockProject, Replaces, IInv, Types, QualificationTypeOK
  <2>3. CASE InsertRow(r)
    BY <2>3 DEF InsertRow, IInv, Types, QualificationTypeOK
  <2>4. CASE SetProjectSalespeople(r)
    BY <2>1, <2>4 DEF SetProjectSalespeople, EndRequest, IInv, Types, QualificationTypeOK
  <2>5. CASE VictimRequest(r)
    BY <2>5 DEF VictimRequest, EndRequest, IInv, Types, QualificationTypeOK
  <2> QED
    BY <2>2, <2>3, <2>4, <2>5
<1>3. Types'
  BY <1>1, <1>2 DEF IInv, Types, QualificationTypeOK, config_vars, talk_vars, lead_vars, staff_vars, turn_vars
<1>4. ProjectsAreLocked'
  <2>1. /\ request \in [Requests -> {"ready", "locked", "done", "refused"}]
        /\ removed \in [Requests -> SUBSET People]
        /\ ProjectsAreLocked
    BY DEF IInv, Types, QualificationTypeOK
  <2>2. CASE LockProject(r)
    BY <2>1, <2>2 DEF LockProject, Replaces, ProjectsAreLocked
  <2>3. CASE InsertRow(r)
    BY <2>1, <2>3 DEF InsertRow, ProjectsAreLocked
  <2>4. CASE SetProjectSalespeople(r) \/ VictimRequest(r)
    <3>1. request[r] = "locked" \/ eligible' = eligible
      BY <2>4 DEF SetProjectSalespeople, VictimRequest
    <3>2. \E outcome \in {"done", "refused"} : EndRequest(r, outcome)
      BY <2>4 DEF SetProjectSalespeople, VictimRequest
    <3> QED
      BY <2>1, <3>1, <3>2 DEF EndRequest, ProjectsAreLocked
  <2> QED
    BY <2>2, <2>3, <2>4
<1>5. LockedAreActive'
  BY <1>1 DEF IInv, LockedAreActive, staff_vars, turn_vars
<1> QED
  BY <1>1, <1>3, <1>4, <1>5, LeadsKept DEF IInv

-----------------------------------------------------------------------------
(* Steps of conversations. *)

LEMMA StagesAskNothing == \A s \in {"none", "paused", "qualified"} : s \notin Questions
BY QualificationAssumption DEF Stages

\* One more answer, of the conversation and of its lead's session.
LEMMA SaveAnswerEffect ==
  ASSUME IInv, NEW n \in Numbers, asks[n] \in Questions, NEW points \in Nat, SaveAnswer(n, points),
         UNCHANGED pinned
  PROVE  /\ about[n] \in Leads /\ Number[about[n]] = n
         /\ pinned[n] \in Versions /\ asks[n] \in Asked(pinned[n])
         /\ said' \in [Numbers -> Given] /\ answers' \in [Leads -> Given]
         /\ stamp' \in [Leads -> Versions \cup {NoVersion}]
         /\ said'[n] = Noted(said[n], asks[n], points) /\ DOMAIN said'[n] \subseteq Asked(pinned[n])
         /\ \A m \in Numbers : m # n => said'[m] = said[m]
         /\ stamp'[about[n]] = pinned[n]
         /\ \A k \in Leads : k # about[n] => stamp'[k] = stamp[k]
         /\ \A k \in Leads : DOMAIN answers[k] \subseteq DOMAIN answers'[k]
         /\ AnswersAreKept'
<1> DEFINE l == about[n]
           q == asks[n]
<1>1. /\ l \in Leads /\ Number[l] = n /\ pinned[n] \in Versions /\ q \in Asked(pinned[n])
      /\ DOMAIN said[n] \subseteq Asked(pinned[n])
  BY StagesAskNothing DEF IInv, Types, QualificationTypeOK, ConversationsKeepTheirVersion
<1>2. /\ said \in [Numbers -> Given] /\ answers \in [Leads -> Given]
      /\ stamp \in [Leads -> Versions \cup {NoVersion}]
  BY DEF IInv, Types, QualificationTypeOK
<1>3. /\ said' = [said EXCEPT ![n] = Noted(said[n], q, points)]
      /\ answers' = [answers EXCEPT ![l] = With(answers[l], q, points)]
      /\ stamp' = [stamp EXCEPT ![l] = IF session[l] = "none" THEN pinned[n] ELSE stamp[l]]
  <2>1. CASE q = Permission
    <3>1. said' = said
      BY <2>1 DEF SaveAnswer
    <3> QED
      BY <1>2, <2>1, <3>1 DEF SaveAnswer, Noted
  <2>2. CASE q # Permission
    BY <2>2 DEF SaveAnswer, Noted
  <2> QED
    BY <2>1, <2>2
<1>a. answers[l] \in Given /\ said[n] \in Given /\ q \in Questions
  BY <1>1, <1>2
<1>4. /\ With(answers[l], q, points) \in Given
      /\ DOMAIN With(answers[l], q, points) = DOMAIN answers[l] \cup {q}
  <2> HIDE DEF l, q
  <2> QED
    BY <1>a, WithType
<1>5. Noted(said[n], q, points) \in Given /\ DOMAIN Noted(said[n], q, points) \subseteq DOMAIN said[n] \cup {q}
  <2> HIDE DEF l, q
  <2>1. /\ With(said[n], q, points) \in Given
        /\ DOMAIN With(said[n], q, points) = DOMAIN said[n] \cup {q}
    BY <1>a, WithType
  <2> QED
    BY <1>a, <2>1 DEF Noted
<1>6. stamp'[l] = pinned[n]
  BY <1>1, <1>2, <1>3 DEF IInv, SessionsKeepTheirVersion
<1> HIDE DEF l, q
<1>7. /\ said' \in [Numbers -> Given] /\ answers' \in [Leads -> Given]
      /\ stamp' \in [Leads -> Versions \cup {NoVersion}]
      /\ said'[n] = Noted(said[n], q, points)
      /\ \A m \in Numbers : m # n => said'[m] = said[m]
      /\ answers'[l] = With(answers[l], q, points)
      /\ \A k \in Leads : k # l => answers'[k] = answers[k] /\ stamp'[k] = stamp[k]
  BY <1>1, <1>2, <1>3, <1>4, <1>5
<1>8. \A k \in Leads : DOMAIN answers[k] \subseteq DOMAIN answers'[k]
  BY <1>4, <1>7
<1>9. AnswersAreKept'
  <2> SUFFICES ASSUME NEW m \in Numbers, NEW r \in DOMAIN said'[m]
               PROVE  \E k \in Leads : Number[k] = m /\ r \in DOMAIN answers'[k]
    BY DEF AnswersAreKept
  <2>1. CASE r \in DOMAIN said[m]
    <3>1. PICK k \in Leads : Number[k] = m /\ r \in DOMAIN answers[k]
      BY <2>1 DEF IInv, AnswersAreKept
    <3> QED
      BY <1>8, <3>1
  <2>2. CASE r \notin DOMAIN said[m]
    <3>1. m = n /\ r = q
      BY <1>5, <1>7, <2>2
    <3> QED
      BY <1>1, <1>4, <1>7, <3>1
  <2> QED
    BY <2>1, <2>2
<1> QED
  BY <1>1, <1>5, <1>6, <1>7, <1>8, <1>9 DEF l, q

\* A lead's conversation is over when the lead is qualified: what another conversation does
\* leaves that as it is.
LEMMA QualifiedStay ==
  ASSUME IInv, NEW n \in Numbers, asks[n] # "qualified",
         \A m \in Numbers : m # n => pinned'[m] = pinned[m] /\ said'[m] = said[m],
         \A k \in Leads : DOMAIN answers[k] \subseteq DOMAIN answers'[k],
         NEW l \in Leads, session[l] = "completed", stamp'[l] = stamp[l], score'[l] = score[l]
  PROVE  LET m == Number[l]
             v == stamp'[l]
         IN /\ v = pinned'[m] /\ DOMAIN said'[m] \subseteq Asked(v)
            /\ Asked(v) \subseteq DOMAIN said'[m] \cup Passed(v, said'[m]) \cup {Permission}
            /\ \A q \in DOMAIN said'[m] : \E k \in Leads : Number[k] = m /\ q \in DOMAIN answers'[k]
            /\ score'[l] = Score(said'[m], TRUE)
<1>1. Number[l] \in Numbers /\ Number[l] # n
  BY QualificationAssumption DEF IInv, SessionsKeepTheirVersion
<1>2. said'[Number[l]] = said[Number[l]] /\ pinned'[Number[l]] = pinned[Number[l]]
  BY <1>1
<1>3. LET m == Number[l]
          v == stamp[l]
      IN /\ v = pinned[m] /\ DOMAIN said[m] \subseteq Asked(v)
         /\ Asked(v) \subseteq DOMAIN said[m] \cup Passed(v, said[m]) \cup {Permission}
         /\ \A q \in DOMAIN said[m] : \E k \in Leads : Number[k] = m /\ q \in DOMAIN answers[k]
         /\ score[l] = Score(said[m], TRUE)
  BY DEF IInv, QualifiedAsPinned
<1>4. \A q \in DOMAIN said[Number[l]] :
        \E k \in Leads : Number[k] = Number[l] /\ q \in DOMAIN answers'[k]
  BY <1>3
<1> QED
  BY <1>2, <1>3, <1>4

LEMMA ActivateKeeps ==
  ASSUME IInv, NEW l \in Leads, Activate(l)
  PROVE  IInv'
<1> DEFINE n == Number[l]
           v == ActiveSnapshot
           first == Head(v.questions)
<1>1. n \in Numbers /\ pinned[n] = NoVersion
  BY QualificationAssumption DEF Activate
<1>2. v \in published /\ v \in Versions /\ v # NoVersion /\ v.questions # <<>>
  <2>1. current["client"] \in published \cup {NoVersion} /\ current["default"] \in published \cup {NoVersion}
    BY DEF IInv, Types, Scopes
  <2>2. v \in published \cup {NoVersion} /\ v # NoVersion
    BY <2>1 DEF Activate, ActiveSnapshot
  <2> HIDE DEF v
  <2> QED
    BY <2>2 DEF IInv, Types, QualificationTypeOK
<1>3. /\ pinned' = [pinned EXCEPT ![n] = v] /\ about' = [about EXCEPT ![n] = l]
      /\ asks' = [asks EXCEPT ![n] = first]
      /\ UNCHANGED <<config_vars, said, lead_vars, staff_vars, turn_vars, request_vars, edits>>
  BY DEF Activate
<1> HIDE DEF n, v, first
<1>4. /\ pinned \in [Numbers -> Versions \cup {NoVersion}] /\ about \in [Numbers -> Leads \cup {Nobody}]
      /\ asks \in [Numbers -> Questions \cup Stages]
  BY DEF IInv, Types, QualificationTypeOK
<1>5. first \in Questions /\ first \in Asked(v) /\ Index(v, first) = 1
  <2>1. v.questions \in Seq(Questions)
    BY <1>2 DEF Versions
  <2>2. first = v.questions[1] /\ 1 \in 1 .. Len(v.questions) /\ first \in Questions
    BY <1>2, <2>1 DEF first
  <2>3. first \in Asked(v)
    BY <2>2 DEF Asked
  <2>4. Index(v, first) \in Nat \ {0} /\ Index(v, first) <= 1
    BY <1>2, <2>2, <2>3, IndexIsFirst, AskedType
  <2> QED
    BY <2>2, <2>3, <2>4
<1>6. /\ pinned'[n] = v /\ about'[n] = l /\ asks'[n] = first
      /\ \A m \in Numbers : m # n => pinned'[m] = pinned[m] /\ about'[m] = about[m] /\ asks'[m] = asks[m]
      /\ pinned' \in [Numbers -> Versions \cup {NoVersion}] /\ about' \in [Numbers -> Leads \cup {Nobody}]
      /\ asks' \in [Numbers -> Questions \cup Stages]
  BY <1>1, <1>2, <1>3, <1>4, <1>5
<1>8. Types'
  BY <1>3, <1>6 DEF IInv, Types, QualificationTypeOK, config_vars, lead_vars, staff_vars, turn_vars, request_vars
<1>9. asks[n] \notin Questions /\ said[n] = NoAnswers
  BY <1>1, StagesAskNothing DEF IInv, ConversationsKeepTheirVersion
<1>10. TurnsChoose'
  BY <1>1, <1>3, <1>6, <1>9 DEF IInv, TurnsChoose, NextQuestion, turn_vars
<1>11. ConversationsKeepTheirVersion'
  <2> SUFFICES ASSUME NEW m \in Numbers
               PROVE  /\ IF pinned'[m] = NoVersion
                         THEN asks'[m] = "none" /\ said'[m] = NoAnswers ELSE about'[m] \in Leads
                      /\ about'[m] \in Leads => Number[about'[m]] = m
                      /\ asks'[m] \in Questions => asks'[m] \in Asked(pinned'[m])
                      /\ DOMAIN said'[m] \subseteq Asked(pinned'[m])
    BY DEF ConversationsKeepTheirVersion
  <2>1. CASE m = n
    BY <1>2, <1>3, <1>5, <1>6, <1>9, <2>1, QualificationAssumption DEF NoAnswers, n
  <2>2. CASE m # n
    BY <1>3, <1>6, <2>2 DEF IInv, ConversationsKeepTheirVersion
  <2> QED
    BY <2>1, <2>2
<1>12. AskedSoFar'
  <2> SUFFICES ASSUME NEW m \in Numbers, asks'[m] \in Questions, NEW r \in Asked(pinned'[m]),
                      Index(pinned'[m], r) < Index(pinned'[m], asks'[m])
               PROVE  Covers(said'[m], pinned'[m], r)
    BY DEF AskedSoFar
  <2>1. CASE m = n
    <3>1. Index(v, r) \in 1 .. Len(v.questions) /\ Len(v.questions) \in Nat /\ Index(v, r) < 1
      BY <1>2, <1>5, <1>6, <2>1, IndexIsFirst, AskedType
    <3> QED
      BY <3>1
  <2>2. CASE m # n
    BY <1>3, <1>6, <2>2 DEF IInv, AskedSoFar
  <2> QED
    BY <2>1, <2>2
<1>13. AnswersAreKept' /\ LockedAreActive' /\ ProjectsAreLocked'
  BY <1>3 DEF IInv, AnswersAreKept, LockedAreActive, ProjectsAreLocked, lead_vars, staff_vars, turn_vars, request_vars
<1>14. \A k \in Leads : session[k] # "none" \/ owner[k] # Nobody => Number[k] # n
  BY <1>1 DEF IInv, SessionsKeepTheirVersion, ConversationsKeepTheirVersion
<1>15. SessionsKeepTheirVersion'
  BY <1>3, <1>6, <1>14, QualificationAssumption DEF IInv, SessionsKeepTheirVersion, lead_vars
<1>16. QualifiedAsPinned'
  <2> SUFFICES ASSUME NEW k \in Leads, session'[k] = "completed"
               PROVE  LET m == Number[k]
                          w == stamp'[k]
                      IN /\ w = pinned'[m] /\ DOMAIN said'[m] \subseteq Asked(w)
                         /\ Asked(w) \subseteq DOMAIN said'[m] \cup Passed(w, said'[m]) \cup {Permission}
                         /\ \A r \in DOMAIN said'[m] : \E j \in Leads : Number[j] = m /\ r \in DOMAIN answers'[j]
                         /\ score'[k] = Score(said'[m], TRUE)
    BY DEF QualifiedAsPinned
  <2>1. /\ session[k] = "completed" /\ stamp'[k] = stamp[k] /\ score'[k] = score[k]
        /\ answers' = answers /\ said' = said
    BY <1>3 DEF lead_vars
  <2>2. asks[n] # "qualified"
    BY <1>1 DEF IInv, ConversationsKeepTheirVersion
  <2> QED
    BY <1>1, <1>6, <2>1, <2>2, QualifiedStay
<1> QED
  BY <1>8, <1>10, <1>11, <1>12, <1>13, <1>15, <1>16 DEF IInv

\* A form gives the conversation to another lead of the number.
LEMMA ReassignKeeps ==
  ASSUME IInv, NEW l \in Leads, Reassign(l)
  PROVE  IInv'
<1> DEFINE n == Number[l]
<1>1. /\ n \in Numbers /\ about' = [about EXCEPT ![n] = l]
      /\ UNCHANGED <<config_vars, pinned, asks, said, lead_vars, staff_vars, turn_vars, request_vars, edits>>
  BY QualificationAssumption DEF Reassign
<1>2. Types'
  BY <1>1 DEF IInv, Types, QualificationTypeOK, config_vars, lead_vars, staff_vars, turn_vars, request_vars
<1>3. ConversationsKeepTheirVersion'
  <2>1. about \in [Numbers -> Leads \cup {Nobody}]
    BY DEF IInv, Types, QualificationTypeOK
  <2> QED
    BY <1>1, <2>1 DEF IInv, ConversationsKeepTheirVersion
<1>4. TurnsChoose' /\ AskedSoFar'
  BY <1>1 DEF IInv, TurnsChoose, NextQuestion, AskedSoFar, turn_vars
<1>5. AnswersAreKept' /\ SessionsKeepTheirVersion' /\ QualifiedAsPinned'
  <2>1. AnswersAreKept' /\ SessionsKeepTheirVersion'
    BY <1>1 DEF IInv, AnswersAreKept, SessionsKeepTheirVersion, lead_vars
  <2>2. QualifiedAsPinned'
    BY <1>1 DEF IInv, QualifiedAsPinned, lead_vars
  <2> QED
    BY <2>1, <2>2
<1>6. LockedAreActive' /\ ProjectsAreLocked'
  BY <1>1 DEF IInv, LockedAreActive, ProjectsAreLocked, staff_vars, turn_vars, request_vars
<1> QED
  BY <1>2, <1>3, <1>4, <1>5, <1>6 DEF IInv

LEMMA AnswerKeeps ==
  ASSUME IInv, NEW n \in Numbers, NEW points \in Points, Answer(n, points)
  PROVE  IInv'
<1> DEFINE v == pinned[n]
           q == asks[n]
           next == NextQuestion(n, points)
           l == about[n]
<1>1. /\ q \in Questions /\ turn[n] = "idle" /\ points \in Nat /\ next # "none"
      /\ SaveAnswer(n, points)
      /\ session' = [session EXCEPT ![l] = "in_progress"]
      /\ asks' = [asks EXCEPT ![n] = next]
      /\ UNCHANGED <<config_vars, pinned, about, score, owner, staff_vars, turn_vars, request_vars, edits>>
  BY QualificationAssumption DEF Answer
<1>2. /\ l \in Leads /\ Number[l] = n /\ v \in Versions /\ q \in Asked(v)
      /\ said' \in [Numbers -> Given] /\ answers' \in [Leads -> Given]
      /\ stamp' \in [Leads -> Versions \cup {NoVersion}]
      /\ said'[n] = Noted(said[n], q, points) /\ DOMAIN said'[n] \subseteq Asked(v)
      /\ \A m \in Numbers : m # n => said'[m] = said[m]
      /\ stamp'[l] = v /\ \A k \in Leads : k # l => stamp'[k] = stamp[k]
      /\ \A k \in Leads : DOMAIN answers[k] \subseteq DOMAIN answers'[k]
      /\ AnswersAreKept'
  BY <1>1, SaveAnswerEffect
<1>3. /\ asks \in [Numbers -> Questions \cup Stages] /\ said[n] \in Given
      /\ session \in [Leads -> {"none", "in_progress", "completed"}]
  BY DEF IInv, Types, QualificationTypeOK
<1>4. /\ next \in Asked(v) /\ next \in Questions
      /\ \A r \in Asked(v) : Index(v, r) < Index(v, next) => Covers(said'[n], v, r)
  <2>1. next = Following(v, q, points)
    BY DEF NextQuestion
  <2>2. \A r \in Asked(v) : Index(v, r) < Index(v, q) => Covers(said[n], v, r)
    BY <1>1 DEF IInv, AskedSoFar
  <2>3. Asked(v) \subseteq Questions
    BY <1>2, AskedType
  <2> HIDE DEF v, q, next
  <2> QED
    BY <1>1, <1>2, <1>3, <2>1, <2>2, <2>3, AnswerCovers
<1> HIDE DEF v, q, next, l
<1>5. /\ asks' \in [Numbers -> Questions \cup Stages] /\ asks'[n] = next
      /\ \A m \in Numbers : m # n => asks'[m] = asks[m]
      /\ session' \in [Leads -> {"none", "in_progress", "completed"}] /\ session'[l] = "in_progress"
      /\ \A k \in Leads : k # l => session'[k] = session[k]
  BY <1>1, <1>2, <1>3, <1>4
<1>6. Types'
  <2>1. /\ \A m \in Numbers : DOMAIN said'[m] \subseteq Questions
        /\ \A k \in Leads : DOMAIN answers'[k] \subseteq Questions
    BY <1>2, GivenType
  <2> QED
    BY <1>1, <1>2, <1>5, <2>1
    DEF IInv, Types, QualificationTypeOK, config_vars, staff_vars, turn_vars, request_vars
<1>7. TurnsChoose'
  <2> SUFFICES ASSUME NEW m \in Numbers
               PROVE  IF turn'[m] = "choosing"
                      THEN asks'[m] \in Questions /\ Following(pinned'[m], asks'[m], reply'[m]) = "none"
                      ELSE got'[m] = {}
    BY DEF TurnsChoose, NextQuestion
  <2>1. turn'[m] = turn[m] /\ got'[m] = got[m] /\ reply'[m] = reply[m] /\ pinned'[m] = pinned[m]
    BY <1>1 DEF turn_vars
  <2>2. m = n => turn[m] # "choosing"
    BY <1>1
  <2> QED
    BY <1>5, <2>1, <2>2 DEF IInv, TurnsChoose, NextQuestion
<1>8. ConversationsKeepTheirVersion'
  <2> SUFFICES ASSUME NEW m \in Numbers
               PROVE  /\ IF pinned'[m] = NoVersion
                         THEN asks'[m] = "none" /\ said'[m] = NoAnswers ELSE about'[m] \in Leads
                      /\ about'[m] \in Leads => Number[about'[m]] = m
                      /\ asks'[m] \in Questions => asks'[m] \in Asked(pinned'[m])
                      /\ DOMAIN said'[m] \subseteq Asked(pinned'[m])
    BY DEF ConversationsKeepTheirVersion
  <2>1. CASE m = n
    <3>1. v # NoVersion
      BY <1>1, StagesAskNothing DEF IInv, ConversationsKeepTheirVersion, v, q
    <3> QED
      BY <1>1, <1>2, <1>4, <1>5, <2>1, <3>1 DEF v, l
  <2>2. CASE m # n
    BY <1>1, <1>2, <1>5, <2>2 DEF IInv, ConversationsKeepTheirVersion
  <2> QED
    BY <2>1, <2>2
<1>9. AskedSoFar'
  <2> SUFFICES ASSUME NEW m \in Numbers, asks'[m] \in Questions, NEW r \in Asked(pinned'[m]),
                      Index(pinned'[m], r) < Index(pinned'[m], asks'[m])
               PROVE  Covers(said'[m], pinned'[m], r)
    BY DEF AskedSoFar
  <2>1. CASE m = n
    BY <1>1, <1>4, <1>5, <2>1 DEF v
  <2>2. CASE m # n
    BY <1>1, <1>2, <1>5, <2>2 DEF IInv, AskedSoFar
  <2> QED
    BY <2>1, <2>2
<1>10. asks[n] # "qualified"
  BY <1>1, StagesAskNothing DEF q
<1>11. SessionsKeepTheirVersion'
  <2> SUFFICES ASSUME NEW k \in Leads
               PROVE  /\ session'[k] # "none" => stamp'[k] = pinned'[Number[k]] /\ pinned'[Number[k]] # NoVersion
                      /\ session'[k] = "completed" \/ owner'[k] # Nobody => asks'[Number[k]] = "qualified"
    BY DEF SessionsKeepTheirVersion
  <2>1. Number[k] \in Numbers /\ pinned' = pinned /\ owner' = owner
    BY <1>1, QualificationAssumption
  <2>2. CASE k = l
    <3>1. v # NoVersion
      BY <1>1, StagesAskNothing DEF IInv, ConversationsKeepTheirVersion, v, q
    <3>2. owner[k] = Nobody
      BY <1>2, <1>10, <2>2 DEF IInv, SessionsKeepTheirVersion
    <3> QED
      BY <1>2, <1>5, <2>1, <2>2, <3>1, <3>2 DEF v
  <2>3. CASE k # l
    <3>1. Number[k] = n => session[k] # "completed" /\ owner[k] = Nobody
      BY <1>10 DEF IInv, SessionsKeepTheirVersion
    <3> QED
      BY <1>2, <1>5, <2>1, <2>3, <3>1 DEF IInv, SessionsKeepTheirVersion
  <2> QED
    BY <2>2, <2>3
<1>12. QualifiedAsPinned'
  <2> SUFFICES ASSUME NEW k \in Leads, session'[k] = "completed"
               PROVE  LET m == Number[k]
                          w == stamp'[k]
                      IN /\ w = pinned'[m] /\ DOMAIN said'[m] \subseteq Asked(w)
                         /\ Asked(w) \subseteq DOMAIN said'[m] \cup Passed(w, said'[m]) \cup {Permission}
                         /\ \A r \in DOMAIN said'[m] : \E j \in Leads : Number[j] = m /\ r \in DOMAIN answers'[j]
                         /\ score'[k] = Score(said'[m], TRUE)
    BY DEF QualifiedAsPinned
  <2>1. k # l /\ session[k] = "completed" /\ stamp'[k] = stamp[k] /\ score'[k] = score[k] /\ pinned' = pinned
    BY <1>1, <1>2, <1>5
  <2> QED
    BY <1>2, <1>10, <2>1, QualifiedStay
<1>13. LockedAreActive' /\ ProjectsAreLocked'
  BY <1>1 DEF IInv, LockedAreActive, ProjectsAreLocked, staff_vars, turn_vars, request_vars
<1> QED
  BY <1>2, <1>6, <1>7, <1>8, <1>9, <1>11, <1>12, <1>13 DEF IInv

LEMMA PauseKeeps ==
  ASSUME IInv, NEW n \in Numbers, Pause(n)
  PROVE  IInv'
<1>1. /\ asks[n] = Permission /\ turn[n] = "idle"
      /\ asks' = [asks EXCEPT ![n] = "paused"]
      /\ UNCHANGED <<config_vars, pinned, about, said, lead_vars, staff_vars, turn_vars, request_vars, edits>>
  BY DEF Pause
<1>2. asks \in [Numbers -> Questions \cup Stages] /\ "paused" \in Stages
  BY DEF IInv, Types, QualificationTypeOK, Stages
<1>3. /\ asks' \in [Numbers -> Questions \cup Stages] /\ asks'[n] = "paused" /\ asks'[n] \notin Questions
      /\ \A m \in Numbers : m # n => asks'[m] = asks[m]
  BY <1>1, <1>2, StagesAskNothing
<1>4. Types'
  BY <1>1, <1>3 DEF IInv, Types, QualificationTypeOK, config_vars, lead_vars, staff_vars, turn_vars, request_vars
<1>5. TurnsChoose'
  <2> SUFFICES ASSUME NEW m \in Numbers
               PROVE  IF turn'[m] = "choosing"
                      THEN asks'[m] \in Questions /\ Following(pinned'[m], asks'[m], reply'[m]) = "none"
                      ELSE got'[m] = {}
    BY DEF TurnsChoose, NextQuestion
  <2> QED
    BY <1>1, <1>3 DEF IInv, TurnsChoose, NextQuestion, turn_vars
<1>6. asks[n] \in Questions /\ pinned[n] # NoVersion /\ asks[n] # "qualified"
  BY <1>1, StagesAskNothing, QualificationAssumption DEF IInv, ConversationsKeepTheirVersion
<1>7. ConversationsKeepTheirVersion'
  <2> SUFFICES ASSUME NEW m \in Numbers
               PROVE  /\ IF pinned'[m] = NoVersion
                         THEN asks'[m] = "none" /\ said'[m] = NoAnswers ELSE about'[m] \in Leads
                      /\ about'[m] \in Leads => Number[about'[m]] = m
                      /\ asks'[m] \in Questions => asks'[m] \in Asked(pinned'[m])
                      /\ DOMAIN said'[m] \subseteq Asked(pinned'[m])
    BY DEF ConversationsKeepTheirVersion
  <2> QED
    BY <1>1, <1>3, <1>6 DEF IInv, ConversationsKeepTheirVersion
<1>8. AskedSoFar'
  <2> SUFFICES ASSUME NEW m \in Numbers, asks'[m] \in Questions, NEW r \in Asked(pinned'[m]),
                      Index(pinned'[m], r) < Index(pinned'[m], asks'[m])
               PROVE  Covers(said'[m], pinned'[m], r)
    BY DEF AskedSoFar
  <2> QED
    BY <1>1, <1>3 DEF IInv, AskedSoFar
<1>9. AnswersAreKept' /\ LockedAreActive' /\ ProjectsAreLocked'
  BY <1>1 DEF IInv, AnswersAreKept, LockedAreActive, ProjectsAreLocked,
              lead_vars, staff_vars, turn_vars, request_vars
<1>10. SessionsKeepTheirVersion'
  BY <1>1, <1>3, <1>6, QualificationAssumption DEF IInv, SessionsKeepTheirVersion, lead_vars
<1>11. QualifiedAsPinned'
  BY <1>1 DEF IInv, QualifiedAsPinned, lead_vars
<1> QED
  BY <1>4, <1>5, <1>7, <1>8, <1>9, <1>10, <1>11 DEF IInv

\* A step of a turn that chooses, or begins to, leaves all but the turn as it is.
LEMMA TurnsKept ==
  ASSUME IInv, UNCHANGED <<config_vars, talk_vars, lead_vars, staff_vars, request_vars>>
  PROVE  /\ ConversationsKeepTheirVersion' /\ AskedSoFar' /\ AnswersAreKept'
         /\ SessionsKeepTheirVersion' /\ QualifiedAsPinned' /\ ProjectsAreLocked'
<1> USE DEF IInv, talk_vars, lead_vars
<1>1. ConversationsKeepTheirVersion' /\ SessionsKeepTheirVersion' /\ AnswersAreKept'
  BY DEF ConversationsKeepTheirVersion, SessionsKeepTheirVersion, AnswersAreKept
<1>2. AskedSoFar' /\ QualifiedAsPinned'
  BY DEF AskedSoFar, QualifiedAsPinned
<1>3. ProjectsAreLocked'
  BY DEF ProjectsAreLocked, request_vars
<1> QED
  BY <1>1, <1>2, <1>3

LEMMA CompleteKeeps ==
  ASSUME IInv, NEW n \in Numbers, NEW points \in Points, Complete(n, points)
  PROVE  IInv'
<1>1. /\ asks[n] \in Questions /\ points \in Nat /\ NextQuestion(n, points) = "none"
      /\ turn' = [turn EXCEPT ![n] = "choosing"]
      /\ reply' = [reply EXCEPT ![n] = points]
      /\ seen' = [seen EXCEPT ![n] = [p \in People |-> Load(p)]]
      /\ UNCHANGED <<config_vars, talk_vars, lead_vars, staff_vars, got, request_vars, edits>>
  BY QualificationAssumption DEF Complete
<1>2. \A p \in People : Load(p) \in Nat
  <2> TAKE p \in People
  <2>1. {k \in Leads : owner[k] = p} \in SUBSET Leads
    OBVIOUS
  <2> QED
    BY <2>1, QualificationAssumption, FS_Subset, FS_CardinalityType DEF Load
<1>3. /\ turn \in [Numbers -> {"idle", "choosing", "over"}] /\ reply \in [Numbers -> Nat]
      /\ seen \in [Numbers -> [People -> Nat]]
  BY DEF IInv, Types, QualificationTypeOK
<1>4. Types'
  <2>1. [p \in People |-> Load(p)] \in [People -> Nat]
    BY <1>2
  <2>2. /\ seen' \in [Numbers -> [People -> Nat]] /\ reply' \in [Numbers -> Nat]
        /\ turn' \in [Numbers -> {"idle", "choosing", "over"}]
    BY <1>1, <1>3, <2>1
  <2> QED
    BY <1>1, <2>2 DEF IInv, Types, QualificationTypeOK,
                      config_vars, talk_vars, lead_vars, staff_vars, request_vars
<1>5. TurnsChoose'
  <2> SUFFICES ASSUME NEW m \in Numbers
               PROVE  IF turn'[m] = "choosing"
                      THEN asks'[m] \in Questions /\ Following(pinned'[m], asks'[m], reply'[m]) = "none"
                      ELSE got'[m] = {}
    BY DEF TurnsChoose, NextQuestion
  <2>1. CASE m = n
    BY <1>1, <1>3, <2>1 DEF NextQuestion, talk_vars
  <2>2. CASE m # n
    BY <1>1, <1>3, <2>2 DEF IInv, TurnsChoose, NextQuestion, talk_vars
  <2> QED
    BY <2>1, <2>2
<1>6. LockedAreActive'
  BY <1>1 DEF IInv, LockedAreActive, staff_vars
<1> QED
  BY <1>1, <1>4, <1>5, <1>6, TurnsKept DEF IInv

\* A row is locked only while it is active, and once.
LEMMA TakeKeeps ==
  ASSUME IInv, NEW n \in Numbers, Take(n)
  PROVE  IInv'
<1> DEFINE p == Head(todo[n])
<1>1. /\ turn[n] = "choosing"
      /\ got' = [got EXCEPT ![n] = IF p \in active THEN got[n] \cup {p} ELSE got[n]]
      /\ UNCHANGED <<config_vars, talk_vars, lead_vars, staff_vars, turn, reply, seen, request_vars, edits>>
  BY DEF Take
<1> HIDE DEF p
<1>2. active \subseteq People /\ got \in [Numbers -> SUBSET People]
  BY DEF IInv, Types, QualificationTypeOK
<1>3. Types'
  BY <1>1, <1>2 DEF IInv, Types, QualificationTypeOK, config_vars, talk_vars, lead_vars, staff_vars, request_vars
<1>4. TurnsChoose'
  BY <1>1, <1>2 DEF IInv, TurnsChoose, NextQuestion, talk_vars
<1>5. LockedAreActive'
  BY <1>1, <1>2 DEF IInv, LockedAreActive, staff_vars
<1> QED
  BY <1>1, <1>3, <1>4, <1>5, TurnsKept DEF IInv

LEMMA EndTurnType ==
  ASSUME IInv, NEW n \in Numbers, NEW outcome \in {"idle", "over"}, EndTurn(n, outcome)
  PROVE  /\ turn' \in [Numbers -> {"idle", "choosing", "over"}]
         /\ reply' \in [Numbers -> Nat]
         /\ got' \in [Numbers -> SUBSET People] /\ got'[n] = {} /\ turn'[n] = outcome
         /\ seen' \in [Numbers -> [People -> Nat]]
         /\ \A m \in Numbers : m # n => turn'[m] = turn[m] /\ reply'[m] = reply[m] /\ got'[m] = got[m]
<1>1. [p \in People |-> 0] \in [People -> Nat]
  OBVIOUS
<1>2. seen' \in [Numbers -> [People -> Nat]]
  BY <1>1 DEF EndTurn, IInv, Types
<1> QED
  BY <1>2 DEF EndTurn, IInv, Types, QualificationTypeOK

\* The lead is qualified by the last answer, and given to somebody who is active.
LEMMA RouteEffect ==
  ASSUME IInv, NEW n \in Numbers, Route(n)
  PROVE  /\ asks[n] \in Questions /\ about[n] \in Leads /\ Number[about[n]] = n
         /\ pinned[n] \in Versions /\ pinned[n] # NoVersion
         /\ said' \in [Numbers -> Given] /\ answers' \in [Leads -> Given]
         /\ stamp' \in [Leads -> Versions \cup {NoVersion}]
         /\ \A m \in Numbers : m # n => said'[m] = said[m]
         /\ stamp'[about[n]] = pinned[n] /\ \A k \in Leads : k # about[n] => stamp'[k] = stamp[k]
         /\ \A k \in Leads : DOMAIN answers[k] \subseteq DOMAIN answers'[k]
         /\ AnswersAreKept' /\ DOMAIN said'[n] \subseteq Asked(pinned[n])
         /\ \A r \in Asked(pinned[n]) : Covers(said'[n], pinned[n], r)
         /\ Score(said'[n], TRUE) \in 0 .. 100
         /\ Routed(n) \in active \cup {Nobody} /\ owner[about[n]] = Nobody
<1> DEFINE v == pinned[n]
           q == asks[n]
<1>1. turn[n] = "choosing" /\ SaveAnswer(n, reply[n]) /\ UNCHANGED pinned
  BY DEF Route
<1>2. q \in Questions /\ NextQuestion(n, reply[n]) = "none" /\ reply[n] \in Nat /\ said[n] \in Given
  BY <1>1 DEF IInv, TurnsChoose, Types
<1>3. /\ about[n] \in Leads /\ Number[about[n]] = n /\ v \in Versions /\ q \in Asked(v)
      /\ said' \in [Numbers -> Given] /\ answers' \in [Leads -> Given]
      /\ stamp' \in [Leads -> Versions \cup {NoVersion}]
      /\ said'[n] = Noted(said[n], q, reply[n]) /\ DOMAIN said'[n] \subseteq Asked(v)
      /\ \A m \in Numbers : m # n => said'[m] = said[m]
      /\ stamp'[about[n]] = v /\ \A k \in Leads : k # about[n] => stamp'[k] = stamp[k]
      /\ \A k \in Leads : DOMAIN answers[k] \subseteq DOMAIN answers'[k]
      /\ AnswersAreKept'
  BY <1>1, <1>2, SaveAnswerEffect
<1>4. \A r \in Asked(v) : Covers(said'[n], v, r)
  <2>1. Following(v, q, reply[n]) = "none"
    BY <1>2 DEF NextQuestion
  <2>2. \A r \in Asked(v) : Index(v, r) < Index(v, q) => Covers(said[n], v, r)
    BY <1>2 DEF IInv, AskedSoFar
  <2> HIDE DEF v, q
  <2> QED
    BY <1>2, <1>3, <2>1, <2>2, AnswerCovers
<1>5. Score(said'[n], TRUE) \in 0 .. 100
  <2>1. IsFiniteSet(DOMAIN said'[n])
    BY <1>3, AskedType, FS_Subset
  <2>2. said'[n] \in [DOMAIN said'[n] -> Nat]
    BY <1>3, GivenType
  <2> QED
    BY <2>1, <2>2, ScoreType
<1>6. Routed(n) \in active \cup {Nobody}
  <2>1. got[n] \subseteq active /\ got[n] \subseteq People /\ seen[n] \in [People -> Nat]
    BY DEF IInv, Types, LockedAreActive
  <2> QED
    BY <1>3, <2>1, RoutedIsLocked
<1>7. owner[about[n]] = Nobody /\ v # NoVersion
  BY <1>2, <1>3, StagesAskNothing DEF IInv, SessionsKeepTheirVersion, ConversationsKeepTheirVersion
<1> QED
  BY <1>2, <1>3, <1>4, <1>5, <1>6, <1>7

LEMMA RouteKeeps ==
  ASSUME IInv, NEW n \in Numbers, Route(n)
  PROVE  IInv'
<1> DEFINE l == about[n]
           v == pinned[n]
           s == Score(said'[n], TRUE)
           w == Routed(n)
<1>1. /\ session' = [session EXCEPT ![l] = "completed"]
      /\ score' = [score EXCEPT ![l] = s] /\ owner' = [owner EXCEPT ![l] = w]
      /\ asks' = [asks EXCEPT ![n] = "qualified"]
      /\ EndTurn(n, "over")
      /\ UNCHANGED <<config_vars, pinned, about, staff_vars, request_vars, edits>>
  BY DEF Route
<1>2. /\ turn' \in [Numbers -> {"idle", "choosing", "over"}]
      /\ reply' \in [Numbers -> Nat]
      /\ got' \in [Numbers -> SUBSET People] /\ got'[n] = {} /\ turn'[n] = "over"
      /\ seen' \in [Numbers -> [People -> Nat]]
      /\ \A m \in Numbers : m # n => turn'[m] = turn[m] /\ reply'[m] = reply[m] /\ got'[m] = got[m]
  BY <1>1, EndTurnType
<1>3. /\ asks[n] \in Questions /\ l \in Leads /\ Number[l] = n /\ v # NoVersion
      /\ said' \in [Numbers -> Given] /\ answers' \in [Leads -> Given]
      /\ stamp' \in [Leads -> Versions \cup {NoVersion}]
      /\ \A m \in Numbers : m # n => said'[m] = said[m]
      /\ stamp'[l] = v /\ \A k \in Leads : k # l => stamp'[k] = stamp[k]
      /\ \A k \in Leads : DOMAIN answers[k] \subseteq DOMAIN answers'[k]
      /\ AnswersAreKept' /\ DOMAIN said'[n] \subseteq Asked(v)
      /\ \A r \in Asked(v) : Covers(said'[n], v, r)
      /\ s \in 0 .. 100 /\ w \in active \cup {Nobody}
  BY RouteEffect
<1>4. /\ session \in [Leads -> {"none", "in_progress", "completed"}] /\ active \subseteq People
      /\ score \in [Leads -> 0 .. 100] /\ owner \in [Leads -> People \cup {Nobody}]
      /\ asks \in [Numbers -> Questions \cup Stages] /\ "qualified" \in Stages
  BY DEF IInv, Types, QualificationTypeOK, Stages
<1>5. score'[l] = Score(said'[n], TRUE)
  BY <1>1, <1>3, <1>4
<1> HIDE DEF l, v, s, w
<1>6. /\ \A k \in Leads : k # l => session'[k] = session[k] /\ score'[k] = score[k] /\ owner'[k] = owner[k]
      /\ asks'[n] = "qualified" /\ asks'[n] \notin Questions
      /\ \A m \in Numbers : m # n => asks'[m] = asks[m]
  BY <1>1, <1>4, StagesAskNothing
<1>7. Types'
  <2>1. /\ \A m \in Numbers : DOMAIN said'[m] \subseteq Questions
        /\ \A k \in Leads : DOMAIN answers'[k] \subseteq Questions
    BY <1>3, GivenType
  <2>2. /\ session' \in [Leads -> {"none", "in_progress", "completed"}]
        /\ score' \in [Leads -> 0 .. 100] /\ owner' \in [Leads -> People \cup {Nobody}]
        /\ asks' \in [Numbers -> Questions \cup Stages]
    BY <1>1, <1>3, <1>4
  <2> QED
    BY <1>1, <1>2, <1>3, <2>1, <2>2 DEF IInv, Types, QualificationTypeOK, config_vars, staff_vars, request_vars
<1>8. TurnsChoose'
  <2> SUFFICES ASSUME NEW m \in Numbers
               PROVE  IF turn'[m] = "choosing"
                      THEN asks'[m] \in Questions /\ Following(pinned'[m], asks'[m], reply'[m]) = "none"
                      ELSE got'[m] = {}
    BY DEF TurnsChoose, NextQuestion
  <2> QED
    BY <1>1, <1>2, <1>6 DEF IInv, TurnsChoose, NextQuestion
<1>9. ConversationsKeepTheirVersion'
  <2> SUFFICES ASSUME NEW m \in Numbers
               PROVE  /\ IF pinned'[m] = NoVersion
                         THEN asks'[m] = "none" /\ said'[m] = NoAnswers ELSE about'[m] \in Leads
                      /\ about'[m] \in Leads => Number[about'[m]] = m
                      /\ asks'[m] \in Questions => asks'[m] \in Asked(pinned'[m])
                      /\ DOMAIN said'[m] \subseteq Asked(pinned'[m])
    BY DEF ConversationsKeepTheirVersion
  <2>1. CASE m = n
    BY <1>1, <1>3, <1>6, <2>1 DEF l, v
  <2>2. CASE m # n
    BY <1>1, <1>3, <1>6, <2>2 DEF IInv, ConversationsKeepTheirVersion
  <2> QED
    BY <2>1, <2>2
<1>10. AskedSoFar'
  <2> SUFFICES ASSUME NEW m \in Numbers, asks'[m] \in Questions, NEW r \in Asked(pinned'[m]),
                      Index(pinned'[m], r) < Index(pinned'[m], asks'[m])
               PROVE  Covers(said'[m], pinned'[m], r)
    BY DEF AskedSoFar
  <2>1. m # n
    BY <1>6
  <2> QED
    BY <1>1, <1>3, <1>6, <2>1 DEF IInv, AskedSoFar
<1>11. SessionsKeepTheirVersion'
  <2> SUFFICES ASSUME NEW k \in Leads
               PROVE  /\ session'[k] # "none" => stamp'[k] = pinned'[Number[k]] /\ pinned'[Number[k]] # NoVersion
                      /\ session'[k] = "completed" \/ owner'[k] # Nobody => asks'[Number[k]] = "qualified"
    BY DEF SessionsKeepTheirVersion
  <2>1. Number[k] \in Numbers
    BY QualificationAssumption
  <2>2. CASE k = l
    BY <1>1, <1>3, <1>6, <2>2 DEF v
  <2>3. CASE k # l
    BY <1>1, <1>3, <1>6, <2>1, <2>3 DEF IInv, SessionsKeepTheirVersion
  <2> QED
    BY <2>2, <2>3
<1>12. QualifiedAsPinned'
  <2> SUFFICES ASSUME NEW k \in Leads, session'[k] = "completed"
               PROVE  LET m == Number[k]
                          u == stamp'[k]
                      IN /\ u = pinned'[m] /\ DOMAIN said'[m] \subseteq Asked(u)
                         /\ Asked(u) \subseteq DOMAIN said'[m] \cup Passed(u, said'[m]) \cup {Permission}
                         /\ \A r \in DOMAIN said'[m] : \E j \in Leads : Number[j] = m /\ r \in DOMAIN answers'[j]
                         /\ score'[k] = Score(said'[m], TRUE)
    BY DEF QualifiedAsPinned
  <2>1. CASE k = l
    <3>1. \A r \in DOMAIN said'[n] : \E j \in Leads : Number[j] = n /\ r \in DOMAIN answers'[j]
      BY <1>3 DEF AnswersAreKept
    <3> QED
      BY <1>1, <1>3, <1>5, <2>1, <3>1 DEF Covers, v
  <2>2. CASE k # l
    <3>1. session[k] = "completed" /\ stamp'[k] = stamp[k] /\ score'[k] = score[k] /\ UNCHANGED pinned
      BY <1>1, <1>3, <1>6, <2>2
    <3>2. asks[n] # "qualified"
      BY <1>3, StagesAskNothing
    <3> QED
      BY <1>3, <3>1, <3>2, QualifiedStay
  <2> QED
    BY <2>1, <2>2
<1>13. LockedAreActive' /\ ProjectsAreLocked'
  BY <1>1, <1>2 DEF IInv, LockedAreActive, ProjectsAreLocked, staff_vars, request_vars
<1> QED
  BY <1>3, <1>7, <1>8, <1>9, <1>10, <1>11, <1>12, <1>13 DEF IInv

\* A turn that is aborted leaves nothing.
LEMMA VictimKeeps ==
  ASSUME IInv, NEW n \in Numbers, VictimTurn(n)
  PROVE  IInv'
<1>1. EndTurn(n, "idle") /\ UNCHANGED <<config_vars, talk_vars, lead_vars, staff_vars, request_vars, edits>>
  BY DEF VictimTurn
<1>2. /\ turn' \in [Numbers -> {"idle", "choosing", "over"}]
      /\ reply' \in [Numbers -> Nat]
      /\ got' \in [Numbers -> SUBSET People] /\ got'[n] = {} /\ turn'[n] = "idle"
      /\ seen' \in [Numbers -> [People -> Nat]]
      /\ \A m \in Numbers : m # n => turn'[m] = turn[m] /\ reply'[m] = reply[m] /\ got'[m] = got[m]
  BY <1>1, EndTurnType
<1>3. Types'
  BY <1>1, <1>2 DEF IInv, Types, QualificationTypeOK, config_vars, talk_vars, lead_vars, staff_vars, request_vars
<1>4. TurnsChoose'
  BY <1>1, <1>2 DEF IInv, TurnsChoose, NextQuestion, talk_vars
<1>5. LockedAreActive'
  BY <1>1, <1>2 DEF IInv, LockedAreActive, staff_vars
<1> QED
  BY <1>1, <1>3, <1>4, <1>5, TurnsKept DEF IInv

-----------------------------------------------------------------------------
(* The theorems. *)

LEMMA IInvInit == Init => IInv
<1> SUFFICES ASSUME Init
             PROVE  IInv
  OBVIOUS
<1> USE DEF Init
<1>1. NoAnswers \in Given /\ DOMAIN NoAnswers = {}
  <2>1. NoAnswers \in [{} -> Nat] /\ {} \in SUBSET Questions
    BY DEF NoAnswers
  <2> QED
    BY <2>1 DEF Given
<1>2. "none" \in Stages /\ "none" \notin Questions
  BY StagesAskNothing DEF Stages
<1>3. QualificationTypeOK
  BY <1>1, <1>2, QualificationAssumption DEF QualificationTypeOK, Scopes
<1>4. Types
  BY <1>1, <1>2, <1>3 DEF Types
<1>5. TurnsChoose /\ LockedAreActive /\ ProjectsAreLocked /\ QualifiedAsPinned
  BY DEF TurnsChoose, LockedAreActive, ProjectsAreLocked, QualifiedAsPinned
<1>6. SessionsKeepTheirVersion /\ AskedSoFar /\ AnswersAreKept
  BY <1>1, <1>2 DEF SessionsKeepTheirVersion, AskedSoFar, AnswersAreKept
<1>7. ConversationsKeepTheirVersion
  <2>1. \A n \in Numbers : about[n] \in Leads => Number[about[n]] = n
    BY QualificationAssumption
  <2> QED
    BY <1>1, <1>2, <2>1 DEF ConversationsKeepTheirVersion
<1> QED
  BY <1>4, <1>5, <1>6, <1>7 DEF IInv

\* The inductive invariant: whose row a turn has locked stays active, a request has
\* deleted all there was, a conversation has gone through the questions of its version up to
\* the one it asks, and a session is stamped with it.
THEOREM QualificationInvariant == Spec => []IInv
<1>1. IInv /\ [Next]_vars => IInv'
  <2> SUFFICES ASSUME IInv, [Next]_vars
               PROVE  IInv'
    OBVIOUS
  <2>1. CASE UNCHANGED vars
    <3>1. Types' /\ LockedAreActive' /\ ProjectsAreLocked'
      BY <2>1 DEF IInv, Types, QualificationTypeOK, LockedAreActive, ProjectsAreLocked, vars,
                  config_vars, talk_vars, lead_vars, staff_vars, turn_vars, request_vars
    <3> QED
      BY <2>1, <3>1, LeadsKept DEF IInv, vars
  <2>2. ASSUME NEW n \in Numbers, TalkStep(n)
        PROVE  IInv'
    BY <2>2, PauseKeeps, TakeKeeps, RouteKeeps, VictimKeeps, CompleteKeeps, AnswerKeeps DEF TalkStep
  <2>3. ASSUME NEW l \in Leads, FormStep(l)
        PROVE  IInv'
    BY <2>3, ActivateKeeps, ReassignKeeps DEF FormStep
  <2>4. CASE DirectoryStep
    BY <2>4, StaffKeeps, RequestKeeps DEF DirectoryStep
  <2> QED
    BY <2>1, <2>2, <2>3, <2>4, ConfigKeeps DEF Next
<1> QED
  BY <1>1, IInvInit, PTL DEF Spec

\* Versions, answers, scores and requests keep their types: a score is a percentage,
\* whatever the answers are worth (lead-scoring.ts:55-174).
THEOREM QualificationTyped == Spec => []QualificationTypeOK
<1>1. IInv => QualificationTypeOK
  BY DEF IInv, Types
<1> QED
  BY <1>1, QualificationInvariant, PTL

\* A qualified lead has gone through the questions of the version its conversation began
\* with, whatever is published, activated or aborted meanwhile and whichever lead of the
\* number the conversation was about: none is left out but those a plan passes over.
THEOREM LeadsQualifiedAsPinned == Spec => []QualifiedAsPinned
<1>1. IInv => QualifiedAsPinned
  BY DEF IInv
<1> QED
  BY <1>1, QualificationInvariant, PTL

\* The staff of a project is always a set that somebody chose: the request that writes
\* it has deleted all the rows there are.
THEOREM StaffIsWhole == Spec => WholeSets
<1>1. IInv /\ [Next]_vars =>
        [eligible' # eligible => \E r \in Requests : eligible' = WantedSet(r)]_vars
  <2> SUFFICES ASSUME IInv, Next, eligible' # eligible
               PROVE  \E r \in Requests : eligible' = WantedSet(r)
    OBVIOUS
  <2>1. PICK r \in Requests : SetProjectSalespeople(r)
    BY DEF Next, TalkStep, FormStep, DirectoryStep, ConfigStep, Activate, Reassign, Pause, Take, Route, VictimTurn, Complete, Answer,
           Hire, SetActive, LockProject, InsertRow, VictimRequest, Publish, ActivateVersion, request_vars
  <2>2. removed[r] = eligible
    BY <2>1 DEF SetProjectSalespeople, IInv, ProjectsAreLocked
  <2> QED
    BY <2>1, <2>2 DEF SetProjectSalespeople
<1> QED
  BY <1>1, QualificationInvariant, PTL DEF Spec, WholeSets

\* A lead goes to somebody who is active when it is given: the row stays locked from
\* the choice to the commit, and who deactivates waits for it.
THEOREM LeadsGoToTheActive == Spec => NoLeadForTheAbsent
<1>1. IInv /\ [Next]_vars => [\A l \in Leads : owner'[l] # owner[l] => owner'[l] \in active]_vars
  <2> SUFFICES ASSUME IInv, Next, NEW l \in Leads, owner'[l] # owner[l]
               PROVE  owner'[l] \in active
    OBVIOUS
  <2>1. PICK n \in Numbers : Route(n)
    BY DEF Next, TalkStep, FormStep, DirectoryStep, ConfigStep, Activate, Reassign, Pause, Take, VictimTurn, Complete, Answer,
           Hire, SetActive, LockProject, InsertRow, SetProjectSalespeople, VictimRequest,
           Publish, ActivateVersion, lead_vars
  <2>2. owner' = [owner EXCEPT ![about[n]] = Routed(n)] /\ owner \in [Leads -> People \cup {Nobody}]
    BY <2>1 DEF Route, IInv, Types, QualificationTypeOK
  <2>3. Routed(n) \in active \cup {Nobody} /\ owner[about[n]] = Nobody
    BY <2>1, RouteEffect
  <2> QED
    BY <2>2, <2>3
<1> QED
  BY <1>1, QualificationInvariant, PTL DEF Spec, NoLeadForTheAbsent
=============================================================================
