--------------------- MODULE StartTournamentWindowProofs ---------------------
(***************************************************************************)
(* Proofs about the window in which a tournament is put together, for any  *)
(* directories and any sequence of callbacks: the lists and the rows shown *)
(* agree, what is started can be played, and the file that is saved gives  *)
(* the same tournament back.                                               *)
(*                                                                         *)
(* Three loops are modelled by recursive functions.  That such a function  *)
(* exists, and what it computes, is shown by induction over a set of       *)
(* numbers (Induction) and, where there is no closed form, by building it  *)
(* step by step (Iterates).                                                *)
(***************************************************************************)
EXTENDS StartTournamentWindow, FiniteSetTheorems, SequenceTheorems, NaturalsInduction,
        WellFoundedInduction, TLAPS

-----------------------------------------------------------------------------
(***************************************************************************)
(* Induction and recursion.                                                *)
(***************************************************************************)

\* Induction over the numbers up to n, for a property given as the set of the
\* numbers that have it.
LEMMA Induction ==
    ASSUME NEW n \in Nat, NEW S, 0 \in S, \A i \in 1 .. n : i - 1 \in S => i \in S
    PROVE  \A i \in 0 .. n : i \in S
<1> DEFINE wrong == {i \in 0 .. n : i \notin S}
           R == {ss \in Nat \X Nat : ss[1] < ss[2]}
<1>1. SUFFICES ASSUME wrong # {} PROVE FALSE
  OBVIOUS
<1>2. wrong \subseteq Nat
  OBVIOUS
<1>3. IsWellFoundedOn(R, Nat)
  BY NatLessThanWellFounded DEF OpToRel
<1>4. PICK x \in wrong : \A y \in wrong : ~ (<<y, x>> \in R)
  <2> HIDE DEF R, wrong
  <2> QED
    BY <1>1, <1>2, <1>3, WFMin
<1>5. x \in 1 .. n /\ x - 1 \in 0 .. n /\ <<x - 1, x>> \in R
  BY <1>4
<1> QED
  BY <1>4, <1>5

\* The step leads from stage to stage, n times, beginning with a.
Leads(n, X, stage, step, a) ==
    /\ a \in X /\ a \in stage[0]
    /\ \A i \in 1 .. n : \A v \in X :
          v \in stage[i - 1] => step[<<i, v>>] \in X /\ step[<<i, v>>] \in stage[i]

\* f is the recursive function that the step defines.
Iteration(n, X, stage, step, a, f) ==
    /\ f \in [0 .. n -> X]
    /\ f[0] = a
    /\ \A i \in 1 .. n : f[i] = step[<<i, f[i - 1]>>]
    /\ \A i \in 0 .. n : f[i] \in stage[i]

\* A recursive function exists if the step leads from stage to stage.
LEMMA Iterates ==
    ASSUME NEW n \in Nat, NEW X, NEW stage, NEW step, NEW a, Leads(n, X, stage, step, a)
    PROVE  \E f : Iteration(n, X, stage, step, a, f)
<1> USE DEF Leads, Iteration
<1> DEFINE Upto(m, f) == Iteration(m, X, stage, step, a, f)
           S == {m \in 0 .. n : \E f : Upto(m, f)}
<1>1. 0 \in S
  <2> DEFINE f == [i \in 0 .. 0 |-> a]
  <2>1. f \in [0 .. 0 -> X] /\ f[0] = a /\ \A i \in 0 .. 0 : f[i] \in stage[i]
    <3>1. \A i \in 0 .. 0 : i = 0
      OBVIOUS
    <3> QED
      BY <3>1
  <2>2. \A i \in 1 .. 0 : FALSE
    OBVIOUS
  <2> HIDE DEF f
  <2>3. Upto(0, f)
    BY <2>1, <2>2
  <2> QED
    BY <2>3
<1>2. ASSUME NEW m \in 1 .. n, m - 1 \in S
      PROVE  m \in S
  <2>1. PICK f : Upto(m - 1, f)
    BY <1>2
  <2> DEFINE g == [i \in 0 .. m |-> IF i = m THEN step[<<m, f[m - 1]>>] ELSE f[i]]
  <2>2. f[m - 1] \in X /\ f[m - 1] \in stage[m - 1]
    BY <2>1
  <2>3. step[<<m, f[m - 1]>>] \in X /\ step[<<m, f[m - 1]>>] \in stage[m]
    BY <2>2
  <2>4. \A i \in 0 .. m - 1 : f[i] \in X /\ g[i] = f[i]
    BY <2>1
  <2>5. g[m] = step[<<m, g[m - 1]>>] /\ g[m] \in X /\ g[m] \in stage[m]
    BY <2>3, <2>4
  <2>6. \A i \in 0 .. m : i = m \/ i \in 0 .. m - 1
    OBVIOUS
  <2>7. g \in [0 .. m -> X] /\ g[0] = a
    BY <2>1, <2>3, <2>4
  <2>8. \A i \in 0 .. m : g[i] \in stage[i]
    <3> HIDE DEF g
    <3> QED
      BY <2>1, <2>4, <2>5, <2>6
  <2>9. \A i \in 1 .. m : g[i] = step[<<i, g[i - 1]>>]
    <3> TAKE i \in 1 .. m
    <3>1. CASE i = m
      BY <2>5, <3>1
    <3>2. CASE i # m
      <4>1. i \in 1 .. m - 1 /\ i \in 0 .. m - 1 /\ i - 1 \in 0 .. m - 1
        BY <3>2
      <4>2. g[i] = f[i] /\ g[i - 1] = f[i - 1]
        BY <2>4, <4>1
      <4> HIDE DEF g
      <4> QED
        BY <2>1, <4>1, <4>2
    <3> QED
      BY <3>1, <3>2
  <2>10. Upto(m, g)
    <3> HIDE DEF g
    <3> QED
      BY <2>7, <2>8, <2>9
  <2> HIDE DEF g, Upto
  <2> QED
    BY <2>10
<1>3. n \in S
  <2> HIDE DEF S
  <2> QED
    BY <1>1, <1>2, Induction
<1> QED
  BY <1>3
-----------------------------------------------------------------------------
(***************************************************************************)
(* binomial is a number, so that a button can put it into an entry.        *)
(***************************************************************************)
LEMMA ProductPositive ==
    ASSUME NEW i \in Nat \ {0}, NEW v \in Nat \ {0}
    PROVE  i * v \in Nat \ {0}
OBVIOUS

\* A factorial is a positive number, so that it can be divided by.
LEMMA FactorialType ==
    ASSUME NEW k \in Nat
    PROVE  Factorial(k) \in Nat \ {0}
<1> DEFINE X == Nat \ {0}
           Is(f) == f = [i \in 0 .. k |-> IF i = 0 THEN 1 ELSE i * f[i - 1]]
           stage == [i \in 0 .. k |-> X]
           step == [p \in (1 .. k) \X X |-> p[1] * p[2]]
<1>1. \A i \in 1 .. k, v \in X : step[<<i, v>>] = i * v /\ i * v \in X
  BY ProductPositive
<1>2. \E f \in [0 .. k -> X] : f[0] = 1 /\ \A i \in 1 .. k : f[i] = step[<<i, f[i - 1]>>]
  <2>1. 1 \in X /\ \A i \in 0 .. k : stage[i] = X
    OBVIOUS
  <2>2. \A i \in 1 .. k : i - 1 \in 0 .. k /\ i \in 0 .. k
    OBVIOUS
  <2> HIDE DEF X, stage, step
  <2>3. Leads(k, X, stage, step, 1)
    BY <1>1, <2>1, <2>2 DEF Leads
  <2>4. PICK f : Iteration(k, X, stage, step, 1, f)
    BY <2>3, Iterates
  <2> QED
    BY <2>4 DEF Iteration
<1>3. PICK f \in [0 .. k -> X] :
         f[0] = 1 /\ \A i \in 1 .. k : f[i] = step[<<i, f[i - 1]>>]
  BY <1>2
<1>4. Is(f)
  <2>1. \A i \in 1 .. k : f[i] = i * f[i - 1]
    <3> TAKE i \in 1 .. k
    <3>1. f[i - 1] \in X
      OBVIOUS
    <3> HIDE DEF step
    <3> QED
      BY <1>1, <1>3, <3>1
  <2>2. \A i \in 0 .. k : i = 0 \/ i \in 1 .. k
    OBVIOUS
  <2> HIDE DEF step, X
  <2>3. \A i \in 0 .. k : f[i] = IF i = 0 THEN 1 ELSE i * f[i - 1]
    BY <1>3, <2>1, <2>2
  <2> QED
    BY <2>3
<1>5. PICK h : Is(h) /\ Factorial(k) = h[k]
  <2>1. Factorial(k) = (CHOOSE h : Is(h))[k]
    BY DEF Factorial
  <2> HIDE DEF Is
  <2> QED
    BY <1>4, <2>1
<1> DEFINE S == {i \in 0 .. k : h[i] \in X}
<1>6. 0 \in S
  BY <1>5
<1>7. ASSUME NEW i \in 1 .. k, i - 1 \in S
      PROVE  i \in S
  <2>1. h[i] = i * h[i - 1]
    BY <1>5
  <2> QED
    BY <1>1, <1>7, <2>1
<1>8. k \in S
  <2> HIDE DEF S
  <2>1. \A i \in 0 .. k : i \in S
    BY <1>6, <1>7, Induction
  <2> QED
    BY <2>1
<1> QED
  BY <1>5, <1>8

\* The numerator of a binomial is a number.
LEMMA FallingFactorialType ==
    ASSUME NEW n \in Int, NEW k \in Nat
    PROVE  FallingFactorial(n, k) \in Int
<1> DEFINE Is(f) == f = [i \in 0 .. k |-> IF i = 0 THEN 1 ELSE (n - i + 1) * f[i - 1]]
           stage == [i \in 0 .. k |-> Int]
           step == [p \in (1 .. k) \X Int |-> (n - p[1] + 1) * p[2]]
<1>1. \A i \in 1 .. k, v \in Int : /\ step[<<i, v>>] = (n - i + 1) * v
                                   /\ (n - i + 1) * v \in Int
  OBVIOUS
<1>2. \E f \in [0 .. k -> Int] : f[0] = 1 /\ \A i \in 1 .. k : f[i] = step[<<i, f[i - 1]>>]
  <2>1. 1 \in Int /\ \A i \in 0 .. k : stage[i] = Int
    OBVIOUS
  <2>2. \A i \in 1 .. k : i - 1 \in 0 .. k /\ i \in 0 .. k
    OBVIOUS
  <2> HIDE DEF stage, step
  <2>3. Leads(k, Int, stage, step, 1)
    BY <1>1, <2>1, <2>2 DEF Leads
  <2>4. PICK f : Iteration(k, Int, stage, step, 1, f)
    BY <2>3, Iterates
  <2> QED
    BY <2>4 DEF Iteration
<1>3. PICK f \in [0 .. k -> Int] :
         f[0] = 1 /\ \A i \in 1 .. k : f[i] = step[<<i, f[i - 1]>>]
  BY <1>2
<1>4. Is(f)
  <2>1. \A i \in 1 .. k : f[i] = (n - i + 1) * f[i - 1]
    <3> TAKE i \in 1 .. k
    <3>1. f[i - 1] \in Int
      OBVIOUS
    <3> HIDE DEF step
    <3> QED
      BY <1>1, <1>3, <3>1
  <2>2. \A i \in 0 .. k : i = 0 \/ i \in 1 .. k
    OBVIOUS
  <2> HIDE DEF step
  <2>3. \A i \in 0 .. k : f[i] = IF i = 0 THEN 1 ELSE (n - i + 1) * f[i - 1]
    BY <1>3, <2>1, <2>2
  <2> QED
    BY <2>3
<1>5. PICK h : Is(h) /\ FallingFactorial(n, k) = h[k]
  <2>1. FallingFactorial(n, k) = (CHOOSE h : Is(h))[k]
    BY DEF FallingFactorial
  <2> HIDE DEF Is
  <2> QED
    BY <1>4, <2>1
<1> DEFINE S == {i \in 0 .. k : h[i] \in Int}
<1>6. 0 \in S
  BY <1>5
<1>7. ASSUME NEW i \in 1 .. k, i - 1 \in S
      PROVE  i \in S
  <2>1. h[i] = (n - i + 1) * h[i - 1]
    BY <1>5
  <2> QED
    BY <1>1, <1>7, <2>1
<1>8. k \in S
  <2> HIDE DEF S
  <2>1. \A i \in 0 .. k : i \in S
    BY <1>6, <1>7, Induction
  <2> QED
    BY <2>1
<1> QED
  BY <1>5, <1>8

\* binomial returns a number.
LEMMA BinomialType ==
    ASSUME NEW n \in Int, NEW k \in Int
    PROVE  binomial(n, k) \in Int
<1> DEFINE k2  == IF k <= n - k THEN k ELSE n - k
           bin == IF k2 <= 0 THEN 1 ELSE FallingFactorial(n, k2) \div Factorial(k2)
<1>1. k2 \in Int
  OBVIOUS
<1>2. bin \in Int
  <2> HIDE DEF k2
  <2>1. CASE k2 <= 0
    BY <2>1
  <2>2. CASE ~ (k2 <= 0)
    <3>1. k2 \in Nat
      BY <1>1, <2>2
    <3>2. FallingFactorial(n, k2) \in Int /\ Factorial(k2) \in Nat \ {0}
      BY <3>1, FactorialType, FallingFactorialType
    <3>3. FallingFactorial(n, k2) \div Factorial(k2) \in Int
      BY <3>2
    <3> QED
      BY <2>2, <3>3
  <2> QED
    BY <2>1, <2>2
<1>3. binomial(n, k) = IF bin < IntMax THEN bin ELSE IntMax
  BY DEF binomial
<1> HIDE DEF bin
<1> QED
  BY <1>2, <1>3, IntMaxAssumption
-----------------------------------------------------------------------------
(***************************************************************************)
(* The lists.                                                              *)
(***************************************************************************)

\* add_all_selected adds nothing that is not in the directory.
LEMMA ChosenType ==
    ASSUME NEW F, NEW dir \in Seq(F), NEW files
    PROVE  Chosen(dir, files) \in Seq(F)
<1> DEFINE X == Seq(F)
           k == Len(dir)
           Step(i, v) == IF dir[i] \in files THEN Append(v, dir[i]) ELSE v
           Is(f) == f = [i \in 0 .. k |-> IF i = 0 THEN <<>>
                                          ELSE IF dir[i] \in files
                                               THEN Append(f[i - 1], dir[i])
                                               ELSE f[i - 1]]
           stage == [i \in 0 .. k |-> X]
           step == [p \in (1 .. k) \X X |-> Step(p[1], p[2])]
<1>0. k \in Nat
  OBVIOUS
<1>1. \A i \in 1 .. k, v \in X : step[<<i, v>>] = Step(i, v) /\ Step(i, v) \in X
  <2> TAKE i \in 1 .. k, v \in X
  <2>1. dir[i] \in F
    OBVIOUS
  <2> QED
    BY <2>1
<1>2. PICK f : Iteration(k, X, stage, step, <<>>, f)
  <2>1. <<>> \in X /\ \A i \in 0 .. k : stage[i] = X
    OBVIOUS
  <2>2. \A i \in 1 .. k : i - 1 \in 0 .. k /\ i \in 0 .. k /\ 0 \in 0 .. k
    BY <1>0
  <2>4. 0 \in 0 .. k
    BY <1>0
  <2> HIDE DEF X, stage, step, Step, k
  <2>3. Leads(k, X, stage, step, <<>>)
    BY <1>1, <2>1, <2>2, <2>4 DEF Leads
  <2> QED
    BY <1>0, <2>3, Iterates
<1>3. Is(f)
  <2>1. \A i \in 1 .. k : f[i] = Step(i, f[i - 1])
    <3> TAKE i \in 1 .. k
    <3>1. f[i - 1] \in X
      BY <1>2 DEF Iteration
    <3> HIDE DEF step, X, Step
    <3> QED
      BY <1>1, <1>2, <3>1 DEF Iteration
  <2>2. \A i \in 0 .. k : i = 0 \/ i \in 1 .. k
    OBVIOUS
  <2>3. f \in [0 .. k -> X] /\ f[0] = <<>>
    BY <1>2 DEF Iteration
  <2> HIDE DEF step, X, k
  <2>4. \A i \in 0 .. k : f[i] = IF i = 0 THEN <<>>
                                 ELSE IF dir[i] \in files THEN Append(f[i - 1], dir[i])
                                 ELSE f[i - 1]
    BY <2>1, <2>2, <2>3
  <2> QED
    BY <2>3, <2>4
<1>4. PICK h : Is(h) /\ Chosen(dir, files) = h[k]
  <2>1. Chosen(dir, files) = (CHOOSE h : Is(h))[k]
    BY DEF Chosen
  <2> HIDE DEF Is, k
  <2> QED
    BY <1>3, <2>1
<1> DEFINE S == {i \in 0 .. k : h[i] \in X}
<1>5. 0 \in S
  BY <1>0, <1>4
<1>6. ASSUME NEW i \in 1 .. k, i - 1 \in S
      PROVE  i \in S
  <2>1. i \in 0 .. k /\ i # 0 /\ h[i - 1] \in X
    BY <1>0, <1>6
  <2> HIDE DEF X, k
  <2>2. h[i] = Step(i, h[i - 1])
    BY <1>4, <2>1
  <2> HIDE DEF Step
  <2>3. h[i] \in X
    BY <1>1, <2>1, <2>2
  <2> QED
    BY <2>1, <2>3
<1>7. k \in S
  <2> HIDE DEF S, k
  <2>1. \A i \in 0 .. k : i \in S
    BY <1>0, <1>5, <1>6, Induction
  <2> QED
    BY <1>0, <2>1
<1> QED
  BY <1>4, <1>7

\* A sequence without its i-th element.
LEMMA WithoutIndexIs ==
    ASSUME NEW X, NEW s \in Seq(X), NEW i \in 1 .. Len(s)
    PROVE  /\ WithoutIndex(s, i) \in Seq(X)
           /\ Len(WithoutIndex(s, i)) = Len(s) - 1
           /\ \A j \in 1 .. Len(s) - 1 :
                 WithoutIndex(s, i)[j] = IF j < i THEN s[j] ELSE s[j + 1]
<1> DEFINE a == SubSeq(s, 1, i - 1)
           b == SubSeq(s, i + 1, Len(s))
<1>1. Len(s) \in Nat
  OBVIOUS
<1>2. a \in Seq(X) /\ Len(a) = i - 1 /\ \A j \in 1 .. i - 1 : a[j] = s[j]
  BY <1>1
<1>3. b \in Seq(X) /\ Len(b) = Len(s) - i /\ \A j \in 1 .. Len(s) - i : b[j] = s[j + i]
  BY <1>1
<1>4. WithoutIndex(s, i) = a \o b
  BY DEF WithoutIndex
<1> HIDE DEF a, b
<1>5. /\ a \o b \in Seq(X) /\ Len(a \o b) = Len(a) + Len(b)
      /\ \A j \in 1 .. Len(a) + Len(b) :
            (a \o b)[j] = IF j <= Len(a) THEN a[j] ELSE b[j - Len(a)]
  BY <1>2, <1>3, ConcatProperties
<1> DEFINE w == a \o b
<1> HIDE DEF w
<1>6. w \in Seq(X) /\ Len(w) = Len(s) - 1
  BY <1>1, <1>2, <1>3, <1>5 DEF w
<1>7. ASSUME NEW j \in 1 .. Len(s) - 1
      PROVE  w[j] = IF j < i THEN s[j] ELSE s[j + 1]
  <2>1. j \in 1 .. Len(a) + Len(b)
    BY <1>1, <1>2, <1>3
  <2>2. CASE j < i
    <3>1. j <= Len(a) /\ j \in 1 .. i - 1
      BY <1>2, <2>2
    <3>2. w[j] = a[j]
      BY <1>5, <2>1, <3>1 DEF w
    <3> QED
      BY <1>2, <2>2, <3>1, <3>2
  <2>3. CASE ~ (j < i)
    <3>1. ~ (j <= Len(a)) /\ j - (i - 1) \in 1 .. Len(s) - i /\ (j - (i - 1)) + i = j + 1
      BY <1>1, <1>2, <2>3
    <3>2. w[j] = b[j - (i - 1)]
      BY <1>2, <1>5, <2>1, <3>1 DEF w
    <3>3. b[j - (i - 1)] = s[(j - (i - 1)) + i]
      BY <1>3, <3>1
    <3> QED
      BY <2>3, <3>1, <3>2, <3>3
  <2> QED
    BY <2>2, <2>3
<1> QED
  BY <1>4, <1>6, <1>7 DEF w

InfoOf(F) == [file : F, row : Nat, selected : BOOLEAN]

\* A list of files of F with its rows, the two in agreement.
Matched(rows, infos, F) ==
    /\ rows \in Seq(F)
    /\ infos \in Seq(InfoOf(F))
    /\ Len(rows) = Len(infos)
    /\ \A i \in 1 .. Len(infos) : infos[i].file = rows[i] /\ infos[i].row = i - 1

Windows(F) == {w \in [rows : Seq(F), infos : Seq(InfoOf(F))] : Matched(w.rows, w.infos, F)}

\* The positions of a list that are selected.
LEMMA SelectedInFinite ==
    ASSUME NEW F, NEW infos \in Seq(InfoOf(F))
    PROVE  IsFiniteSet(SelectedIn(infos)) /\ Cardinality(SelectedIn(infos)) \in Nat
<1>1. SelectedIn(infos) \subseteq 1 .. Len(infos) /\ Len(infos) \in Nat
  BY DEF SelectedIn
<1>2. IsFiniteSet(1 .. Len(infos))
  BY <1>1, FS_Interval
<1> QED
  BY <1>1, <1>2, FS_Subset, FS_CardinalityType

\* One iteration of remove_all_selected keeps list and rows in agreement, and
\* leaves one entry less selected.
LEMMA RemoveFirstMatches ==
    ASSUME NEW F, NEW w \in Windows(F), SelectedIn(w.infos) # {}
    PROVE  /\ RemoveFirst(w) \in Windows(F)
           /\ Cardinality(SelectedIn(RemoveFirst(w).infos))
                = Cardinality(SelectedIn(w.infos)) - 1
<1> DEFINE n == Len(w.infos)
           sel == SelectedIn(w.infos)
           i == CHOOSE i \in sel : \A j \in sel : i <= j
           up == [j \in 1 .. n |->
                    [w.infos[j] EXCEPT !.row = IF @ > w.infos[i].row THEN @ - 1 ELSE @]]
<1>1. /\ w.rows \in Seq(F) /\ w.infos \in Seq(InfoOf(F)) /\ Len(w.rows) = n /\ n \in Nat
      /\ \A j \in 1 .. n : /\ w.infos[j] \in InfoOf(F)
                           /\ w.infos[j].file = w.rows[j]
                           /\ w.infos[j].row = j - 1
  <2>1. w.infos \in Seq(InfoOf(F)) /\ Matched(w.rows, w.infos, F)
    BY DEF Windows
  <2>2. \A j \in 1 .. n : w.infos[j] \in InfoOf(F)
    BY <2>1, ElementOfSeq
  <2> QED
    BY <2>1, <2>2 DEF Matched
<1>2. sel \subseteq 1 .. n /\ IsFiniteSet(sel) /\ Cardinality(sel) \in Nat
  BY <1>1, SelectedInFinite DEF SelectedIn
<1>3. i \in sel /\ \A j \in sel : i <= j
  <2> DEFINE R == {ss \in Nat \X Nat : ss[1] < ss[2]}
  <2> HIDE DEF sel
  <2>1. sel \subseteq Nat /\ sel # {}
    BY <1>2 DEF sel
  <2>2. IsWellFoundedOn(R, Nat)
    BY NatLessThanWellFounded DEF OpToRel
  <2>3. PICK x \in sel : \A y \in sel : ~ (<<y, x>> \in R)
    <3> HIDE DEF R
    <3> QED
      BY <2>1, <2>2, WFMin
  <2>4. \A y \in sel : x <= y
    <3> TAKE y \in sel
    <3>1. x \in Nat /\ y \in Nat
      BY <2>1
    <3>2. ~ (y < x)
      BY <2>3, <3>1
    <3> QED
      BY <3>1, <3>2
  <2>5. \E x1 \in sel : \A y \in sel : x1 <= y
    BY <2>4
  <2> QED
    BY <2>5
<1>4. RemoveFirst(w) = [rows |-> WithoutIndex(w.rows, w.infos[i].row + 1),
                        infos |-> WithoutIndex(up, i)]
  BY DEF RemoveFirst
<1> HIDE DEF i, sel
<1>5. i \in 1 .. n /\ w.infos[i].row = i - 1 /\ w.infos[i].row + 1 = i
  BY <1>1, <1>2, <1>3
<1>6. \A j \in 1 .. n : /\ up[j] \in InfoOf(F)
                        /\ up[j].file = w.rows[j]
                        /\ up[j].row = (IF j > i THEN j - 2 ELSE j - 1)
                        /\ up[j].selected = w.infos[j].selected
  <2> TAKE j \in 1 .. n
  <2>1. w.infos[j] \in InfoOf(F) /\ w.infos[j].file = w.rows[j] /\ w.infos[j].row = j - 1
    BY <1>1
  <2> DEFINE r == IF w.infos[j].row > w.infos[i].row THEN w.infos[j].row - 1
                                                     ELSE w.infos[j].row
  <2>2. up[j] = [w.infos[j] EXCEPT !.row = r]
    OBVIOUS
  <2>3. r = (IF j > i THEN j - 2 ELSE j - 1) /\ r \in Nat
    BY <1>5, <2>1
  <2> HIDE DEF r, up
  <2>4. up[j].row = r /\ up[j].file = w.infos[j].file
        /\ up[j].selected = w.infos[j].selected /\ up[j] \in InfoOf(F)
    BY <2>1, <2>2, <2>3 DEF InfoOf
  <2> QED
    BY <2>1, <2>3, <2>4
<1>7. up \in Seq(InfoOf(F)) /\ Len(up) = n
  <2>1. up \in [1 .. n -> InfoOf(F)]
    <3>1. up = [j \in 1 .. n |-> up[j]]
      OBVIOUS
    <3> HIDE DEF up, n
    <3> QED
      BY <1>6, <3>1
  <2> HIDE DEF up, n
  <2> QED
    BY <1>1, <2>1
<1> DEFINE rows2 == WithoutIndex(w.rows, i)
           infos2 == WithoutIndex(up, i)
<1>8. RemoveFirst(w) = [rows |-> rows2, infos |-> infos2]
  BY <1>4, <1>5
<1> HIDE DEF up, n
<1>9. /\ rows2 \in Seq(F) /\ Len(rows2) = n - 1
      /\ \A j \in 1 .. n - 1 : rows2[j] = (IF j < i THEN w.rows[j] ELSE w.rows[j + 1])
  BY <1>1, <1>5, WithoutIndexIs
<1>10. /\ infos2 \in Seq(InfoOf(F)) /\ Len(infos2) = n - 1
       /\ \A j \in 1 .. n - 1 : infos2[j] = (IF j < i THEN up[j] ELSE up[j + 1])
  BY <1>5, <1>7, WithoutIndexIs
<1> HIDE DEF rows2, infos2
<1>11. ASSUME NEW j \in 1 .. n - 1
       PROVE  infos2[j].file = rows2[j] /\ infos2[j].row = j - 1
  <2>1. j \in 1 .. n /\ j + 1 \in 1 .. n
    BY <1>1
  <2>2. CASE j < i
    <3>1. infos2[j] = up[j] /\ rows2[j] = w.rows[j]
      BY <1>9, <1>10, <2>2
    <3>2. up[j].row = j - 1 /\ up[j].file = w.rows[j]
      BY <1>5, <1>6, <2>1, <2>2
    <3> QED
      BY <3>1, <3>2
  <2>3. CASE ~ (j < i)
    <3>1. infos2[j] = up[j + 1] /\ rows2[j] = w.rows[j + 1]
      BY <1>9, <1>10, <2>3
    <3>2. j + 1 > i /\ (j + 1) - 2 = j - 1
      BY <1>5, <2>3
    <3>3. up[j + 1].row = (j + 1) - 2 /\ up[j + 1].file = w.rows[j + 1]
      BY <1>6, <2>1, <3>2
    <3> QED
      BY <3>1, <3>2, <3>3
  <2> QED
    BY <2>2, <2>3
<1>12. RemoveFirst(w) \in Windows(F)
  <2>1. Matched(rows2, infos2, F)
    BY <1>1, <1>9, <1>10, <1>11 DEF Matched
  <2> QED
    BY <1>8, <1>9, <1>10, <2>1 DEF Windows
<1> DEFINE sel2 == SelectedIn(infos2)
           next == [j \in sel2 |-> j + 1]
<1>13. \A j \in sel2 : /\ j \in 1 .. n - 1 /\ ~ (j < i)
                       /\ j + 1 \in sel /\ j + 1 # i
  <2> TAKE j \in sel2
  <2>1. j \in 1 .. n - 1 /\ infos2[j].selected
    BY <1>10 DEF SelectedIn
  <2>2. j \in 1 .. n /\ j + 1 \in 1 .. n
    BY <1>1, <2>1
  <2>3. ~ (j < i)
    <3>1. SUFFICES ASSUME j < i PROVE FALSE
      OBVIOUS
    <3>2. w.infos[j].selected
      BY <1>6, <1>10, <2>1, <2>2, <3>1
    <3>3. j \in sel
      BY <2>2, <3>2 DEF SelectedIn, sel, n
    <3> QED
      BY <1>3, <1>5, <2>1, <3>1, <3>3
  <2>4. w.infos[j + 1].selected
    BY <1>6, <1>10, <2>1, <2>2, <2>3
  <2>5. j + 1 \in sel
    BY <2>2, <2>4 DEF SelectedIn, sel, n
  <2> QED
    BY <1>5, <2>1, <2>3, <2>5
<1>14. \A j \in sel : j # i => j - 1 \in sel2 /\ j \in Int
  <2> TAKE j \in sel
  <2>1. SUFFICES ASSUME j # i PROVE j - 1 \in sel2 /\ j \in Int
    OBVIOUS
  <2>2. j \in 1 .. n /\ w.infos[j].selected
    BY <1>2 DEF SelectedIn, sel, n
  <2>3. i <= j
    BY <1>3
  <2>4. j - 1 \in 1 .. n - 1 /\ ~ (j - 1 < i) /\ (j - 1) + 1 = j /\ j \in Int
    BY <1>1, <1>5, <2>1, <2>2, <2>3
  <2>5. infos2[j - 1] = up[j]
    BY <1>10, <2>4
  <2>6. infos2[j - 1].selected
    BY <1>6, <2>2, <2>5
  <2> QED
    BY <1>10, <2>4, <2>6 DEF SelectedIn
<1>15. Cardinality(sel2) = Cardinality(sel) - 1
  <2> HIDE DEF sel2
  <2>1. IsFiniteSet(sel \ {i}) /\ Cardinality(sel \ {i}) = Cardinality(sel) - 1
    BY <1>2, <1>3, FS_RemoveElement
  <2>2. next \in [sel2 -> sel \ {i}]
    BY <1>13
  <2>3. \A a, b \in sel2 : next[a] = next[b] => a = b
    BY <1>13
  <2>4. \A b \in sel \ {i} : \E a \in sel2 : next[a] = b
    <3> TAKE b \in sel \ {i}
    <3>1. b - 1 \in sel2 /\ b \in Int
      BY <1>14
    <3>2. next[b - 1] = b
      BY <3>1
    <3> QED
      BY <3>1, <3>2
  <2> HIDE DEF next
  <2>5. next \in Bijection(sel2, sel \ {i})
    BY <2>2, <2>3, <2>4 DEF Bijection, Injection, Surjection, IsInjective
  <2>6. IsFiniteSet(sel2)
    <3>1. sel2 \subseteq 1 .. n - 1 /\ n - 1 \in Int
      BY <1>1, <1>13
    <3>2. IsFiniteSet(1 .. n - 1)
      BY <3>1, FS_Interval
    <3> QED
      BY <3>1, <3>2, FS_Subset
  <2>7. Cardinality(sel2) = Cardinality(sel \ {i})
    BY <2>1, <2>5, <2>6, FS_Bijection DEF ExistsBijection
  <2> QED
    BY <2>1, <2>7
<1>16. RemoveFirst(w).infos = infos2
  BY <1>8
<1> QED
  BY <1>12, <1>15, <1>16 DEF sel

\* remove_all_selected leaves list and rows in agreement.
LEMMA RemovedMatches ==
    ASSUME NEW F, NEW w \in Windows(F)
    PROVE  Removed(w) \in Windows(F)
<1> DEFINE k == Cardinality(SelectedIn(w.infos))
           X == Windows(F)
           Is(f) == f = [i \in 0 .. k |-> IF i = 0 THEN w ELSE RemoveFirst(f[i - 1])]
           stage == [i \in 0 .. k |->
                       {v \in X : Cardinality(SelectedIn(v.infos)) = k - i}]
           step == [p \in (1 .. k) \X X |-> RemoveFirst(p[2])]
<1>0. k \in Nat
  BY SelectedInFinite DEF Windows
<1> HIDE DEF k
<1>1. ASSUME NEW i \in 1 .. k, NEW v \in X, v \in stage[i - 1]
      PROVE  RemoveFirst(v) \in X /\ RemoveFirst(v) \in stage[i]
  <2>1. i - 1 \in 0 .. k /\ i \in 0 .. k
    BY <1>0
  <2>2. Cardinality(SelectedIn(v.infos)) = k - (i - 1)
    BY <1>1, <2>1
  <2>3. SelectedIn(v.infos) # {}
    <3>1. Cardinality({}) = 0
      BY FS_EmptySet
    <3>2. k - (i - 1) # 0
      BY <1>0
    <3> QED
      BY <2>2, <3>1, <3>2
  <2>4. RemoveFirst(v) \in X /\ Cardinality(SelectedIn(RemoveFirst(v).infos))
                                  = Cardinality(SelectedIn(v.infos)) - 1
    BY <2>3, RemoveFirstMatches
  <2>5. Cardinality(SelectedIn(RemoveFirst(v).infos)) = k - i
    BY <1>0, <2>2, <2>4
  <2> QED
    BY <2>1, <2>4, <2>5
<1>2. PICK f : Iteration(k, X, stage, step, w, f)
  <2>1. w \in X /\ w \in stage[0]
    <3>1. 0 \in 0 .. k /\ k - 0 = k
      BY <1>0
    <3> QED
      BY <3>1 DEF k
  <2>2. \A i \in 1 .. k, v \in X : step[<<i, v>>] = RemoveFirst(v)
    <3> HIDE DEF X
    <3> QED
      OBVIOUS
  <2> HIDE DEF X, stage, step
  <2>3. Leads(k, X, stage, step, w)
    BY <1>1, <2>1, <2>2 DEF Leads
  <2> QED
    BY <1>0, <2>3, Iterates
<1>3. Is(f)
  <2> HIDE DEF X
  <2>1. \A i \in 1 .. k : f[i] = RemoveFirst(f[i - 1])
    <3> TAKE i \in 1 .. k
    <3>1. f[i - 1] \in X
      BY <1>0, <1>2 DEF Iteration
    <3> QED
      BY <1>2, <3>1 DEF Iteration
  <2>2. \A i \in 0 .. k : i = 0 \/ i \in 1 .. k
    BY <1>0
  <2>3. f \in [0 .. k -> X] /\ f[0] = w
    BY <1>2 DEF Iteration
  <2>4. \A i \in 0 .. k : f[i] = IF i = 0 THEN w ELSE RemoveFirst(f[i - 1])
    BY <2>1, <2>2, <2>3
  <2> QED
    BY <2>3, <2>4
<1>4. PICK h : Is(h) /\ Removed(w) = h[k]
  <2>1. Removed(w) = (CHOOSE h : Is(h))[k]
    BY DEF Removed, k
  <2> HIDE DEF Is
  <2> QED
    BY <1>3, <2>1
<1> DEFINE S == {i \in 0 .. k : h[i] \in stage[i]}
<1>5. 0 \in S
  <2>1. 0 \in 0 .. k /\ k - 0 = k
    BY <1>0
  <2>2. h[0] = w
    BY <1>4, <2>1
  <2> QED
    BY <2>1, <2>2 DEF k
<1>6. ASSUME NEW i \in 1 .. k, i - 1 \in S
      PROVE  i \in S
  <2>1. i \in 0 .. k /\ i # 0 /\ i - 1 \in 0 .. k /\ h[i - 1] \in stage[i - 1]
    BY <1>0, <1>6
  <2>2. h[i] = RemoveFirst(h[i - 1])
    BY <1>4, <2>1
  <2>3. h[i - 1] \in X
    BY <2>1
  <2> HIDE DEF X, stage
  <2>4. h[i] \in stage[i]
    BY <1>1, <2>1, <2>2, <2>3
  <2> QED
    BY <2>1, <2>4
<1>7. k \in S /\ k \in 0 .. k
  <2> HIDE DEF S
  <2>1. \A i \in 0 .. k : i \in S
    BY <1>0, <1>5, <1>6, Induction
  <2> QED
    BY <1>0, <2>1
<1> QED
  BY <1>4, <1>7
-----------------------------------------------------------------------------
(***************************************************************************)
(* Reading a tournament file back.                                         *)
(***************************************************************************)

\* The variables of the parser, as a record.
State(number, argument, looking_for, robots, arenas) ==
    [number |-> number, argument |-> argument, looking_for |-> looking_for,
     robot_list |-> robots, arena_list |-> arenas]

\* Reading a file takes the parser through the states that Read leads to.
LEMMA ParseIs ==
    ASSUME NEW words, Len(words) \in Nat, NEW St,
           St = [i \in 0 .. Len(words) |-> St[i]],
           St[0] = NewParser,
           \A i \in 1 .. Len(words) : St[i] = Read(St[i - 1], words[i])
    PROVE  Parse(words) = Outcome(St[Len(words)])
<1> DEFINE k == Len(words)
           Is(f) == f = [i \in 0 .. k |-> IF i = 0 THEN NewParser
                                          ELSE Read(f[i - 1], words[i])]
<1> HIDE DEF k
<1>0. k \in Nat
  BY DEF k
<1>1. Is(St)
  <2>1. \A i \in 0 .. k : i = 0 \/ i \in 1 .. k
    BY <1>0
  <2>2. \A i \in 0 .. k : St[i] = IF i = 0 THEN NewParser ELSE Read(St[i - 1], words[i])
    BY <2>1 DEF k
  <2> QED
    BY <2>2 DEF k
<1>2. PICK h : Is(h) /\ Parse(words) = Outcome(h[k])
  <2>1. Parse(words) = Outcome((CHOOSE h : Is(h))[k])
    BY DEF Parse, k
  <2> HIDE DEF Is
  <2> QED
    BY <1>1, <2>1
<1> DEFINE S == {i \in 0 .. k : h[i] = St[i]}
<1>3. 0 \in S
  <2>1. 0 \in 0 .. k
    BY <1>0
  <2> QED
    BY <1>2, <2>1
<1>4. ASSUME NEW i \in 1 .. k, i - 1 \in S
      PROVE  i \in S
  <2>1. i \in 0 .. k /\ i # 0
    BY <1>0
  <2>2. h[i] = Read(h[i - 1], words[i])
    BY <1>2, <2>1
  <2> QED
    BY <1>4, <2>1, <2>2 DEF k
<1>5. k \in S
  <2> HIDE DEF S
  <2>1. \A i \in 0 .. k : i \in S
    BY <1>0, <1>3, <1>4, Induction
  <2> QED
    BY <1>0, <2>1
<1> QED
  BY <1>2, <1>5 DEF k

\* The words list_robots and list_arenas: a list begins.
LEMMA ReadListKeyword ==
    ASSUME NEW number, NEW lf, NEW r, NEW a, NEW k \in ListKeywords
    PROVE  Read(State(number, "none", lf, r, a), Keyword(k)) = State(number, "none", k, r, a)
BY DEF Read, State, Keyword, ListKeywords, NumberKeywords, IsKeyword, IsNumberKeyword

\* A keyword for a number: the number is read next.
LEMMA ReadNumberKeyword ==
    ASSUME NEW number, NEW lf, NEW r, NEW a, NEW k \in NumberKeywords
    PROVE  Read(State(number, "none", lf, r, a), Keyword(k))
             = State(number, k, "keyword", r, a)
BY DEF Read, State, Keyword, NumberKeywords, IsKeyword, IsNumberKeyword

\* The number.
LEMMA ReadNumberWord ==
    ASSUME NEW number, NEW lf, NEW r, NEW a, NEW k \in NumberKeywords, NEW n
    PROVE  Read(State(number, k, lf, r, a), Number(n))
             = State([number EXCEPT ![k] = n], "none", lf, r, a)
<1>1. k # "none"
  BY DEF NumberKeywords
<1>2. \A old : ReadNumber(Number(n), old) = n
  BY DEF ReadNumber, Number
<1> QED
  BY <1>1, <1>2 DEF Read, State

\* A robot's file.
LEMMA ReadRobotFile ==
    ASSUME NEW number, NEW r, NEW a, NEW f \in Members(RobotDir)
    PROVE  Read(State(number, "none", "list robots", r, a), FileName(f))
             = State(number, "none", "list robots", r \o <<f>>, a)
<1>1. Found(FileName(f), RobotDir) = <<f>>
  BY DEF Found, FileName
<1>2. ~ IsKeyword(FileName(f)) /\ ~ IsNumberKeyword(FileName(f))
  BY DEF FileName, IsKeyword, IsNumberKeyword
<1> QED
  BY <1>1, <1>2 DEF Read, State

\* An arena's file.
LEMMA ReadArenaFile ==
    ASSUME NEW number, NEW r, NEW a, NEW f \in Members(ArenaDir)
    PROVE  Read(State(number, "none", "list arenas", r, a), FileName(f))
             = State(number, "none", "list arenas", r, a \o <<f>>)
<1>1. Found(FileName(f), ArenaDir) = <<f>>
  BY DEF Found, FileName
<1>2. ~ IsKeyword(FileName(f)) /\ ~ IsNumberKeyword(FileName(f))
  BY DEF FileName, IsKeyword, IsNumberKeyword
<1> QED
  BY <1>1, <1>2 DEF Read, State

\* An empty file is no tournament.
LEMMA ParseEmpty == Parse(<<>>).how # "started"
<1> DEFINE St == [i \in 0 .. 0 |-> NewParser]
<1>1. Len(<<>>) = 0
  OBVIOUS
<1>2. St[0] = NewParser /\ St = [i \in 0 .. 0 |-> St[i]] /\ \A i \in 1 .. 0 : FALSE
  OBVIOUS
<1> HIDE DEF St
<1>3. Parse(<<>>) = Outcome(NewParser)
  BY <1>1, <1>2, ParseIs
<1>4. Settled(NewParser).robots = 0
  BY DEF Settled, NewParser, NumberKeywords, Resolved
<1> QED
  BY <1>3, <1>4 DEF Outcome, Acceptable

\* The word at place n of a file with the robots and arenas given.
WordAt(n, robots, arenas, number) ==
    LET R == Len(robots)
        A == Len(arenas)
    IN  IF n = 1 THEN Keyword("list robots")
        ELSE IF n <= R + 1 THEN FileName(robots[n - 1])
        ELSE IF n = R + 2 THEN Keyword("list arenas")
        ELSE IF n <= R + A + 2 THEN FileName(arenas[n - R - 2])
        ELSE IF n = R + A + 3 THEN Keyword("robots")
        ELSE IF n = R + A + 4 THEN Number(number["robots"])
        ELSE IF n = R + A + 5 THEN Keyword("games")
        ELSE IF n = R + A + 6 THEN Number(number["games"])
        ELSE IF n = R + A + 7 THEN Keyword("sequences")
        ELSE Number(number["sequences"])

\* A sequence of n elements of W.
SeqOf(W, s, n) == s \in Seq(W) /\ n \in Nat /\ Len(s) = n

Joined(W, s, a, t, b, v) == SeqOf(W, s, a) /\ SeqOf(W, t, b) /\ v = s \o t

\* The elements of two sequences put together.
LEMMA ConcatAt ==
    ASSUME NEW W, NEW s, NEW t, NEW a, NEW b, NEW v, Joined(W, s, a, t, b, v)
    PROVE  /\ SeqOf(W, v, a + b)
           /\ \A j \in 1 .. a : v[j] = s[j]
           /\ \A j \in 1 .. b : v[a + j] = t[j]
<1> USE DEF SeqOf, Joined
<1>1. /\ v \in Seq(W) /\ Len(v) = Len(s) + Len(t)
      /\ \A j \in 1 .. Len(s) + Len(t) : v[j] = IF j <= Len(s) THEN s[j] ELSE t[j - Len(s)]
  BY ConcatProperties
<1>2. ASSUME NEW j \in 1 .. a
      PROVE  v[j] = s[j]
  <2>1. j \in 1 .. Len(s) + Len(t) /\ j <= Len(s)
    OBVIOUS
  <2> QED
    BY <1>1, <2>1
<1>3. ASSUME NEW j \in 1 .. b
      PROVE  v[a + j] = t[j]
  <2>1. a + j \in 1 .. Len(s) + Len(t) /\ ~ (a + j <= Len(s)) /\ (a + j) - Len(s) = j
    OBVIOUS
  <2> QED
    BY <1>1, <2>1
<1> QED
  BY <1>1, <1>2, <1>3

\* The words that save_tournament_file writes, by their places.
LEMMA WrittenIs ==
    ASSUME NEW F, NEW robots \in Seq(F), NEW arenas \in Seq(F), NEW number
    PROVE  /\ Len(Written(robots, arenas, number)) = Len(robots) + Len(arenas) + 8
           /\ \A n \in 1 .. Len(robots) + Len(arenas) + 8 :
                 Written(robots, arenas, number)[n] = WordAt(n, robots, arenas, number)
<1> DEFINE R == Len(robots)
           A == Len(arenas)
           Files1(s) == [i \in 1 .. Len(s) |-> FileName(s[i])]
           tail == <<Keyword("robots"), Number(number["robots"]),
                     Keyword("games"), Number(number["games"]),
                     Keyword("sequences"), Number(number["sequences"])>>
           W == {FileName(f) : f \in F}
                  \cup {Keyword("list robots"), Keyword("list arenas"), Keyword("robots"),
                        Keyword("games"), Keyword("sequences"), Number(number["robots"]),
                        Number(number["games"]), Number(number["sequences"])}
           w1 == <<Keyword("list robots")>>
           w2 == Files1(robots)
           w3 == <<Keyword("list arenas")>>
           w4 == Files1(arenas)
<1>1. R \in Nat /\ A \in Nat
  OBVIOUS
<1>2. w1 \in Seq(W) /\ Len(w1) = 1 /\ w1[1] = Keyword("list robots")
  OBVIOUS
<1>3. w3 \in Seq(W) /\ Len(w3) = 1 /\ w3[1] = Keyword("list arenas")
  OBVIOUS
<1>4. w2 \in Seq(W) /\ Len(w2) = R /\ \A i \in 1 .. R : w2[i] = FileName(robots[i])
  <2>1. \A i \in 1 .. R : robots[i] \in F
    OBVIOUS
  <2>2. w2 \in [1 .. R -> W]
    BY <2>1
  <2> HIDE DEF W
  <2> QED
    BY <1>1, <2>2
<1>5. w4 \in Seq(W) /\ Len(w4) = A /\ \A i \in 1 .. A : w4[i] = FileName(arenas[i])
  <2>1. \A i \in 1 .. A : arenas[i] \in F
    OBVIOUS
  <2>2. w4 \in [1 .. A -> W]
    BY <2>1
  <2> HIDE DEF W
  <2> QED
    BY <1>1, <2>2
<1>6. /\ tail \in Seq(W) /\ Len(tail) = 6
      /\ tail[1] = Keyword("robots") /\ tail[2] = Number(number["robots"])
      /\ tail[3] = Keyword("games") /\ tail[4] = Number(number["games"])
      /\ tail[5] = Keyword("sequences") /\ tail[6] = Number(number["sequences"])
  OBVIOUS
<1>7. Written(robots, arenas, number) = (((w1 \o w2) \o w3) \o w4) \o tail
  BY DEF Written
<1> DEFINE v2 == w1 \o w2
           v3 == v2 \o w3
           v4 == v3 \o w4
           v5 == v4 \o tail
<1> HIDE DEF R, A, w1, w2, w3, w4, tail, W, Files1, v2, v3, v4, v5
<1>8. /\ SeqOf(W, v2, 1 + R)
      /\ \A j \in 1 .. 1 : v2[j] = w1[j]
      /\ \A j \in 1 .. R : v2[1 + j] = w2[j]
  <2>1. SeqOf(W, w1, 1) /\ SeqOf(W, w2, R)
    BY <1>1, <1>2, <1>4 DEF SeqOf
  <2>2. Joined(W, w1, 1, w2, R, v2)
    BY <2>1 DEF Joined, v2
  <2> QED
    BY <2>2, ConcatAt
<1>9. /\ SeqOf(W, v3, (1 + R) + 1)
      /\ \A j \in 1 .. 1 + R : v3[j] = v2[j]
      /\ \A j \in 1 .. 1 : v3[(1 + R) + j] = w3[j]
  <2>1. SeqOf(W, w3, 1)
    BY <1>3 DEF SeqOf
  <2>2. Joined(W, v2, 1 + R, w3, 1, v3)
    BY <1>8, <2>1 DEF Joined, v3
  <2> QED
    BY <2>2, ConcatAt
<1>10. /\ SeqOf(W, v4, ((1 + R) + 1) + A)
       /\ \A j \in 1 .. (1 + R) + 1 : v4[j] = v3[j]
       /\ \A j \in 1 .. A : v4[((1 + R) + 1) + j] = w4[j]
  <2>1. SeqOf(W, w4, A)
    BY <1>1, <1>5 DEF SeqOf
  <2>2. Joined(W, v3, (1 + R) + 1, w4, A, v4)
    BY <1>9, <2>1 DEF Joined, v4
  <2> QED
    BY <2>2, ConcatAt
<1>11. /\ SeqOf(W, v5, (((1 + R) + 1) + A) + 6)
       /\ \A j \in 1 .. ((1 + R) + 1) + A : v5[j] = v4[j]
       /\ \A j \in 1 .. 6 : v5[(((1 + R) + 1) + A) + j] = tail[j]
  <2>1. SeqOf(W, tail, 6)
    BY <1>6 DEF SeqOf
  <2>2. Joined(W, v4, ((1 + R) + 1) + A, tail, 6, v5)
    BY <1>10, <2>1 DEF Joined, v5
  <2> QED
    BY <2>2, ConcatAt
<1>14. Len(v5) = R + A + 8
  <2>1. (((1 + R) + 1) + A) + 6 = R + A + 8
    BY <1>1
  <2> QED
    BY <1>11, <2>1 DEF SeqOf
<1>12. Written(robots, arenas, number) = v5
  BY <1>7 DEF v5, v4, v3, v2
<1>15. \A n \in Int : WordAt(n, robots, arenas, number) =
                 (IF n = 1 THEN Keyword("list robots")
                  ELSE IF n <= R + 1 THEN FileName(robots[n - 1])
                  ELSE IF n = R + 2 THEN Keyword("list arenas")
                  ELSE IF n <= R + A + 2 THEN FileName(arenas[n - R - 2])
                  ELSE IF n = R + A + 3 THEN Keyword("robots")
                  ELSE IF n = R + A + 4 THEN Number(number["robots"])
                  ELSE IF n = R + A + 5 THEN Keyword("games")
                  ELSE IF n = R + A + 6 THEN Number(number["games"])
                  ELSE IF n = R + A + 7 THEN Keyword("sequences")
                  ELSE Number(number["sequences"]))
  BY DEF WordAt, R, A
<1>13. ASSUME NEW n \in 1 .. R + A + 8
       PROVE  v5[n] = WordAt(n, robots, arenas, number)
  <2>1. CASE n = 1
    <3>3. /\ n \in 1 .. ((1 + R) + 1) + A /\ n \in 1 .. (1 + R) + 1
          /\ n \in 1 .. 1 + R /\ n \in 1 .. 1
      BY <1>1, <2>1
    <3>1. v5[n] = v4[n] /\ v4[n] = v3[n] /\ v3[n] = v2[n] /\ v2[n] = w1[n]
      BY <1>8, <1>9, <1>10, <1>11, <3>3
    <3>2. WordAt(n, robots, arenas, number) = Keyword("list robots")
      <4>1. WordAt(1, robots, arenas, number) = Keyword("list robots")
        BY DEF WordAt
      <4> QED
        BY <2>1, <4>1
    <3> QED
      BY <1>2, <2>1, <3>1, <3>2
  <2>2. CASE n \in 2 .. R + 1
    <3>1. n - 1 \in 1 .. R /\ 1 + (n - 1) = n
      BY <1>1, <2>2
    <3>5. /\ n \in 1 .. ((1 + R) + 1) + A /\ n \in 1 .. (1 + R) + 1
          /\ n \in 1 .. 1 + R
      BY <1>1, <2>2
    <3>2. v5[n] = v4[n] /\ v4[n] = v3[n] /\ v3[n] = v2[n]
      BY <1>9, <1>10, <1>11, <3>5
    <3>3. v2[n] = w2[n - 1]
      BY <1>8, <3>1
    <3>6. n \in Int /\ n # 1 /\ n <= R + 1
      BY <1>1, <2>2
    <3>4. WordAt(n, robots, arenas, number) = FileName(robots[n - 1])
      BY <1>15, <3>6
    <3> QED
      BY <1>4, <3>1, <3>2, <3>3, <3>4
  <2>3. CASE n = R + 2
    <3>1. (1 + R) + 1 = n /\ 1 \in 1 .. 1
      BY <1>1, <2>3
    <3>5. n \in 1 .. ((1 + R) + 1) + A /\ n \in 1 .. (1 + R) + 1
      BY <1>1, <2>3
    <3>2. v5[n] = v4[n] /\ v4[n] = v3[n]
      BY <1>10, <1>11, <3>5
    <3>3. v3[n] = w3[1]
      BY <1>9, <3>1
    <3>6. n \in Int /\ n # 1 /\ ~ (n <= R + 1)
      BY <1>1, <2>3
    <3>4. WordAt(n, robots, arenas, number) = Keyword("list arenas")
      BY <1>15, <2>3, <3>6
    <3> QED
      BY <1>3, <3>2, <3>3, <3>4
  <2>4. CASE n \in R + 3 .. R + A + 2
    <3>1. n - R - 2 \in 1 .. A /\ ((1 + R) + 1) + (n - R - 2) = n
      BY <1>1, <2>4
    <3>2. v5[n] = v4[n]
      BY <1>1, <1>11, <2>4
    <3>3. v4[n] = w4[n - R - 2]
      BY <1>10, <3>1
    <3>6. n \in Int /\ n # 1 /\ ~ (n <= R + 1) /\ n # R + 2 /\ n <= R + A + 2
      BY <1>1, <2>4
    <3>4. WordAt(n, robots, arenas, number) = FileName(arenas[n - R - 2])
      BY <1>15, <3>6
    <3> QED
      BY <1>5, <3>1, <3>2, <3>3, <3>4
  <2>5. CASE n \in R + A + 3 .. R + A + 8
    <3>1. PICK j \in 1 .. 6 : n = R + A + 2 + j
      <4>1. n - (R + A + 2) \in 1 .. 6 /\ n = R + A + 2 + (n - (R + A + 2))
        BY <1>1, <2>5
      <4> QED
        BY <4>1
    <3>2. (((1 + R) + 1) + A) + j = n
      BY <1>1, <3>1
    <3>3. v5[n] = tail[j]
      BY <1>11, <3>2
    <3>6. n \in Int /\ n # 1 /\ ~ (n <= R + 1) /\ n # R + 2 /\ ~ (n <= R + A + 2)
      BY <1>1, <3>1
    <3>4. WordAt(n, robots, arenas, number) = tail[j]
      <4>1. CASE j = 1
        <5>1. n = R + A + 3
          BY <1>1, <3>1, <4>1
        <5> QED
          BY <1>6, <1>15, <3>6, <4>1, <5>1
      <4>2. CASE j = 2
        <5>1. n # R + A + 3 /\ n = R + A + 4
          BY <1>1, <3>1, <4>2
        <5> QED
          BY <1>6, <1>15, <3>6, <4>2, <5>1
      <4>3. CASE j = 3
        <5>1. n # R + A + 3 /\ n # R + A + 4 /\ n = R + A + 5
          BY <1>1, <3>1, <4>3
        <5> QED
          BY <1>6, <1>15, <3>6, <4>3, <5>1
      <4>4. CASE j = 4
        <5>1. n # R + A + 3 /\ n # R + A + 4 /\ n # R + A + 5 /\ n = R + A + 6
          BY <1>1, <3>1, <4>4
        <5> QED
          BY <1>6, <1>15, <3>6, <4>4, <5>1
      <4>5. CASE j = 5
        <5>1. n # R + A + 3 /\ n # R + A + 4 /\ n # R + A + 5
              /\ n # R + A + 6 /\ n = R + A + 7
          BY <1>1, <3>1, <4>5
        <5> QED
          BY <1>6, <1>15, <3>6, <4>5, <5>1
      <4>6. CASE j = 6
        <5>1. n # R + A + 3 /\ n # R + A + 4 /\ n # R + A + 5
              /\ n # R + A + 6 /\ n # R + A + 7 /\ n = R + A + 8
          BY <1>1, <3>1, <4>6
        <5> QED
          BY <1>6, <1>15, <3>6, <4>6, <5>1
      <4> QED
        BY <4>1, <4>2, <4>3, <4>4, <4>5, <4>6
    <3> QED
      BY <3>3, <3>4
  <2> QED
    BY <1>1, <2>1, <2>2, <2>3, <2>4, <2>5
<1> QED
  BY <1>12, <1>13, <1>14 DEF R, A

\* The beginnings of a sequence.
LEMMA Beginnings ==
    ASSUME NEW F, NEW s \in Seq(F)
    PROVE  /\ SubSeq(s, 1, 0) = <<>>
           /\ SubSeq(s, 1, Len(s)) = s
           /\ \A m \in 1 .. Len(s) : SubSeq(s, 1, m - 1) \o <<s[m]>> = SubSeq(s, 1, m)
<1>1. Len(s) \in Nat
  OBVIOUS
<1>2. ASSUME NEW m \in 1 .. Len(s)
      PROVE  SubSeq(s, 1, m - 1) \o <<s[m]>> = SubSeq(s, 1, m)
  <2> DEFINE a == SubSeq(s, 1, m - 1)
             b == SubSeq(s, 1, m)
             c == <<s[m]>>
             v == a \o c
  <2>1. a \in Seq(F) /\ Len(a) = m - 1 /\ \A j \in 1 .. m - 1 : a[j] = s[j]
    BY <1>1
  <2>2. b \in Seq(F) /\ Len(b) = m /\ \A j \in 1 .. m : b[j] = s[j]
    BY <1>1
  <2>3. c \in Seq(F) /\ Len(c) = 1 /\ c[1] = s[m]
    OBVIOUS
  <2> HIDE DEF a, b, c, v
  <2>4. Joined(F, a, m - 1, c, 1, v)
    BY <2>1, <2>3 DEF Joined, SeqOf, v
  <2>5. /\ SeqOf(F, v, (m - 1) + 1)
        /\ \A j \in 1 .. m - 1 : v[j] = a[j]
        /\ \A j \in 1 .. 1 : v[(m - 1) + j] = c[j]
    BY <2>4, ConcatAt
  <2>6. v \in Seq(F) /\ Len(v) = m
    BY <2>5 DEF SeqOf
  <2>7. v[m] = s[m]
    <3>1. (m - 1) + 1 = m /\ 1 \in 1 .. 1
      OBVIOUS
    <3> QED
      BY <2>3, <2>5, <3>1
  <2>8. \A j \in 1 .. m : v[j] = b[j]
    <3> TAKE j \in 1 .. m
    <3>1. CASE j = m
      BY <2>2, <2>7, <3>1
    <3>2. CASE j # m
      <4>1. j \in 1 .. m - 1
        BY <3>2
      <4> QED
        BY <2>1, <2>2, <2>5, <4>1
    <3> QED
      BY <3>1, <3>2
  <2>9. v = b
    BY <2>2, <2>6, <2>8, SeqEqual
  <2> QED
    BY <2>9 DEF v, a, b, c
<1>3. SubSeq(s, 1, 0) = <<>> /\ SubSeq(s, 1, Len(s)) = s
  BY <1>1
<1> QED
  BY <1>2, <1>3
Begun == NewParser.number

\* The parser after n words of a file with the robots and arenas given.
StateAt(n, robots, arenas, number) ==
    LET R  == Len(robots)
        A  == Len(arenas)
        n1 == [Begun EXCEPT !["robots"] = number["robots"]]
        n2 == [n1 EXCEPT !["games"] = number["games"]]
        n3 == [n2 EXCEPT !["sequences"] = number["sequences"]]
    IN  IF n = 0 THEN State(Begun, "none", "keyword", <<>>, <<>>)
        ELSE IF n <= R + 1
             THEN State(Begun, "none", "list robots", SubSeq(robots, 1, n - 1), <<>>)
        ELSE IF n <= R + A + 2
             THEN State(Begun, "none", "list arenas", robots, SubSeq(arenas, 1, n - R - 2))
        ELSE IF n = R + A + 3 THEN State(Begun, "robots", "keyword", robots, arenas)
        ELSE IF n = R + A + 4 THEN State(n1, "none", "keyword", robots, arenas)
        ELSE IF n = R + A + 5 THEN State(n1, "games", "keyword", robots, arenas)
        ELSE IF n = R + A + 6 THEN State(n2, "none", "keyword", robots, arenas)
        ELSE IF n = R + A + 7 THEN State(n2, "sequences", "keyword", robots, arenas)
        ELSE State(n3, "none", "keyword", robots, arenas)

\* Each word of the file leads from one of these states to the next.
LEMMA StateAtStep ==
    ASSUME NEW robots \in Seq(Members(RobotDir)), NEW arenas \in Seq(Members(ArenaDir)),
           NEW number, NEW n \in 1 .. Len(robots) + Len(arenas) + 8
    PROVE  StateAt(n, robots, arenas, number)
             = Read(StateAt(n - 1, robots, arenas, number), WordAt(n, robots, arenas, number))
<1> DEFINE R  == Len(robots)
           A  == Len(arenas)
           n1 == [Begun EXCEPT !["robots"] = number["robots"]]
           n2 == [n1 EXCEPT !["games"] = number["games"]]
           n3 == [n2 EXCEPT !["sequences"] = number["sequences"]]
           St(m) == StateAt(m, robots, arenas, number)
           Wd(m) == WordAt(m, robots, arenas, number)
<1>1. R \in Nat /\ A \in Nat /\ n \in 1 .. R + A + 8
  OBVIOUS
<1>2. \A m \in Int : St(m) =
                       (IF m = 0 THEN State(Begun, "none", "keyword", <<>>, <<>>)
                        ELSE IF m <= R + 1
                             THEN State(Begun, "none", "list robots", SubSeq(robots, 1, m - 1), <<>>)
                        ELSE IF m <= R + A + 2
                             THEN State(Begun, "none", "list arenas", robots, SubSeq(arenas, 1, m - R - 2))
                        ELSE IF m = R + A + 3
                             THEN State(Begun, "robots", "keyword", robots, arenas)
                        ELSE IF m = R + A + 4
                             THEN State(n1, "none", "keyword", robots, arenas)
                        ELSE IF m = R + A + 5
                             THEN State(n1, "games", "keyword", robots, arenas)
                        ELSE IF m = R + A + 6
                             THEN State(n2, "none", "keyword", robots, arenas)
                        ELSE IF m = R + A + 7
                             THEN State(n2, "sequences", "keyword", robots, arenas)
                        ELSE State(n3, "none", "keyword", robots, arenas))
  BY DEF StateAt
<1>3. \A m \in Int : Wd(m) =
                       (IF m = 1 THEN Keyword("list robots")
                        ELSE IF m <= R + 1 THEN FileName(robots[m - 1])
                        ELSE IF m = R + 2 THEN Keyword("list arenas")
                        ELSE IF m <= R + A + 2 THEN FileName(arenas[m - R - 2])
                        ELSE IF m = R + A + 3 THEN Keyword("robots")
                        ELSE IF m = R + A + 4 THEN Number(number["robots"])
                        ELSE IF m = R + A + 5 THEN Keyword("games")
                        ELSE IF m = R + A + 6 THEN Number(number["games"])
                        ELSE IF m = R + A + 7 THEN Keyword("sequences")
                        ELSE Number(number["sequences"]))
  BY DEF WordAt
<1>4. /\ SubSeq(robots, 1, 0) = <<>> /\ SubSeq(robots, 1, R) = robots
      /\ \A m \in 1 .. R : SubSeq(robots, 1, m - 1) \o <<robots[m]>> = SubSeq(robots, 1, m)
  BY Beginnings
<1>5. /\ SubSeq(arenas, 1, 0) = <<>> /\ SubSeq(arenas, 1, A) = arenas
      /\ \A m \in 1 .. A : SubSeq(arenas, 1, m - 1) \o <<arenas[m]>> = SubSeq(arenas, 1, m)
  BY Beginnings
<1>6. (\A m \in 1 .. R : robots[m] \in Members(RobotDir))
      /\ (\A m \in 1 .. A : arenas[m] \in Members(ArenaDir))
  OBVIOUS
<1> HIDE DEF R, A, n1, n2, n3, St, Wd
<1>7. CASE n = 1
  <2>0. 0 \in Int /\ 1 \in Int /\ 1 <= R + 1 /\ 1 # 0 /\ 1 - 1 = 0
    BY <1>1
  <2>1. St(0) = State(Begun, "none", "keyword", <<>>, <<>>)
    BY DEF St, StateAt
  <2>2. Wd(1) = Keyword("list robots")
    BY DEF Wd, WordAt
  <2>3. St(1) = State(Begun, "none", "list robots", SubSeq(robots, 1, 1 - 1), <<>>)
    BY <1>2, <2>0
  <2>4. St(1) = Read(St(0), Wd(1))
    <3> DEFINE e == <<>>
    <3>1. St(1) = State(Begun, "none", "list robots", e, e)
      BY <1>4, <2>0, <2>3
    <3>2. St(0) = State(Begun, "none", "keyword", e, e)
      BY <2>1
    <3> HIDE DEF e
    <3>3. Read(State(Begun, "none", "keyword", e, e), Keyword("list robots"))
            = State(Begun, "none", "list robots", e, e)
      BY DEF Read, State, Keyword, NumberKeywords, IsKeyword, IsNumberKeyword
    <3> QED
      BY <2>2, <3>1, <3>2, <3>3
  <2> QED
    BY <1>7, <2>0, <2>4 DEF St, Wd
<1>8. CASE n \in 2 .. R + 1
  <2>0. /\ n \in Int /\ n - 1 \in Int /\ n # 1 /\ n # 0 /\ n - 1 # 0 /\ n <= R + 1
        /\ n - 1 <= R + 1 /\ n - 1 \in 1 .. R
    BY <1>1, <1>8
  <2>1. St(n - 1) = State(Begun, "none", "list robots", SubSeq(robots, 1, (n - 1) - 1), <<>>)
    BY <1>2, <2>0
  <2>2. Wd(n) = FileName(robots[n - 1])
    BY <1>3, <2>0
  <2>3. St(n) = State(Begun, "none", "list robots", SubSeq(robots, 1, n - 1), <<>>)
    BY <1>2, <2>0
  <2>4. robots[n - 1] \in Members(RobotDir)
    BY <1>6, <2>0
  <2>5. SubSeq(robots, 1, (n - 1) - 1) \o <<robots[n - 1]>> = SubSeq(robots, 1, n - 1)
    BY <1>4, <2>0
  <2>6. St(n) = Read(St(n - 1), Wd(n))
    <3> DEFINE e == <<>>
               f == robots[n - 1]
               r == SubSeq(robots, 1, (n - 1) - 1)
               r2 == SubSeq(robots, 1, n - 1)
    <3>1. St(n) = State(Begun, "none", "list robots", r2, e)
      BY <2>3
    <3>2. St(n - 1) = State(Begun, "none", "list robots", r, e)
      BY <2>1
    <3>3. Wd(n) = FileName(f) /\ f \in Members(RobotDir) /\ r \o <<f>> = r2
      BY <2>2, <2>4, <2>5
    <3> HIDE DEF e, f, r, r2
    <3>4. Read(State(Begun, "none", "list robots", r, e), FileName(f))
            = State(Begun, "none", "list robots", r \o <<f>>, e)
      BY <3>3, ReadRobotFile
    <3> QED
      BY <3>1, <3>2, <3>3, <3>4
  <2> QED
    BY <2>6 DEF St, Wd
<1>9. CASE n = R + 2
  <2>0. /\ n \in Int /\ n - 1 \in Int /\ n # 1 /\ n # 0 /\ n - 1 # 0 /\ ~ (n <= R + 1)
        /\ n - 1 <= R + 1 /\ (n - 1) - 1 = R /\ n <= R + A + 2 /\ n - R - 2 = 0
    BY <1>1, <1>9
  <2>1. St(n - 1) = State(Begun, "none", "list robots", SubSeq(robots, 1, (n - 1) - 1), <<>>)
    BY <1>2, <2>0
  <2>2. Wd(n) = Keyword("list arenas")
    BY <1>3, <1>9, <2>0
  <2>3. St(n) = State(Begun, "none", "list arenas", robots, SubSeq(arenas, 1, n - R - 2))
    BY <1>2, <2>0
  <2>4. St(n - 1) = State(Begun, "none", "list robots", robots, <<>>)
    BY <1>4, <2>0, <2>1
  <2>5. St(n) = State(Begun, "none", "list arenas", robots, <<>>)
    BY <1>5, <2>0, <2>3
  <2>6. St(n) = Read(St(n - 1), Wd(n))
    <3> DEFINE e == <<>>
    <3>1. St(n) = State(Begun, "none", "list arenas", robots, e)
      BY <2>5
    <3>2. St(n - 1) = State(Begun, "none", "list robots", robots, e)
      BY <2>4
    <3> HIDE DEF e
    <3>3. Read(State(Begun, "none", "list robots", robots, e), Keyword("list arenas"))
            = State(Begun, "none", "list arenas", robots, e)
      BY ReadListKeyword DEF ListKeywords
    <3> QED
      BY <2>2, <3>1, <3>2, <3>3
  <2> QED
    BY <2>6 DEF St, Wd
<1>10. CASE n \in R + 3 .. R + A + 2
  <2>0. /\ n \in Int /\ n - 1 \in Int /\ n # 1 /\ n # 0 /\ n - 1 # 0 /\ ~ (n <= R + 1)
        /\ ~ (n - 1 <= R + 1) /\ n <= R + A + 2 /\ n # R + 2 /\ n - 1 <= R + A + 2
        /\ n - R - 2 \in 1 .. A /\ (n - 1) - R - 2 = (n - R - 2) - 1
    BY <1>1, <1>10
  <2>1. St(n - 1) = State(Begun, "none", "list arenas", robots,
                          SubSeq(arenas, 1, (n - 1) - R - 2))
    BY <1>2, <2>0
  <2>2. Wd(n) = FileName(arenas[n - R - 2])
    BY <1>3, <2>0
  <2>3. St(n) = State(Begun, "none", "list arenas", robots, SubSeq(arenas, 1, n - R - 2))
    BY <1>2, <2>0
  <2>4. arenas[n - R - 2] \in Members(ArenaDir)
    BY <1>6, <2>0
  <2>5. SubSeq(arenas, 1, (n - R - 2) - 1) \o <<arenas[n - R - 2]>>
          = SubSeq(arenas, 1, n - R - 2)
    BY <1>5, <2>0
  <2>7. St(n - 1) = State(Begun, "none", "list arenas", robots,
                          SubSeq(arenas, 1, (n - R - 2) - 1))
    BY <2>0, <2>1
  <2>6. St(n) = Read(St(n - 1), Wd(n))
    <3> DEFINE f == arenas[n - R - 2]
               a == SubSeq(arenas, 1, (n - R - 2) - 1)
               a2 == SubSeq(arenas, 1, n - R - 2)
    <3>1. St(n) = State(Begun, "none", "list arenas", robots, a2)
      BY <2>3
    <3>2. St(n - 1) = State(Begun, "none", "list arenas", robots, a)
      BY <2>7
    <3>3. Wd(n) = FileName(f) /\ f \in Members(ArenaDir) /\ a \o <<f>> = a2
      BY <2>2, <2>4, <2>5
    <3> HIDE DEF f, a, a2
    <3>4. Read(State(Begun, "none", "list arenas", robots, a), FileName(f))
            = State(Begun, "none", "list arenas", robots, a \o <<f>>)
      BY <3>3, ReadArenaFile
    <3> QED
      BY <3>1, <3>2, <3>3, <3>4
  <2> QED
    BY <2>6 DEF St, Wd
<1>11. CASE n = R + A + 3
  <2>0. /\ n \in Int /\ n - 1 \in Int /\ n # 1 /\ n # 0 /\ n - 1 # 0 /\ ~ (n <= R + 1)
        /\ ~ (n - 1 <= R + 1) /\ n # R + 2 /\ ~ (n <= R + A + 2)
        /\ n - 1 <= R + A + 2 /\ (n - 1) - R - 2 = A
    BY <1>1, <1>11
  <2>4. St(n - 1) = State(Begun, "none", "list arenas", robots,
                          SubSeq(arenas, 1, (n - 1) - R - 2))
    BY <1>2, <2>0
  <2>1. St(n - 1) = State(Begun, "none", "list arenas", robots, arenas)
    BY <1>5, <2>0, <2>4
  <2>2. Wd(n) = Keyword("robots")
    BY <1>3, <1>11, <2>0
  <2>3. St(n) = State(Begun, "robots", "keyword", robots, arenas)
    BY <1>2, <1>11, <2>0
  <2>6. St(n) = Read(St(n - 1), Wd(n))
    BY <2>1, <2>2, <2>3, ReadNumberKeyword DEF NumberKeywords
  <2> QED
    BY <2>6 DEF St, Wd
<1>12. CASE n = R + A + 4
  <2>0. /\ n \in Int /\ n - 1 \in Int /\ n # 1 /\ n # 0 /\ n - 1 # 0 /\ ~ (n <= R + 1)
        /\ ~ (n - 1 <= R + 1) /\ n # R + 2 /\ ~ (n <= R + A + 2)
        /\ ~ (n - 1 <= R + A + 2) /\ n - 1 = R + A + 3
        /\ n # R + A + 3
    BY <1>1, <1>12
  <2>1. St(n - 1) = State(Begun, "robots", "keyword", robots, arenas)
    BY <1>2, <2>0
  <2>2. Wd(n) = Number(number["robots"])
    BY <1>3, <1>12, <2>0
  <2>3. St(n) = State(n1, "none", "keyword", robots, arenas)
    BY <1>2, <1>12, <2>0
  <2>6. St(n) = Read(St(n - 1), Wd(n))
    BY <2>1, <2>2, <2>3, ReadNumberWord DEF NumberKeywords, n1
  <2> QED
    BY <2>6 DEF St, Wd
<1>13. CASE n = R + A + 5
  <2>0. /\ n \in Int /\ n - 1 \in Int /\ n # 1 /\ n # 0 /\ n - 1 # 0 /\ ~ (n <= R + 1)
        /\ ~ (n - 1 <= R + 1) /\ n # R + 2 /\ ~ (n <= R + A + 2)
        /\ ~ (n - 1 <= R + A + 2) /\ n - 1 = R + A + 4
        /\ n # R + A + 3 /\ n # R + A + 4
        /\ n - 1 # R + A + 3
    BY <1>1, <1>13
  <2>1. St(n - 1) = State(n1, "none", "keyword", robots, arenas)
    BY <1>2, <2>0
  <2>2. Wd(n) = Keyword("games")
    BY <1>3, <1>13, <2>0
  <2>3. St(n) = State(n1, "games", "keyword", robots, arenas)
    BY <1>2, <1>13, <2>0
  <2>6. St(n) = Read(St(n - 1), Wd(n))
    BY <2>1, <2>2, <2>3, ReadNumberKeyword DEF NumberKeywords
  <2> QED
    BY <2>6 DEF St, Wd
<1>14. CASE n = R + A + 6
  <2>0. /\ n \in Int /\ n - 1 \in Int /\ n # 1 /\ n # 0 /\ n - 1 # 0 /\ ~ (n <= R + 1)
        /\ ~ (n - 1 <= R + 1) /\ n # R + 2 /\ ~ (n <= R + A + 2)
        /\ ~ (n - 1 <= R + A + 2) /\ n - 1 = R + A + 5
        /\ n # R + A + 3 /\ n # R + A + 4 /\ n # R + A + 5
        /\ n - 1 # R + A + 3 /\ n - 1 # R + A + 4
    BY <1>1, <1>14
  <2>1. St(n - 1) = State(n1, "games", "keyword", robots, arenas)
    BY <1>2, <2>0
  <2>2. Wd(n) = Number(number["games"])
    BY <1>3, <1>14, <2>0
  <2>3. St(n) = State(n2, "none", "keyword", robots, arenas)
    BY <1>2, <1>14, <2>0
  <2>6. St(n) = Read(St(n - 1), Wd(n))
    BY <2>1, <2>2, <2>3, ReadNumberWord DEF NumberKeywords, n2
  <2> QED
    BY <2>6 DEF St, Wd
<1>15. CASE n = R + A + 7
  <2>0. /\ n \in Int /\ n - 1 \in Int /\ n # 1 /\ n # 0 /\ n - 1 # 0 /\ ~ (n <= R + 1)
        /\ ~ (n - 1 <= R + 1) /\ n # R + 2 /\ ~ (n <= R + A + 2)
        /\ ~ (n - 1 <= R + A + 2) /\ n - 1 = R + A + 6
        /\ n # R + A + 3 /\ n # R + A + 4 /\ n # R + A + 5 /\ n # R + A + 6
        /\ n - 1 # R + A + 3 /\ n - 1 # R + A + 4 /\ n - 1 # R + A + 5
    BY <1>1, <1>15
  <2>1. St(n - 1) = State(n2, "none", "keyword", robots, arenas)
    BY <1>2, <2>0
  <2>2. Wd(n) = Keyword("sequences")
    BY <1>3, <1>15, <2>0
  <2>3. St(n) = State(n2, "sequences", "keyword", robots, arenas)
    BY <1>2, <1>15, <2>0
  <2>6. St(n) = Read(St(n - 1), Wd(n))
    BY <2>1, <2>2, <2>3, ReadNumberKeyword DEF NumberKeywords
  <2> QED
    BY <2>6 DEF St, Wd
<1>16. CASE n = R + A + 8
  <2>0. /\ n \in Int /\ n - 1 \in Int /\ n # 1 /\ n # 0 /\ n - 1 # 0 /\ ~ (n <= R + 1)
        /\ ~ (n - 1 <= R + 1) /\ n # R + 2 /\ ~ (n <= R + A + 2)
        /\ ~ (n - 1 <= R + A + 2) /\ n - 1 = R + A + 7
        /\ n # R + A + 3 /\ n # R + A + 4 /\ n # R + A + 5 /\ n # R + A + 6 /\ n # R + A + 7
        /\ n - 1 # R + A + 3 /\ n - 1 # R + A + 4 /\ n - 1 # R + A + 5 /\ n - 1 # R + A + 6
    BY <1>1, <1>16
  <2>1. St(n - 1) = State(n2, "sequences", "keyword", robots, arenas)
    BY <1>2, <2>0
  <2>2. Wd(n) = Number(number["sequences"])
    BY <1>3, <1>16, <2>0
  <2>3. St(n) = State(n3, "none", "keyword", robots, arenas)
    BY <1>2, <1>16, <2>0
  <2>6. St(n) = Read(St(n - 1), Wd(n))
    BY <2>1, <2>2, <2>3, ReadNumberWord DEF NumberKeywords, n3
  <2> QED
    BY <2>6 DEF St, Wd
<1> QED
  BY <1>1, <1>7, <1>8, <1>9, <1>10, <1>11, <1>12, <1>13, <1>14, <1>15, <1>16

\* The numbers of a tournament of so many robots.
Playing(number, count) ==
    /\ number["robots"] \in 2 .. count
    /\ number["games"] \in Nat \ {0}
    /\ number["sequences"] \in Nat \ {0}

\* The tournament of these robots, arenas and numbers.
Tour(robots, arenas, number) ==
    [robot_list |-> robots, arena_list |-> arenas, games |-> number["games"],
     robots |-> number["robots"], sequences |-> number["sequences"]]

\* parse_tournament_file undoes save_tournament_file: a file that was written for
\* a tournament that can be played gives that tournament back.
LEMMA ParseWritten ==
    ASSUME NEW robots \in Seq(Members(RobotDir)), NEW arenas \in Seq(Members(ArenaDir)),
           NEW number, Playing(number, Len(robots))
    PROVE  Parse(Written(robots, arenas, number))
             = [how |-> "started", tournament |-> Tour(robots, arenas, number)]
<1> DEFINE R == Len(robots)
           A == Len(arenas)
           N == R + A + 8
           words == Written(robots, arenas, number)
           F == Members(RobotDir) \cup Members(ArenaDir)
           St == [n \in 0 .. N |-> StateAt(n, robots, arenas, number)]
           n1 == [Begun EXCEPT !["robots"] = number["robots"]]
           n2 == [n1 EXCEPT !["games"] = number["games"]]
           n3 == [n2 EXCEPT !["sequences"] = number["sequences"]]
<1>1. R \in Nat /\ A \in Nat /\ N \in Nat
  OBVIOUS
<1>2. robots \in Seq(F) /\ arenas \in Seq(F)
  <2>1. robots \in [1 .. R -> F] /\ arenas \in [1 .. A -> F]
    <3>1. \A i \in 1 .. R : robots[i] \in F
      OBVIOUS
    <3>2. \A i \in 1 .. A : arenas[i] \in F
      OBVIOUS
    <3>3. robots = [i \in 1 .. R |-> robots[i]] /\ arenas = [i \in 1 .. A |-> arenas[i]]
      OBVIOUS
    <3> HIDE DEF F, R, A
    <3> QED
      BY <3>1, <3>2, <3>3
  <2> HIDE DEF F, R, A
  <2> QED
    BY <1>1, <2>1
<1>3. Len(words) = N /\ \A n \in 1 .. N : words[n] = WordAt(n, robots, arenas, number)
  <2> HIDE DEF F
  <2> QED
    BY <1>2, WrittenIs
<1>4. ASSUME NEW n \in 1 .. N
      PROVE  St[n] = Read(St[n - 1], words[n])
  <2>1. n \in 0 .. N /\ n - 1 \in 0 .. N
    BY <1>1
  <2>2. St[n] = StateAt(n, robots, arenas, number)
        /\ St[n - 1] = StateAt(n - 1, robots, arenas, number)
    BY <2>1
  <2> HIDE DEF St, words
  <2> QED
    BY <1>3, <2>2, StateAtStep
<1>5. St[0] = NewParser /\ St = [n \in 0 .. N |-> St[n]]
  <2>1. 0 \in 0 .. N
    BY <1>1
  <2>2. StateAt(0, robots, arenas, number) = State(Begun, "none", "keyword", <<>>, <<>>)
    BY DEF StateAt
  <2>3. State(Begun, "none", "keyword", <<>>, <<>>) = NewParser
    BY DEF State, Begun, NewParser
  <2> QED
    BY <2>1, <2>2, <2>3
<1>6. St[N] = State(n3, "none", "keyword", robots, arenas)
  <2>1. /\ N \in 0 .. N /\ N # 0 /\ ~ (N <= R + 1) /\ ~ (N <= R + A + 2)
        /\ N # R + A + 3 /\ N # R + A + 4 /\ N # R + A + 5 /\ N # R + A + 6 /\ N # R + A + 7
    BY <1>1
  <2>2. St[N] = StateAt(N, robots, arenas, number)
    <3> HIDE DEF N
    <3> QED
      BY <2>1
  <2>3. StateAt(N, robots, arenas, number) = State(n3, "none", "keyword", robots, arenas)
    <3> HIDE DEF N
    <3> QED
      BY <2>1 DEF StateAt
  <2> QED
    BY <2>2, <2>3
<1>7. Parse(words) = Outcome(St[N])
  <2> HIDE DEF St, words, N
  <2> QED
    BY <1>1, <1>3, <1>4, <1>5, ParseIs
<1>8. n3["robots"] = number["robots"] /\ n3["games"] = number["games"]
      /\ n3["sequences"] = number["sequences"]
  BY DEF Begun, NewParser, NumberKeywords
<1> HIDE DEF n1, n2, n3
<1> DEFINE p == State(n3, "none", "keyword", robots, arenas)
<1>9. Settled(p) = Tour(robots, arenas, number)
  <2>1. p.number = n3 /\ p.robot_list = robots /\ p.arena_list = arenas
    BY DEF State
  <2>2. /\ number["games"] # -1 /\ number["sequences"] # -1 /\ number["robots"] # -1
        /\ ~ (R < number["robots"])
    BY <1>1 DEF Playing
  <2> HIDE DEF p
  <2> QED
    BY <1>8, <2>1, <2>2 DEF Settled, Resolved, Tour
<1>10. Acceptable(Tour(robots, arenas, number))
  BY DEF Acceptable, Tour, Playing
<1> QED
  BY <1>6, <1>7, <1>9, <1>10 DEF Outcome
-----------------------------------------------------------------------------
(***************************************************************************)
(* What the callbacks do to a list and its rows.                           *)
(***************************************************************************)

\* A list given entry by entry.
LEMMA MatchedBy ==
    ASSUME NEW F, NEW rows \in Seq(F), NEW infos,
           infos = [i \in 1 .. Len(rows) |-> infos[i]],
           \A i \in 1 .. Len(rows) : /\ infos[i] \in InfoOf(F)
                                     /\ infos[i].file = rows[i] /\ infos[i].row = i - 1
    PROVE  Matched(rows, infos, F)
<1>1. Len(rows) \in Nat
  OBVIOUS
<1>2. infos \in [1 .. Len(rows) -> InfoOf(F)]
  OBVIOUS
<1>3. infos \in Seq(InfoOf(F)) /\ Len(infos) = Len(rows)
  BY <1>1, <1>2
<1> QED
  BY <1>3 DEF Matched

\* The list and rows that new_tournament fills.
LEMMA InfosMatch ==
    ASSUME NEW F, NEW files \in Seq(F)
    PROVE  Matched(files, Infos(files), F)
<1> DEFINE infos == Infos(files)
<1>1. infos = [i \in 1 .. Len(files) |-> infos[i]]
  BY DEF Infos
<1>2. ASSUME NEW i \in 1 .. Len(files)
      PROVE  infos[i] \in InfoOf(F) /\ infos[i].file = files[i] /\ infos[i].row = i - 1
  <2>1. infos[i] = [file |-> files[i], row |-> i - 1, selected |-> FALSE]
    BY DEF Infos, Info
  <2>2. files[i] \in F /\ i - 1 \in Nat
    OBVIOUS
  <2> HIDE DEF infos
  <2> QED
    BY <2>1, <2>2 DEF InfoOf
<1> HIDE DEF infos
<1>3. Matched(files, infos, F)
  BY <1>1, <1>2, MatchedBy
<1> QED
  BY <1>3 DEF infos

\* The files of a list are its rows.
LEMMA FilesAreRows ==
    ASSUME NEW F, NEW rows, NEW infos, Matched(rows, infos, F)
    PROVE  Files(infos) = rows
<1>1. /\ rows \in Seq(F) /\ Len(rows) = Len(infos)
      /\ \A i \in 1 .. Len(infos) : infos[i].file = rows[i]
  BY DEF Matched
<1>2. rows = [i \in 1 .. Len(rows) |-> rows[i]]
  BY <1>1
<1> QED
  BY <1>1, <1>2 DEF Files

\* An entry that is selected, or no longer selected, stays where it is.
LEMMA SelectMatches ==
    ASSUME NEW F, NEW info \in InfoOf(F), NEW b \in BOOLEAN
    PROVE  LET s == [info EXCEPT !.selected = b]
           IN  s \in InfoOf(F) /\ s.file = info.file /\ s.row = info.row
BY DEF InfoOf

\* One entry is clicked.
LEMMA ClickMatches ==
    ASSUME NEW F, NEW rows, NEW infos, Matched(rows, infos, F), NEW i \in 1 .. Len(infos)
    PROVE  Matched(rows, [infos EXCEPT ![i].selected = ~ @], F)
<1> DEFINE new == [infos EXCEPT ![i].selected = ~ @]
<1>1. /\ rows \in Seq(F) /\ infos \in Seq(InfoOf(F)) /\ Len(rows) = Len(infos)
      /\ \A j \in 1 .. Len(infos) : infos[j].file = rows[j] /\ infos[j].row = j - 1
  BY DEF Matched
<1>2. /\ infos = [j \in 1 .. Len(rows) |-> infos[j]]
      /\ \A j \in 1 .. Len(rows) : infos[j] \in InfoOf(F)
  BY <1>1, ElementOfSeq
<1>3. /\ new = [j \in 1 .. Len(rows) |-> new[j]]
      /\ new[i] = [infos[i] EXCEPT !.selected = ~ infos[i].selected]
      /\ \A j \in 1 .. Len(rows) : j # i => new[j] = infos[j]
  BY <1>1, <1>2
<1> HIDE DEF new
<1>4. new[i] \in InfoOf(F) /\ new[i].file = infos[i].file /\ new[i].row = infos[i].row
  <2>1. infos[i] \in InfoOf(F)
    BY <1>1, <1>2
  <2> DEFINE b == ~ infos[i].selected
  <2>2. b \in BOOLEAN
    OBVIOUS
  <2>3. new[i] = [infos[i] EXCEPT !.selected = b]
    BY <1>3
  <2> HIDE DEF b
  <2> QED
    BY <2>1, <2>2, <2>3, SelectMatches
<1>5. \A j \in 1 .. Len(rows) : /\ new[j] \in InfoOf(F)
                                /\ new[j].file = rows[j] /\ new[j].row = j - 1
  <2> TAKE j \in 1 .. Len(rows)
  <2>1. CASE j = i
    BY <1>1, <1>4, <2>1
  <2>2. CASE j # i
    BY <1>1, <1>2, <1>3, <2>2
  <2> QED
    BY <2>1, <2>2
<1>6. Matched(rows, new, F)
  BY <1>1, <1>3, <1>5, MatchedBy
<1> QED
  BY <1>6 DEF new

\* All entries are selected, or none.
LEMMA AllMatches ==
    ASSUME NEW F, NEW rows, NEW infos, Matched(rows, infos, F), NEW b \in BOOLEAN
    PROVE  Matched(rows, [i \in 1 .. Len(infos) |-> [infos[i] EXCEPT !.selected = b]], F)
<1> DEFINE new == [i \in 1 .. Len(infos) |-> [infos[i] EXCEPT !.selected = b]]
<1>1. /\ rows \in Seq(F) /\ infos \in Seq(InfoOf(F)) /\ Len(rows) = Len(infos)
      /\ \A j \in 1 .. Len(infos) : infos[j].file = rows[j] /\ infos[j].row = j - 1
  BY DEF Matched
<1>2. \A j \in 1 .. Len(rows) : infos[j] \in InfoOf(F)
  BY <1>1, ElementOfSeq
<1>3. /\ new = [j \in 1 .. Len(rows) |-> new[j]]
      /\ \A j \in 1 .. Len(rows) : new[j] = [infos[j] EXCEPT !.selected = b]
  BY <1>1
<1> HIDE DEF new
<1>4. \A j \in 1 .. Len(rows) : /\ new[j] \in InfoOf(F)
                                /\ new[j].file = rows[j] /\ new[j].row = j - 1
  <2> TAKE j \in 1 .. Len(rows)
  <2>1. new[j] \in InfoOf(F) /\ new[j].file = infos[j].file /\ new[j].row = infos[j].row
    <3>1. infos[j] \in InfoOf(F) /\ new[j] = [infos[j] EXCEPT !.selected = b]
      BY <1>2, <1>3
    <3> QED
      BY <3>1, SelectMatches
  <2> QED
    BY <1>1, <2>1
<1>5. Matched(rows, new, F)
  BY <1>1, <1>3, <1>4, MatchedBy
<1> QED
  BY <1>5 DEF new

\* Files are added at the end.
LEMMA AddMatches ==
    ASSUME NEW F, NEW rows, NEW infos, Matched(rows, infos, F), NEW new \in Seq(F)
    PROVE  Matched(rows \o new,
                   infos \o [i \in 1 .. Len(new) |-> Info(new[i], Len(rows) + i - 1)], F)
<1> DEFINE n == Len(rows)
           m == Len(new)
           more == [i \in 1 .. m |-> Info(new[i], n + i - 1)]
           r == rows \o new
           s == infos \o more
<1>1. /\ rows \in Seq(F) /\ infos \in Seq(InfoOf(F)) /\ n \in Nat /\ Len(infos) = n
      /\ m \in Nat
      /\ \A j \in 1 .. n : infos[j].file = rows[j] /\ infos[j].row = j - 1
  BY DEF Matched
<1>2. \A j \in 1 .. m : /\ more[j] \in InfoOf(F)
                        /\ more[j].file = new[j] /\ more[j].row = n + j - 1
  <2> TAKE j \in 1 .. m
  <2>1. more[j] = [file |-> new[j], row |-> n + j - 1, selected |-> FALSE]
    BY DEF Info
  <2>2. new[j] \in F /\ n + j - 1 \in Nat
    BY <1>1
  <2> HIDE DEF more
  <2> QED
    BY <2>1, <2>2 DEF InfoOf
<1>3. more \in Seq(InfoOf(F)) /\ Len(more) = m
  <2>1. more = [j \in 1 .. m |-> more[j]]
    OBVIOUS
  <2> HIDE DEF more, m
  <2>2. more \in [1 .. m -> InfoOf(F)]
    BY <1>2, <2>1
  <2> QED
    BY <1>1, <2>2
<1> HIDE DEF more, n, m, r, s
<1>4. /\ SeqOf(F, r, n + m)
      /\ \A j \in 1 .. n : r[j] = rows[j]
      /\ \A j \in 1 .. m : r[n + j] = new[j]
  <2>1. Joined(F, rows, n, new, m, r)
    BY <1>1 DEF Joined, SeqOf, r, n, m
  <2> QED
    BY <2>1, ConcatAt
<1>5. /\ SeqOf(InfoOf(F), s, n + m)
      /\ \A j \in 1 .. n : s[j] = infos[j]
      /\ \A j \in 1 .. m : s[n + j] = more[j]
  <2>1. Joined(InfoOf(F), infos, n, more, m, s)
    BY <1>1, <1>3 DEF Joined, SeqOf, s
  <2> QED
    BY <2>1, ConcatAt
<1>6. ASSUME NEW j \in 1 .. n + m
      PROVE  s[j].file = r[j] /\ s[j].row = j - 1
  <2>1. CASE j \in 1 .. n
    BY <1>1, <1>4, <1>5, <2>1
  <2>2. CASE j \notin 1 .. n
    <3>1. j - n \in 1 .. m /\ n + (j - n) = j
      BY <1>1, <2>2
    <3>2. s[j] = more[j - n] /\ r[j] = new[j - n]
      BY <1>4, <1>5, <3>1
    <3>3. more[j - n].file = new[j - n] /\ more[j - n].row = n + (j - n) - 1
      BY <1>2, <3>1
    <3>4. n + (j - n) - 1 = j - 1
      BY <1>1
    <3> QED
      BY <3>2, <3>3, <3>4
  <2> QED
    BY <2>1, <2>2
<1>7. Matched(r, s, F)
  BY <1>4, <1>5, <1>6 DEF SeqOf, Matched
<1> QED
  BY <1>7 DEF r, s, more, n, m
-----------------------------------------------------------------------------
(***************************************************************************)
(* The invariant.                                                          *)
(***************************************************************************)

\* The lists and the rows shown for them.
ListsMatch(l, c) ==
    /\ l = [k \in Kinds |-> l[k]] /\ c = [k \in Kinds |-> c[k]]
    /\ \A k \in Kinds : Matched(c[k], l[k], Members(Dir(k)))

\* What an entry may hold: nothing that is a number, or one.
EntryValues == {{}} \cup {{n} : n \in Int}

\* A tournament that can be played, of files that are there.
GoodTour(robots, arenas, number) ==
    /\ robots \in Seq(Members(RobotDir))
    /\ arenas \in Seq(Members(ArenaDir)) /\ arenas # <<>>
    /\ Playing(number, Len(robots))

\* A tournament file that the window has written.
GoodFile(words) ==
    \/ words = <<>>
    \/ \E robots, arenas, number : /\ GoodTour(robots, arenas, number)
                                   /\ words = Written(robots, arenas, number)

\* The tournament that was started, and the file written for it.
Kept(t, words) ==
    \E robots, arenas, number :
       /\ GoodTour(robots, arenas, number)
       /\ t = Tour(robots, arenas, number)
       /\ FailedReadIsZero => words = Written(robots, arenas, number)

WindowInv ==
    /\ ListsMatch(list, clist)
    /\ entries \in [NumberKeywords -> EntryValues]
    /\ disk = [f \in {"tmp.tour", "user"} |-> disk[f]]
    /\ GoodFile(disk["tmp.tour"]) /\ GoodFile(disk["user"])
    /\ \A t \in running : Kept(t, disk["tmp.tour"])

\* A file of the window is rejected or read as the tournament it was written for.
LEMMA GoodFileParsed ==
    ASSUME NEW words, GoodFile(words)
    PROVE  \/ Parse(words).how # "started"
           \/ \E robots, arenas, number :
                 /\ GoodTour(robots, arenas, number)
                 /\ Parse(words) = [how |-> "started",
                                    tournament |-> Tour(robots, arenas, number)]
<1>1. CASE words = <<>>
  BY <1>1, ParseEmpty
<1>2. CASE \E robots, arenas, number : /\ GoodTour(robots, arenas, number)
                                       /\ words = Written(robots, arenas, number)
  <2>1. PICK robots, arenas, number : /\ GoodTour(robots, arenas, number)
                                      /\ words = Written(robots, arenas, number)
    BY <1>2
  <2>2. Parse(words) = [how |-> "started", tournament |-> Tour(robots, arenas, number)]
    BY <2>1, ParseWritten DEF GoodTour
  <2> QED
    BY <2>1, <2>2
<1> QED
  BY <1>1, <1>2 DEF GoodFile

\* The invariant holds when the window is opened first.
LEMMA WindowInvInit == Init => WindowInv
<1> SUFFICES ASSUME Init PROVE WindowInv
  OBVIOUS
<1> USE DEF Init
<1>1. ListsMatch(list, clist)
  <2>1. ASSUME NEW k \in Kinds
        PROVE  Matched(clist[k], list[k], Members(Dir(k)))
    <3>1. list[k] = <<>> /\ clist[k] = <<>>
      BY DEF EmptyList
    <3>2. <<>> \in Seq(Members(Dir(k))) /\ <<>> \in Seq(InfoOf(Members(Dir(k))))
          /\ Len(<<>>) = 0
      OBVIOUS
    <3> QED
      BY <3>1, <3>2 DEF Matched
  <2> QED
    BY <2>1 DEF ListsMatch, EmptyList
<1>2. entries \in [NumberKeywords -> EntryValues]
  BY DEF Defaults, EntryValues
<1> QED
  BY <1>1, <1>2 DEF WindowInv, GoodFile

\* The lists of a tournament that is shown.
LEMMA ShownMatches ==
    ASSUME NEW robots, NEW arenas, NEW number, GoodTour(robots, arenas, number),
           NewTournament(Tour(robots, arenas, number))
    PROVE  /\ ListsMatch(list', clist')
           /\ entries' \in [NumberKeywords -> EntryValues]
<1> DEFINE t == Tour(robots, arenas, number)
<1>1. t.robot_list = robots /\ t.arena_list = arenas
  BY DEF Tour
<1>2. \A k \in NumberKeywords : t[k] \in Int
  BY DEF GoodTour, Playing, Tour, NumberKeywords
<1>3. NewTournament(t)
  OBVIOUS
<1> HIDE DEF t
<1>4. /\ list' = [k \in Kinds |-> Infos(IF k = "robot" THEN robots ELSE arenas)]
      /\ clist' = [k \in Kinds |-> IF k = "robot" THEN robots ELSE arenas]
      /\ entries' = [k \in NumberKeywords |-> {t[k]}]
  BY <1>1, <1>3 DEF NewTournament
<1>5. ASSUME NEW k \in Kinds
      PROVE  Matched(clist'[k], list'[k], Members(Dir(k)))
  <2> DEFINE files == IF k = "robot" THEN robots ELSE arenas
  <2>1. clist'[k] = files /\ list'[k] = Infos(files)
    BY <1>4
  <2>2. files \in Seq(Members(Dir(k)))
    BY DEF GoodTour, Dir
  <2> HIDE DEF files
  <2> QED
    BY <2>1, <2>2, InfosMatch
<1>6. ListsMatch(list', clist')
  BY <1>4, <1>5 DEF ListsMatch
<1>7. entries' \in [NumberKeywords -> EntryValues]
  BY <1>2, <1>4 DEF EntryValues
<1> QED
  BY <1>6, <1>7

\* What ReadEntry reads is a number, and one only if it does not read garbage.
LEMMA ReadEntryInt ==
    ASSUME NEW e, entries[e] \in EntryValues
    PROVE  /\ ReadEntry(e) \subseteq Int
           /\ FailedReadIsZero => \A m, n \in ReadEntry(e) : m = n
BY WindowAssumption DEF ReadEntry, EntryValues

\* The numbers written and started are those of a tournament that can be played.
LEMMA ValuesPlaying ==
    ASSUME WindowInv, Complete, NEW v \in Values
    PROVE  Playing(v, Len(list["robot"]))
<1> DEFINE R == Len(list["robot"])
<1>1. /\ "robots" \in NumberKeywords /\ "games" \in NumberKeywords
      /\ "sequences" \in NumberKeywords
  BY DEF NumberKeywords
<1>2. \A k \in NumberKeywords : \E n \in ReadEntry(k) : v[k] = Clamp(k, n)
  BY DEF Values
<1>3. \A k \in NumberKeywords : ReadEntry(k) \subseteq Int
  <2> TAKE k \in NumberKeywords
  <2>1. entries[k] \in EntryValues
    BY DEF WindowInv
  <2> QED
    BY <2>1, ReadEntryInt
<1>4. R \in Nat /\ R > 1
  <2>1. "robot" \in Kinds
    BY DEF Kinds
  <2>2. Matched(clist["robot"], list["robot"], Members(Dir("robot")))
    BY <2>1 DEF WindowInv, ListsMatch
  <2> QED
    BY <2>2 DEF Matched, Complete
<1>5. v["robots"] \in 2 .. R
  <2>1. PICK n \in Int : v["robots"] = Clamp("robots", n)
    BY <1>1, <1>2, <1>3
  <2>2. Clamp("robots", n) = Larger(2, Smaller(Smaller(MaxAllowed, R), n))
    BY DEF Clamp
  <2> HIDE DEF R
  <2> QED
    BY <1>4, <2>1, <2>2, WindowAssumption DEF Larger, Smaller
<1>6. ASSUME NEW k \in {"games", "sequences"}
      PROVE  v[k] \in Nat \ {0}
  <2>1. PICK n \in Int : v[k] = Clamp(k, n)
    BY <1>1, <1>2, <1>3
  <2>2. Clamp(k, n) = Larger(1, Smaller(10000, n))
    BY DEF Clamp
  <2> QED
    BY <2>1, <2>2 DEF Larger, Smaller
<1> QED
  BY <1>5, <1>6 DEF Playing

\* The robots and arenas of the window can be played with once it is complete.
LEMMA ListsGood ==
    ASSUME WindowInv, Complete, NEW v \in Values
    PROVE  GoodTour(Files(list["robot"]), Files(list["arena"]), v)
<1>1. Matched(clist["robot"], list["robot"], Members(RobotDir))
  BY DEF WindowInv, ListsMatch, Kinds, Dir
<1>2. Matched(clist["arena"], list["arena"], Members(ArenaDir))
  BY DEF WindowInv, ListsMatch, Kinds, Dir
<1>3. Files(list["robot"]) = clist["robot"] /\ Files(list["arena"]) = clist["arena"]
  BY <1>1, <1>2, FilesAreRows
<1>4. clist["robot"] \in Seq(Members(RobotDir)) /\ clist["arena"] \in Seq(Members(ArenaDir))
      /\ Len(clist["robot"]) = Len(list["robot"]) /\ Len(clist["arena"]) = Len(list["arena"])
  BY <1>1, <1>2 DEF Matched
<1>5. clist["arena"] # <<>>
  <2>1. list["arena"] # <<>> /\ list["arena"] \in Seq(InfoOf(Members(ArenaDir)))
    BY <1>2 DEF Matched, Complete
  <2>2. Len(list["arena"]) # 0
    BY <2>1, EmptySeq
  <2> QED
    BY <1>4, <2>2
<1>6. Playing(v, Len(list["robot"]))
  BY ValuesPlaying
<1> QED
  BY <1>3, <1>4, <1>5, <1>6 DEF GoodTour

\* Without garbage the entries stand for one set of numbers, however often they
\* are read.
LEMMA ValuesUnique ==
    ASSUME WindowInv, FailedReadIsZero, NEW v \in Values, NEW w \in Values
    PROVE  v = w
<1>1. ASSUME NEW k \in NumberKeywords
      PROVE  v[k] = w[k]
  <2>1. entries[k] \in EntryValues
    BY DEF WindowInv
  <2>2. \A m, n \in ReadEntry(k) : m = n
    BY <2>1, ReadEntryInt
  <2>3. PICK m \in ReadEntry(k) : v[k] = Clamp(k, m)
    BY DEF Values
  <2>4. PICK n \in ReadEntry(k) : w[k] = Clamp(k, n)
    BY DEF Values
  <2>5. m = n
    BY <2>2
  <2> QED
    BY <2>3, <2>4, <2>5
<1>2. v = [k \in NumberKeywords |-> v[k]] /\ w = [k \in NumberKeywords |-> w[k]]
  BY DEF Values
<1> QED
  BY <1>1, <1>2
-----------------------------------------------------------------------------
(***************************************************************************)
(* The callbacks.                                                          *)
(***************************************************************************)

\* The window is changed, and neither the files nor what runs.
Idle == UNCHANGED <<disk, running>>

\* It is kept if the lists and entries are, and nothing else changes.
LEMMA IdleStep ==
    ASSUME WindowInv, Idle, ListsMatch(list', clist'),
           entries' \in [NumberKeywords -> EntryValues]
    PROVE  WindowInv'
BY DEF WindowInv, Idle

\* Only the list of one kind changes, and agrees with its rows.
LEMMA OneListMatches ==
    ASSUME WindowInv, NEW k \in Kinds, NEW rows, NEW infos,
           Matched(rows, infos, Members(Dir(k))),
           list' = [list EXCEPT ![k] = infos],
           clist' = [clist EXCEPT ![k] = rows]
    PROVE  ListsMatch(list', clist')
<1>1. /\ list = [q \in Kinds |-> list[q]] /\ clist = [q \in Kinds |-> clist[q]]
      /\ \A q \in Kinds : Matched(clist[q], list[q], Members(Dir(q)))
  BY DEF WindowInv, ListsMatch
<1>2. list' = [q \in Kinds |-> IF q = k THEN infos ELSE list[q]]
  BY <1>1
<1>3. clist' = [q \in Kinds |-> IF q = k THEN rows ELSE clist[q]]
  BY <1>1
<1>4. ASSUME NEW q \in Kinds
      PROVE  Matched(clist'[q], list'[q], Members(Dir(q)))
  <2>1. CASE q = k
    <3>1. list'[q] = infos /\ clist'[q] = rows
      BY <1>2, <1>3, <2>1
    <3> QED
      BY <2>1, <3>1
  <2>2. CASE q # k
    <3>1. list'[q] = list[q] /\ clist'[q] = clist[q]
      BY <1>2, <1>3, <2>2
    <3> QED
      BY <1>1, <3>1
  <2> QED
    BY <2>1, <2>2
<1> QED
  BY <1>2, <1>3, <1>4 DEF ListsMatch

\* Load.
LEMMA LoadTournamentStep ==
    ASSUME WindowInv, LoadTournament
    PROVE  WindowInv'
<1>1. Idle
  BY DEF LoadTournament, Idle
<1> DEFINE o == Parse(disk["user"])
<1>2. GoodFile(disk["user"])
  BY DEF WindowInv
<1>3. CASE o.how # "started"
  <2>1. UNCHANGED <<list, clist, entries>>
    BY <1>3 DEF LoadTournament
  <2> QED
    BY <1>1, <2>1 DEF WindowInv, Idle
<1>4. CASE o.how = "started"
  <2>1. PICK robots, arenas, number :
           /\ GoodTour(robots, arenas, number)
           /\ o = [how |-> "started", tournament |-> Tour(robots, arenas, number)]
    BY <1>2, <1>4, GoodFileParsed
  <2>2. NewTournament(o.tournament)
    BY <1>4 DEF LoadTournament
  <2>3. o.tournament = Tour(robots, arenas, number)
    BY <2>1
  <2> HIDE DEF o
  <2>4. NewTournament(Tour(robots, arenas, number))
    BY <2>2, <2>3
  <2> QED
    BY <1>1, <2>1, <2>4, ShownMatches, IdleStep
<1> QED
  BY <1>3, <1>4

\* The window is opened again.
LEMMA ReopenStep ==
    ASSUME WindowInv, Reopen
    PROVE  WindowInv'
<1>1. Idle
  BY DEF Reopen, Idle
<1> DEFINE o == Parse(disk["tmp.tour"])
<1>2. GoodFile(disk["tmp.tour"])
  BY DEF WindowInv
<1>3. CASE o.how # "started"
  <2>1. list' = EmptyList /\ clist' = EmptyList /\ entries' = Defaults
    BY <1>3 DEF Reopen
  <2>2. ASSUME NEW k \in Kinds
        PROVE  Matched(clist'[k], list'[k], Members(Dir(k)))
    <3>1. list'[k] = <<>> /\ clist'[k] = <<>>
      BY <2>1 DEF EmptyList
    <3>2. <<>> \in Seq(Members(Dir(k))) /\ <<>> \in Seq(InfoOf(Members(Dir(k))))
          /\ Len(<<>>) = 0
      OBVIOUS
    <3> QED
      BY <3>1, <3>2 DEF Matched
  <2>3. ListsMatch(list', clist')
    BY <2>1, <2>2 DEF ListsMatch, EmptyList
  <2>4. entries' \in [NumberKeywords -> EntryValues]
    BY <2>1 DEF Defaults, EntryValues
  <2> QED
    BY <1>1, <2>3, <2>4, IdleStep
<1>4. CASE o.how = "started"
  <2>1. PICK robots, arenas, number :
           /\ GoodTour(robots, arenas, number)
           /\ o = [how |-> "started", tournament |-> Tour(robots, arenas, number)]
    BY <1>2, <1>4, GoodFileParsed
  <2>2. NewTournament(o.tournament)
    BY <1>4 DEF Reopen
  <2>3. o.tournament = Tour(robots, arenas, number)
    BY <2>1
  <2> HIDE DEF o
  <2>4. NewTournament(Tour(robots, arenas, number))
    BY <2>2, <2>3
  <2> QED
    BY <1>1, <2>1, <2>4, ShownMatches, IdleStep
<1> QED
  BY <1>3, <1>4

\* The rows of a list of the window.
LEMMA MatchedNow ==
    ASSUME WindowInv, NEW k \in Kinds
    PROVE  /\ Matched(clist[k], list[k], Members(Dir(k)))
           /\ list = [q \in Kinds |-> list[q]] /\ clist = [q \in Kinds |-> clist[q]]
           /\ clist = [clist EXCEPT ![k] = clist[k]]
<1>1. /\ list = [q \in Kinds |-> list[q]] /\ clist = [q \in Kinds |-> clist[q]]
      /\ Matched(clist[k], list[k], Members(Dir(k)))
  BY DEF WindowInv, ListsMatch
<1>2. clist = [clist EXCEPT ![k] = clist[k]]
  BY <1>1
<1> QED
  BY <1>1, <1>2

\* A row is clicked.
LEMMA SelectRowStep ==
    ASSUME WindowInv, SelectRow
    PROVE  WindowInv'
<1>1. Idle /\ entries' = entries /\ clist' = clist
  BY DEF SelectRow, Idle
<1>2. PICK k \in Kinds : \E i \in 1 .. Len(list[k]) :
                            list' = [list EXCEPT ![k][i].selected = ~ @]
  BY DEF SelectRow
<1>3. PICK i \in 1 .. Len(list[k]) : list' = [list EXCEPT ![k][i].selected = ~ @]
  BY <1>2
<1>4. PICK rows, infos : rows = clist[k] /\ infos = list[k]
  OBVIOUS
<1>5. /\ Matched(rows, infos, Members(Dir(k))) /\ clist' = [clist EXCEPT ![k] = rows]
      /\ i \in 1 .. Len(infos)
  BY <1>1, <1>3, <1>4, MatchedNow
<1>6. list' = [list EXCEPT ![k] = [infos EXCEPT ![i].selected = ~ @]]
  BY <1>3, <1>4
<1>7. Matched(rows, [infos EXCEPT ![i].selected = ~ @], Members(Dir(k)))
  BY <1>5, ClickMatches
<1>8. ListsMatch(list', clist')
  BY <1>5, <1>6, <1>7, OneListMatches
<1> QED
  BY <1>1, <1>8, IdleStep DEF WindowInv

\* Select all, or none.
LEMMA SelectAllStep ==
    ASSUME WindowInv, SelectAll
    PROVE  WindowInv'
<1>1. Idle /\ entries' = entries /\ clist' = clist
  BY DEF SelectAll, Idle
<1>2. PICK k \in Kinds, all \in BOOLEAN :
         list' = [list EXCEPT ![k] = [i \in 1 .. Len(@) |-> [@[i] EXCEPT !.selected = all]]]
  BY DEF SelectAll
<1>3. PICK rows, infos : rows = clist[k] /\ infos = list[k]
  OBVIOUS
<1> DEFINE new == [i \in 1 .. Len(infos) |-> [infos[i] EXCEPT !.selected = all]]
<1>4. Matched(rows, infos, Members(Dir(k))) /\ clist' = [clist EXCEPT ![k] = rows]
  BY <1>1, <1>3, MatchedNow
<1>5. list' = [list EXCEPT ![k] = new]
  BY <1>2, <1>3
<1>6. Matched(rows, new, Members(Dir(k)))
  BY <1>4, AllMatches
<1> HIDE DEF new
<1>7. ListsMatch(list', clist')
  BY <1>4, <1>5, <1>6, OneListMatches
<1> QED
  BY <1>1, <1>7, IdleStep DEF WindowInv

\* Add.
LEMMA AddAllSelectedStep ==
    ASSUME WindowInv, AddAllSelected
    PROVE  WindowInv'
<1>1. Idle /\ entries' = entries
  BY DEF AddAllSelected, Idle
<1>2. PICK k \in Kinds :
         LET new == Chosen(Dir(k), picked[k])
         IN  /\ clist' = [clist EXCEPT ![k] = @ \o new]
             /\ list' = [list EXCEPT ![k] = @ \o [i \in 1 .. Len(new) |->
                                  Info(new[i], Len(clist[k]) + i - 1)]]
  BY DEF AddAllSelected
<1>3. PICK rows, infos, new : /\ rows = clist[k] /\ infos = list[k]
                              /\ new = Chosen(Dir(k), picked[k])
  OBVIOUS
<1>4. new \in Seq(Members(Dir(k)))
  <2>1. Dir(k) \in Seq(Members(Dir(k)))
    BY ParserAssumption DEF Dir
  <2> QED
    BY <1>3, <2>1, ChosenType
<1>5. Matched(rows, infos, Members(Dir(k)))
  BY <1>3, MatchedNow
<1> DEFINE rows2 == rows \o new
           infos2 == infos \o [i \in 1 .. Len(new) |-> Info(new[i], Len(rows) + i - 1)]
<1>6. clist' = [clist EXCEPT ![k] = rows2] /\ list' = [list EXCEPT ![k] = infos2]
  BY <1>2, <1>3
<1>7. Matched(rows2, infos2, Members(Dir(k)))
  BY <1>4, <1>5, AddMatches
<1> HIDE DEF rows2, infos2
<1>8. ListsMatch(list', clist')
  BY <1>6, <1>7, OneListMatches
<1> QED
  BY <1>1, <1>8, IdleStep DEF WindowInv

\* Remove.
LEMMA RemoveAllSelectedStep ==
    ASSUME WindowInv, RemoveAllSelected
    PROVE  WindowInv'
<1>1. Idle /\ entries' = entries
  BY DEF RemoveAllSelected, Idle
<1>2. PICK k \in Kinds :
         LET w == Removed([rows |-> clist[k], infos |-> list[k]])
         IN  /\ clist' = [clist EXCEPT ![k] = w.rows]
             /\ list' = [list EXCEPT ![k] = w.infos]
  BY DEF RemoveAllSelected
<1>3. PICK rows, infos : rows = clist[k] /\ infos = list[k]
  OBVIOUS
<1>4. Matched(rows, infos, Members(Dir(k)))
  BY <1>3, MatchedNow
<1>5. [rows |-> rows, infos |-> infos] \in Windows(Members(Dir(k)))
  BY <1>4 DEF Windows, Matched
<1>6. PICK w : w = Removed([rows |-> rows, infos |-> infos])
  OBVIOUS
<1>7. w \in Windows(Members(Dir(k)))
  BY <1>5, <1>6, RemovedMatches
<1>8. Matched(w.rows, w.infos, Members(Dir(k)))
  BY <1>7 DEF Windows
<1>9. clist' = [clist EXCEPT ![k] = w.rows] /\ list' = [list EXCEPT ![k] = w.infos]
  BY <1>2, <1>3, <1>6
<1>10. ListsMatch(list', clist')
  BY <1>8, <1>9, OneListMatches
<1> QED
  BY <1>1, <1>10, IdleStep DEF WindowInv

\* The lists stay, and an entry gets a number.
LEMMA EntryStep ==
    ASSUME WindowInv, Idle, UNCHANGED <<list, clist>>, NEW k \in NumberKeywords,
           NEW e \in EntryValues, entries' = [entries EXCEPT ![k] = e]
    PROVE  WindowInv'
<1>1. entries' \in [NumberKeywords -> EntryValues]
  BY DEF WindowInv
<1>2. ListsMatch(list', clist')
  BY DEF WindowInv
<1> QED
  BY <1>1, <1>2, IdleStep

\* A number is typed.
LEMMA TypeEntryStep ==
    ASSUME WindowInv, TypeEntry
    PROVE  WindowInv'
<1>1. Idle /\ UNCHANGED <<list, clist>>
  BY DEF TypeEntry, Idle
<1>2. PICK k \in NumberKeywords, e \in {{}} \cup {{n} : n \in Typed} :
         entries' = [entries EXCEPT ![k] = e]
  BY DEF TypeEntry
<1>3. e \in EntryValues
  <2>1. CASE e = {}
    BY <2>1 DEF EntryValues
  <2>2. CASE \E n \in Typed : e = {n}
    <3>1. PICK n \in Typed : e = {n}
      BY <2>2
    <3>2. n \in Int
      BY WindowAssumption
    <3> QED
      BY <3>1, <3>2 DEF EntryValues
  <2> QED
    BY <1>2, <2>1, <2>2
<1> QED
  BY <1>1, <1>2, <1>3, EntryStep

\* A button sets a number.
LEMMA SetEntryStep ==
    ASSUME WindowInv, SetEntry
    PROVE  WindowInv'
<1>1. Idle /\ UNCHANGED <<list, clist>>
  BY DEF SetEntry, Idle
<1>2. \A n \in Int : {n} \in EntryValues
  BY DEF EntryValues
<1>3. Len(list["robot"]) \in Nat /\ Len(list["arena"]) \in Nat
  BY MatchedNow DEF Kinds, Matched
<1>4. /\ "robots" \in NumberKeywords /\ "games" \in NumberKeywords
      /\ "sequences" \in NumberKeywords
  BY DEF NumberKeywords
<1>5. \A a, b \in Int : Smaller(a, b) \in Int /\ Larger(a, b) \in Int
  BY DEF Smaller, Larger
<1>6. MaxAllowed \in Int /\ 1 \in Int /\ 2 \in Int /\ 9999 \in Int
  BY WindowAssumption
<1>11. Len(list["robot"]) \in Int /\ Len(list["arena"]) \in Int
  BY <1>3
<1> DEFINE max(k) == IF k = "robots" THEN Smaller(MaxAllowed, Len(list["robot"])) ELSE 9999
           robots(n) == Larger(2, Smaller(MaxAllowed, Smaller(Len(list["robot"]), n)))
           full(n) == Smaller(9999, binomial(Len(list["robot"]), robots(n)))
<1>7. CASE \E k \in NumberKeywords : entries' = [entries EXCEPT ![k] = Defaults[k]]
  <2>1. PICK k \in NumberKeywords : entries' = [entries EXCEPT ![k] = Defaults[k]]
    BY <1>7
  <2>2. Defaults[k] \in EntryValues
    BY <1>2 DEF Defaults
  <2> QED
    BY <1>1, <2>1, <2>2, EntryStep
<1>8. CASE \E k \in NumberKeywords : entries' = [entries EXCEPT ![k] = {max(k)}]
  <2>1. \A k \in NumberKeywords : max(k) \in Int
    BY <1>6, <1>11 DEF Smaller
  <2> HIDE DEF max
  <2>2. PICK k \in NumberKeywords : entries' = [entries EXCEPT ![k] = {max(k)}]
    BY <1>8
  <2>3. PICK n : n = max(k)
    OBVIOUS
  <2>4. {n} \in EntryValues /\ entries' = [entries EXCEPT ![k] = {n}]
    BY <1>2, <2>1, <2>2, <2>3
  <2> QED
    BY <1>1, <2>4, EntryStep
<1>9. CASE \E n \in ReadEntry("robots") : entries' = [entries EXCEPT !["sequences"] = {full(n)}]
  <2>1. ReadEntry("robots") \subseteq Int
    BY <1>4, ReadEntryInt DEF WindowInv
  <2>2. ASSUME NEW n \in Int
        PROVE  full(n) \in Int
    <3>1. Smaller(Len(list["robot"]), n) \in Int
      BY <1>11 DEF Smaller
    <3>2. Smaller(MaxAllowed, Smaller(Len(list["robot"]), n)) \in Int
      BY <1>6, <3>1 DEF Smaller
    <3>3. robots(n) \in Int
      BY <1>6, <3>2 DEF Larger
    <3> HIDE DEF robots
    <3>4. binomial(Len(list["robot"]), robots(n)) \in Int
      BY <1>11, <3>3, BinomialType
    <3> QED
      BY <1>6, <3>4 DEF Smaller
  <2> HIDE DEF full
  <2>3. PICK n \in ReadEntry("robots") : entries' = [entries EXCEPT !["sequences"] = {full(n)}]
    BY <1>9
  <2>4. PICK m : m = full(n)
    OBVIOUS
  <2>5. {m} \in EntryValues /\ entries' = [entries EXCEPT !["sequences"] = {m}]
    BY <1>2, <2>1, <2>2, <2>3, <2>4
  <2> QED
    BY <1>1, <1>4, <2>5, EntryStep
<1>10. CASE entries' = [entries EXCEPT !["games"] =
                          {Larger(1, Smaller(MaxAllowed, Len(list["arena"])))}]
  <2>1. PICK m : m = Larger(1, Smaller(MaxAllowed, Len(list["arena"])))
    OBVIOUS
  <2>2. Smaller(MaxAllowed, Len(list["arena"])) \in Int
    BY <1>6, <1>11 DEF Smaller
  <2>3. m \in Int
    BY <1>5, <1>6, <2>1, <2>2
  <2>4. entries' = [entries EXCEPT !["games"] = {m}]
    BY <1>10, <2>1
  <2> QED
    BY <1>1, <1>2, <1>4, <2>3, <2>4, EntryStep
<1> QED
  BY <1>7, <1>8, <1>9, <1>10 DEF SetEntry

\* The window stays as it is when a file is written.
LEMMA SavedGood ==
    ASSUME WindowInv, NEW v \in Values
    PROVE  GoodFile(Saved(v))
<1>1. CASE Complete
  BY <1>1, ListsGood DEF Saved, GoodFile
<1>2. CASE ~ Complete
  BY <1>2 DEF Saved, GoodFile
<1> QED
  BY <1>1, <1>2

\* Save.
LEMMA SaveTournamentStep ==
    ASSUME WindowInv, SaveTournament
    PROVE  WindowInv'
<1>1. UNCHANGED <<list, clist, entries, running>>
  BY DEF SaveTournament, window
<1>2. PICK v \in Values : disk' = [disk EXCEPT !["user"] = Saved(v)]
  BY DEF SaveTournament
<1>3. PICK d : d = Saved(v)
  OBVIOUS
<1>4. GoodFile(d)
  BY <1>3, SavedGood
<1>5. /\ disk' = [f \in {"tmp.tour", "user"} |-> disk'[f]]
      /\ disk'["tmp.tour"] = disk["tmp.tour"] /\ disk'["user"] = d
  BY <1>2, <1>3 DEF WindowInv
<1>6. GoodFile(disk'["tmp.tour"]) /\ GoodFile(disk'["user"])
  BY <1>4, <1>5 DEF WindowInv
<1>7. \A t \in running' : Kept(t, disk'["tmp.tour"])
  BY <1>1, <1>5 DEF WindowInv
<1> QED
  BY <1>1, <1>5, <1>6, <1>7 DEF WindowInv

\* Start.
LEMMA StartStep ==
    ASSUME WindowInv, Start
    PROVE  WindowInv'
<1>1. UNCHANGED <<list, clist, entries>> /\ Complete
  BY DEF Start, window
<1>2. PICK v \in Values, w \in Values :
         /\ running' = {[robot_list |-> Files(list["robot"]),
                         arena_list |-> Files(list["arena"]),
                         games |-> v["games"], robots |-> v["robots"],
                         sequences |-> v["sequences"]]}
         /\ disk' = [disk EXCEPT !["tmp.tour"] = Saved(w)]
  BY DEF Start
<1>3. PICK robots, arenas, d : /\ robots = Files(list["robot"])
                               /\ arenas = Files(list["arena"])
                               /\ d = Saved(w)
  OBVIOUS
<1>4. GoodTour(robots, arenas, v)
  BY <1>1, <1>3, ListsGood
<1>5. running' = {Tour(robots, arenas, v)}
  BY <1>2, <1>3 DEF Tour
<1>6. GoodFile(d)
  BY <1>3, SavedGood
<1>7. /\ disk' = [f \in {"tmp.tour", "user"} |-> disk'[f]]
      /\ disk'["tmp.tour"] = d /\ disk'["user"] = disk["user"]
  BY <1>2, <1>3 DEF WindowInv
<1>8. FailedReadIsZero => d = Written(robots, arenas, v)
  <2>1. SUFFICES ASSUME FailedReadIsZero PROVE d = Written(robots, arenas, v)
    OBVIOUS
  <2>2. v = w
    BY <2>1, ValuesUnique
  <2> QED
    BY <1>1, <1>3, <2>2 DEF Saved
<1>9. \A t \in running' : Kept(t, disk'["tmp.tour"])
  BY <1>4, <1>5, <1>7, <1>8 DEF Kept
<1>10. GoodFile(disk'["tmp.tour"]) /\ GoodFile(disk'["user"])
  BY <1>6, <1>7 DEF WindowInv
<1> QED
  BY <1>1, <1>7, <1>9, <1>10 DEF WindowInv

\* Every callback keeps the invariant.
LEMMA WindowInvStep == WindowInv /\ [Next]_vars => WindowInv'
<1> SUFFICES ASSUME WindowInv, [Next]_vars PROVE WindowInv'
  OBVIOUS
<1>1. CASE PickFiles
  BY <1>1 DEF WindowInv, PickFiles
<1>2. CASE Finished
  BY <1>2 DEF WindowInv, Finished, window
<1>3. CASE UNCHANGED vars
  BY <1>3 DEF WindowInv, vars, window
<1> QED
  BY <1>1, <1>2, <1>3, LoadTournamentStep, ReopenStep, SelectRowStep, SelectAllStep,
     AddAllSelectedStep, RemoveAllSelectedStep, TypeEntryStep, SetEntryStep,
     SaveTournamentStep, StartStep DEF Next

\* So it always holds.
LEMMA WindowInvAlways == Spec => []WindowInv
BY WindowInvInit, WindowInvStep, PTL DEF Spec
-----------------------------------------------------------------------------
(***************************************************************************)
(* The theorems.                                                           *)
(***************************************************************************)

\* The list that the program keeps and the rows that GTK shows agree, whatever is
\* added, selected, removed and loaded.
THEOREM RowsMatchAlways == Spec => []RowsMatch
<1>1. WindowInv => RowsMatch
  <2> SUFFICES ASSUME WindowInv, NEW k \in Kinds
               PROVE  /\ Files(list[k]) = clist[k]
                      /\ \A i \in 1 .. Len(list[k]) : list[k][i].row = i - 1
    BY DEF RowsMatch
  <2>1. Matched(clist[k], list[k], Members(Dir(k)))
    BY MatchedNow
  <2> QED
    BY <2>1, FilesAreRows DEF Matched
<1> QED
  BY <1>1, WindowInvAlways, PTL

\* Whatever is typed, clicked and loaded, what Start begins can be played.
THEOREM StartsPlayableAlways == Spec => []StartsPlayable
<1>1. WindowInv => StartsPlayable
  <2> SUFFICES ASSUME WindowInv, NEW t \in running
               PROVE  /\ t.arena_list # <<>>
                      /\ t.robots \in 2 .. Len(t.robot_list)
                      /\ t.games >= 1
                      /\ t.sequences >= 1
    BY DEF StartsPlayable
  <2>1. PICK robots, arenas, number : /\ GoodTour(robots, arenas, number)
                                      /\ t = Tour(robots, arenas, number)
    BY DEF WindowInv, Kept
  <2> QED
    BY <2>1 DEF GoodTour, Playing, Tour
<1> QED
  BY <1>1, WindowInvAlways, PTL

\* The file of the last tournament, read back, is that tournament.  With a library
\* that leaves the number alone when a conversion fails, start reads the entries
\* twice and may read two different numbers: hence the hypothesis.
THEOREM LastTournamentKeptAlways ==
    ASSUME FailedReadIsZero
    PROVE  Spec => []LastTournamentKept
<1>1. WindowInv => LastTournamentKept
  <2> SUFFICES ASSUME WindowInv, NEW t \in running
               PROVE  Parse(disk["tmp.tour"]) = [how |-> "started", tournament |-> t]
    BY DEF LastTournamentKept
  <2>1. PICK robots, arenas, number :
           /\ GoodTour(robots, arenas, number)
           /\ t = Tour(robots, arenas, number)
           /\ disk["tmp.tour"] = Written(robots, arenas, number)
    BY DEF WindowInv, Kept
  <2> QED
    BY <2>1, ParseWritten DEF GoodTour
<1> QED
  BY <1>1, WindowInvAlways, PTL
=============================================================================
