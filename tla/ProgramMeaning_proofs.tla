----------------------- MODULE ProgramMeaning_proofs ------------------------
(***************************************************************************)
(* What a program means and that RunCodeFile executes it: ProgramOrder,    *)
(* DivideMovesN and CompletesWholeProgram, for every program with proper   *)
(* loops.  The meaning is a recursion over the lines; its equations are    *)
(* proved first, then what each line does to the place in it, then that    *)
(* every step of a call keeps the place (one lemma for each action).  At   *)
(* the end NothingSkipped, across stops and resumes.                       *)
(***************************************************************************)
EXTENDS ProgramControl_proofs, SequenceTheorems, WellFoundedInduction

----------------------------------------------------------------------------
(* Recursion over the lines of a program.                                   *)

\* A set of natural numbers that is not empty has a least element.
LEMMA NatMin ==
  ASSUME NEW T \in SUBSET Nat, T # {}
  PROVE  \E n \in T : \A m \in T : n <= m
<1> DEFINE R == {ss \in Nat \X Nat : ss[1] < ss[2]}
<1>1. IsWellFoundedOn(R, Nat)
  BY NatLessThanWellFounded DEF OpToRel
<1>2. PICK x \in T : \A y \in T : ~ (<<y, x>> \in R)
  <2> HIDE DEF R
  <2> QED BY <1>1, WFMin
<1>3. ASSUME NEW y \in T PROVE x <= y
  <2>1. x \in Nat /\ y \in Nat
    OBVIOUS
  <2>2. <<y, x>> \in Nat \X Nat /\ <<y, x>>[1] = y /\ <<y, x>>[2] = x
    BY <2>1
  <2>3. ~ (<<y, x>>[1] < <<y, x>>[2])
    BY <1>2, <2>2
  <2> QED
    BY <2>1, <2>2, <2>3
<1> QED
  BY <1>3

\* Hence a set that holds 0, and with a number the next one, is Nat.
LEMMA SetInduction ==
  ASSUME NEW S \in SUBSET Nat, 0 \in S, \A n \in S : n + 1 \in S
  PROVE  S = Nat
<1> SUFFICES ASSUME S # Nat PROVE FALSE
  OBVIOUS
<1> DEFINE T == Nat \ S
<1>1. PICK n \in T : \A m \in T : n <= m
  BY NatMin
<1>2. n # 0 /\ n - 1 \in S
  BY <1>1
<1> QED
  BY <1>1, <1>2

\* f collects what a says of an index and of those after it; each is followed
\* by a later one, those in T by none.
GoesOn(N, T, a, nx) ==
  \A i \in 1 .. N : a[i] \in Seq(Int) /\ (i \notin T => nx[i] \in i + 1 .. N)
Collects(N, T, a, nx, f) ==
  \A i \in 1 .. N : f[i] = IF i \in T THEN a[i] ELSE a[i] \o f[nx[i]]

\* A recursion from a line to later ones, as that of Within and From, defines
\* a function: by induction on the number of lines from the end.
LEMMA RecursionExists ==
  ASSUME NEW N \in Nat, NEW T, NEW a, NEW nx, GoesOn(N, T, a, nx)
  PROVE  \E f \in [1 .. N -> Seq(Int)] : Collects(N, T, a, nx, f)
<1>0. \A i \in 1 .. N : a[i] \in Seq(Int) /\ (i \notin T => nx[i] \in i + 1 .. N)
  BY DEF GoesOn
<1> DEFINE Good(m) ==
      \E f \in [N - m + 1 .. N -> Seq(Int)] : \A i \in N - m + 1 .. N :
        f[i] = IF i \in T THEN a[i] ELSE a[i] \o f[nx[i]]
           S == {m \in Nat : m <= N => Good(m)}
<1>1. 0 \in S
  <2>1. N - 0 + 1 .. N = {}
    OBVIOUS
  <2>2. [i \in N - 0 + 1 .. N |-> << >>] \in [N - 0 + 1 .. N -> Seq(Int)]
    BY <2>1
  <2> QED
    BY <2>1, <2>2
<1>2. ASSUME NEW m \in S PROVE m + 1 \in S
  <2> SUFFICES ASSUME m + 1 <= N PROVE Good(m + 1)
    <3> HIDE DEF Good
    <3> QED OBVIOUS
  <2>1. m \in Nat /\ N - (m + 1) + 1 = N - m /\ N - m \in 1 .. N
    OBVIOUS
  <2>2. PICK f \in [N - m + 1 .. N -> Seq(Int)] : \A i \in N - m + 1 .. N :
          f[i] = IF i \in T THEN a[i] ELSE a[i] \o f[nx[i]]
    BY <2>1
  <2> DEFINE v == IF N - m \in T THEN a[N - m] ELSE a[N - m] \o f[nx[N - m]]
             g == [i \in N - m .. N |-> IF i = N - m THEN v ELSE f[i]]
  <2>3. v \in Seq(Int)
    <3>1. CASE N - m \in T
      BY <1>0, <2>1, <3>1
    <3>2. CASE N - m \notin T
      <4>1. nx[N - m] \in N - m + 1 .. N
        BY <1>0, <2>1, <3>2
      <4>2. f[nx[N - m]] \in Seq(Int) /\ a[N - m] \in Seq(Int)
        BY <1>0, <2>1, <2>2, <4>1
      <4> QED
        BY <3>2, <4>2, ConcatProperties
    <3> QED
      BY <3>1, <3>2
  <2>4. \A i \in N - m .. N : g[i] = IF i = N - m THEN v ELSE f[i]
    OBVIOUS
  <2>5. g \in [N - m .. N -> Seq(Int)]
    <3> HIDE DEF v
    <3> QED
      BY <2>1, <2>2, <2>3
  <2> HIDE DEF g
  <2>6. ASSUME NEW i \in N - m .. N
        PROVE  g[i] = IF i \in T THEN a[i] ELSE a[i] \o g[nx[i]]
    <3>1. i \in 1 .. N
      BY <2>1
    <3>2. i \notin T => nx[i] \in N - m .. N /\ nx[i] # N - m
      BY <1>0, <2>1, <3>1
    <3>3. i \notin T => g[nx[i]] = f[nx[i]]
      BY <2>4, <3>2
    <3>4. CASE i = N - m
      BY <2>4, <3>3, <3>4
    <3>5. CASE i # N - m
      <4>1. i \in N - m + 1 .. N
        BY <2>1, <3>5
      <4> QED
        BY <2>2, <2>4, <3>3, <3>5, <4>1
    <3> QED
      BY <3>4, <3>5
  <2> QED
    BY <2>1, <2>5, <2>6
<1>3. S = Nat
  <2> HIDE DEF S
  <2>1. S \in SUBSET Nat
    BY DEF S
  <2> QED
    BY <1>1, <1>2, <2>1, SetInduction
<1>4. Good(N)
  <2>1. N \in S
    BY <1>3
  <2> HIDE DEF Good
  <2> QED
    BY <2>1
<1>5. N - N + 1 = 1
  OBVIOUS
<1>6. PICK f \in [1 .. N -> Seq(Int)] : \A i \in 1 .. N :
        f[i] = IF i \in T THEN a[i] ELSE a[i] \o f[nx[i]]
  BY <1>4, <1>5
<1> QED
  BY <1>6 DEF Collects

\* ... whose values are sequences of lines.
LEMMA RecursionTyped ==
  ASSUME NEW N \in Nat, NEW T, NEW a, NEW nx, NEW f,
         GoesOn(N, T, a, nx), Collects(N, T, a, nx, f)
  PROVE  \A i \in 1 .. N : f[i] \in Seq(Int)
<1> DEFINE Good(m) == \A i \in N - m + 1 .. N : f[i] \in Seq(Int)
           S == {m \in Nat : m <= N => Good(m)}
<1>1. 0 \in S
  OBVIOUS
<1>2. ASSUME NEW m \in S PROVE m + 1 \in S
  <2> SUFFICES ASSUME m + 1 <= N PROVE Good(m + 1)
    <3> HIDE DEF Good
    <3> QED OBVIOUS
  <2>1. m \in Nat /\ N - (m + 1) + 1 = N - m /\ N - m \in 1 .. N
    OBVIOUS
  <2>2. \A i \in N - m + 1 .. N : f[i] \in Seq(Int)
    BY <2>1
  <2>3. f[N - m] \in Seq(Int)
    <3>1. /\ a[N - m] \in Seq(Int)
          /\ N - m \notin T => f[nx[N - m]] \in Seq(Int)
      BY <2>1, <2>2 DEF GoesOn
    <3>2. f[N - m] = IF N - m \in T THEN a[N - m]
                                    ELSE a[N - m] \o f[nx[N - m]]
      BY <2>1 DEF Collects
    <3> QED
      BY <3>1, <3>2, ConcatProperties
  <2>4. \A i \in N - m .. N : i = N - m \/ i \in N - m + 1 .. N
    BY <2>1
  <2> QED
    BY <2>1, <2>2, <2>3, <2>4
<1>3. S = Nat
  <2> HIDE DEF S
  <2>1. S \in SUBSET Nat
    BY DEF S
  <2> QED
    BY <1>1, <1>2, <2>1, SetInduction
<1>4. Good(N)
  <2>1. N \in S
    BY <1>3
  <2> HIDE DEF Good
  <2> QED
    BY <2>1
<1> QED
  BY <1>4

----------------------------------------------------------------------------
(* The equations of Within, Times and From.                                 *)

\* A line records itself or nothing.
LEMMA MarkTyped ==
  ASSUME NEW p, NEW i \in Int
  PROVE  Mark(p, i) \in Seq(Int)
BY DEF Mark

\* The recursion equation of Within, for every program.
LEMMA WithinIs ==
  ASSUME NEW p \in Seq(Command)
  PROVE  /\ \A i \in 1 .. Len(p) + 1 : Within(p)[i] \in Seq(Int)
         /\ \A i \in 1 .. Len(p) : Within(p)[i] =
              IF p[i].op = "endloop" THEN Mark(p, i)
                                     ELSE Mark(p, i) \o Within(p)[i + 1]
<1> DEFINE N == Len(p) + 1
           T == {N} \cup {i \in 1 .. Len(p) : p[i].op = "endloop"}
           a == [i \in 1 .. N |-> IF i = N THEN << >> ELSE Mark(p, i)]
           nx == [i \in 1 .. N |-> i + 1]
           Is(w) == w = [i \in 1 .. Len(p) + 1 |->
                          IF i > Len(p) THEN << >>
                          ELSE IF p[i].op = "endloop" THEN Mark(p, i)
                          ELSE Mark(p, i) \o w[i + 1]]
<1>1. Len(p) \in Nat /\ N \in Nat
  OBVIOUS
<1>2. \A i \in 1 .. N : a[i] \in Seq(Int)
  BY MarkTyped
<1>3. \A i \in 1 .. N : i \notin T => nx[i] \in i + 1 .. N
  BY <1>1
<1>4. \A i \in 1 .. N : i \in T <=> i > Len(p) \/ p[i].op = "endloop"
  BY <1>1
<1>5. PICK f \in [1 .. N -> Seq(Int)] : Collects(N, T, a, nx, f)
  <2>1. GoesOn(N, T, a, nx)
    <3> HIDE DEF N, T, a, nx
    <3> QED
      BY <1>2, <1>3 DEF GoesOn
  <2> HIDE DEF N, T, a, nx
  <2> QED
    BY <1>1, <2>1, RecursionExists
<1>6. \A i \in 1 .. N : f[i] = IF i > Len(p) THEN << >>
                               ELSE IF p[i].op = "endloop" THEN Mark(p, i)
                               ELSE Mark(p, i) \o f[i + 1]
  <2> SUFFICES ASSUME NEW i \in 1 .. N
               PROVE  f[i] = IF i > Len(p) THEN << >>
                             ELSE IF p[i].op = "endloop" THEN Mark(p, i)
                             ELSE Mark(p, i) \o f[i + 1]
    OBVIOUS
  <2>1. f[i] = IF i \in T THEN a[i] ELSE a[i] \o f[nx[i]]
    <3> HIDE DEF T, a, nx
    <3> QED
      BY <1>5 DEF Collects
  <2>2. a[i] = IF i > Len(p) THEN << >> ELSE Mark(p, i)
    BY <1>1
  <2>3. nx[i] = i + 1
    OBVIOUS
  <2> HIDE DEF T, a, nx
  <2> QED
    BY <1>4, <2>1, <2>2, <2>3
<1>7. Is(f)
  BY <1>5, <1>6
<1>8. Is(Within(p))
  BY <1>7 DEF Within
<1>9. \A i \in 1 .. N : Within(p)[i] =
        IF i > Len(p) THEN << >>
        ELSE IF p[i].op = "endloop" THEN Mark(p, i)
        ELSE Mark(p, i) \o Within(p)[i + 1]
  BY <1>8
<1>10. \A i \in 1 .. N : Within(p)[i] =
         IF i \in T THEN a[i] ELSE a[i] \o Within(p)[nx[i]]
  <2> SUFFICES ASSUME NEW i \in 1 .. N
               PROVE  Within(p)[i] =
                        IF i \in T THEN a[i] ELSE a[i] \o Within(p)[nx[i]]
    OBVIOUS
  <2>1. a[i] = IF i > Len(p) THEN << >> ELSE Mark(p, i)
    BY <1>1
  <2>2. nx[i] = i + 1
    OBVIOUS
  <2> HIDE DEF T, a, nx
  <2> QED
    BY <1>4, <1>9, <2>1, <2>2
<1>11. \A i \in 1 .. N : Within(p)[i] \in Seq(Int)
  <2> HIDE DEF N, T, a, nx
  <2>1. GoesOn(N, T, a, nx)
    BY <1>2, <1>3 DEF GoesOn
  <2>2. Collects(N, T, a, nx, Within(p))
    BY <1>10 DEF Collects
  <2> QED
    BY <1>1, <2>1, <2>2, RecursionTyped
<1> QED
  BY <1>1, <1>9, <1>11

\* The G10 of an R: the first one behind it, with lines between them that
\* neither branch nor count, one of which moves.
LEMMA CloseIs ==
  ASSUME NEW p \in Seq(Command), Structured(p),
         NEW b \in 1 .. Len(p), p[b].op = "loop"
  PROVE  /\ Close(p, b) \in b + 1 .. Len(p)
         /\ p[Close(p, b)].op = "endloop"
         /\ \A k \in b + 1 .. Close(p, b) - 1 :
              p[k].op \notin Flow /\ p[k].op # "divide" /\ p[k].child # "divide"
         /\ \E k \in b + 1 .. Close(p, b) - 1 : Marked(p[k])
<1> DEFINE First(j) == /\ p[j].op = "endloop"
                       /\ \A k \in b .. j - 1 : p[k].op # "endloop"
           e == CHOOSE j \in b .. Len(p) : First(j)
<1>1. PICK j \in b + 1 .. Len(p) :
        /\ p[j].op = "endloop"
        /\ \A k \in b + 1 .. j - 1 :
             p[k].op \notin Flow /\ "divide" \notin {p[k].op, p[k].child}
        /\ \E k \in b + 1 .. j - 1 : Marked(p[k])
  <2>1. b \in DOMAIN p
    OBVIOUS
  <2> QED
    BY <2>1 DEF Structured
<1>2. \A k \in b .. j - 1 : k = b \/ k \in b + 1 .. j - 1
  OBVIOUS
<1>3. First(j)
  BY <1>1, <1>2 DEF Flow
<1>4. e \in b .. Len(p) /\ First(e)
  <2> HIDE DEF First
  <2> QED
    BY <1>1, <1>3
<1> HIDE DEF e
<1>5. e = j
  <2>1. CASE e < j
    BY <1>3, <1>4, <2>1
  <2>2. CASE j < e
    BY <1>1, <1>4, <2>2
  <2> QED
    BY <1>1, <1>4, <2>1, <2>2
<1>6. Close(p, b) = j
  BY <1>5 DEF Close, e
<1> QED
  BY <1>1, <1>6

\* Position k of a repeated sequence and position k of one repetition less.
LEMMA ModShift ==
  ASSUME NEW n \in Nat \ {0}, NEW k \in Nat
  PROVE  (k + n) % n = k % n
<1> DEFINE a == k \div n
           b == (k + n) \div n
           r == k % n
           q == (k + n) % n
<1>1. a \in Int /\ b \in Int /\ r \in 0 .. n - 1 /\ q \in 0 .. n - 1
  OBVIOUS
<1>2. k = n * a + r
  OBVIOUS
<1>3. k + n = n * b + q
  OBVIOUS
<1>4. \A d \in Nat : d >= 1 => n * d >= n
  OBVIOUS
<1> HIDE DEF a, b, r, q
<1>5. n * (b - a - 1) = r - q
  <2>1. n * b - n * a - n = r - q
    BY <1>1, <1>2, <1>3
  <2>2. n * (b - a - 1) = n * b - n * a - n
    BY <1>1
  <2> QED
    BY <2>1, <2>2
<1>6. CASE b - a - 1 = 0
  <2>1. r = q
    BY <1>1, <1>5, <1>6
  <2> QED
    BY <2>1 DEF r, q
<1>7. CASE b - a - 1 >= 1
  BY <1>1, <1>4, <1>5, <1>7
<1>8. CASE b - a - 1 <= -1
  <2>1. n * (a + 1 - b) = - (n * (b - a - 1))
    BY <1>1
  <2> QED
    BY <1>1, <1>4, <1>5, <1>8, <2>1
<1> QED
  BY <1>1, <1>6, <1>7, <1>8

\* To repeat n + 1 times is once and then n times.
LEMMA TimesIs ==
  ASSUME NEW s \in Seq(Int), NEW n \in Nat
  PROVE  /\ Times(n, s) \in Seq(Int)
         /\ n = 0 => Times(n, s) = << >>
         /\ n > 0 => Times(n, s) = s \o Times(n - 1, s)
<1> DEFINE m == Len(s)
<1>1. m \in Nat /\ n * m \in Nat
  OBVIOUS
<1>2. ASSUME NEW k \in 1 .. n * m
      PROVE  m # 0 /\ (k - 1) % m \in 0 .. m - 1
  <2>1. m # 0
    <3>1. n * 0 = 0
      OBVIOUS
    <3> QED
      BY <1>1, <1>2, <3>1
  <2>2. m \in Nat \ {0} /\ k - 1 \in Nat
    BY <1>1, <2>1
  <2> HIDE DEF m
  <2> QED
    BY <2>2
<1>3. \A k \in 1 .. n * m : s[((k - 1) % m) + 1] \in Int
  BY <1>2
<1>4. Times(n, s) \in Seq(Int) /\ Len(Times(n, s)) = n * m
      /\ \A k \in 1 .. n * m : Times(n, s)[k] = s[((k - 1) % m) + 1]
  BY <1>1, <1>3 DEF Times
<1>5. CASE n = 0
  <2>1. n * m = 0
    BY <1>1, <1>5
  <2> QED
    BY <1>4, <1>5, <2>1
<1>6. CASE n > 0
  <2> DEFINE t == Times(n - 1, s)
  <2>1. n - 1 \in Nat /\ n * m = m + (n - 1) * m /\ (n - 1) * m \in Nat
    <3>1. n - 1 \in Nat
      BY <1>6
    <3>2. \A l \in Nat : (l + 1) * m = m + l * m /\ l * m \in Nat
      BY <1>1
    <3> QED
      BY <3>1, <3>2
  <2>2. /\ t \in Seq(Int) /\ Len(t) = (n - 1) * m
        /\ \A k \in 1 .. (n - 1) * m : t[k] = s[((k - 1) % m) + 1]
    <3>1. \A k \in 1 .. (n - 1) * m : k \in 1 .. n * m
      BY <1>1, <2>1
    <3>2. \A k \in 1 .. (n - 1) * m : s[((k - 1) % m) + 1] \in Int
      BY <1>3, <3>1
    <3> QED
      BY <1>1, <2>1, <3>2 DEF Times
  <2> HIDE DEF t
  <2> DEFINE w == n * m
  <2>3. /\ s \o t \in Seq(Int) /\ Len(s \o t) = w
        /\ \A k \in 1 .. w :
             (s \o t)[k] = IF k <= m THEN s[k] ELSE t[k - m]
    <3>1. w = Len(s) + Len(t)
      BY <2>1, <2>2
    <3> HIDE DEF w
    <3> QED
      BY <2>2, <3>1, ConcatProperties
  <2>4. ASSUME NEW k \in 1 .. w
        PROVE  Times(n, s)[k] = (s \o t)[k]
    <3>1. m \in Nat \ {0} /\ k - 1 \in Nat /\ k \in Nat /\ w \in Nat
      BY <1>1, <1>2
    <3>2. Times(n, s)[k] = s[((k - 1) % m) + 1]
      BY <1>4
    <3>3. (s \o t)[k] = IF k <= m THEN s[k] ELSE t[k - m]
      <4> HIDE DEF w, m
      <4> QED
        BY <2>3
    <3>4. CASE k <= m
      <4>1. (k - 1) % m = k - 1
        <5> HIDE DEF m
        <5> QED
          BY <3>1, <3>4
      <4>2. Times(n, s)[k] = s[k - 1 + 1] /\ k - 1 + 1 = k
        BY <3>1, <3>2, <4>1
      <4>3. (s \o t)[k] = s[k]
        <5> HIDE DEF w, m
        <5> QED
          BY <3>3, <3>4
      <4> QED
        BY <4>2, <4>3
    <3>5. CASE k > m
      <4>1. k - m \in 1 .. (n - 1) * m /\ k - m - 1 \in Nat
        <5> DEFINE v == (n - 1) * m
        <5>1. v \in Nat /\ w = m + v
          BY <2>1
        <5> HIDE DEF v, w, m
        <5>2. k - m \in 1 .. v /\ k - m - 1 \in Nat
          BY <3>1, <3>5, <5>1
        <5> QED
          BY <5>2 DEF v
      <4>2. (k - 1) % m = (k - m - 1) % m
        <5>1. (k - m - 1) + m = k - 1
          BY <1>1, <3>1
        <5> HIDE DEF m
        <5> QED
          BY <3>1, <4>1, <5>1, ModShift
      <4>3. t[k - m] = s[((k - m - 1) % m) + 1]
        BY <2>2, <4>1
      <4>4. (s \o t)[k] = t[k - m]
        BY <3>1, <3>3, <3>5
      <4> QED
        BY <3>2, <4>2, <4>3, <4>4
    <3>6. k <= m \/ k > m
      BY <3>1
    <3> QED
      BY ONLY <3>4, <3>5, <3>6
  <2>5. Times(n, s) = s \o t
    <3> HIDE DEF m
    <3> QED
      BY <1>4, <2>3, <2>4, SeqEqual
  <2> QED
    BY <1>4, <1>6, <2>5 DEF t
<1> QED
  BY <1>1, <1>5, <1>6

\* A line of a program.
LEMMA LineIs ==
  ASSUME NEW p \in Seq(Command), NEW i \in 1 .. Len(p)
  PROVE  /\ p[i] \in Command /\ p[i].op \in Ops /\ p[i].n \in Nat
         /\ i + 1 \in 1 .. Len(p) + 1 /\ i \in DOMAIN p
<1>1. p[i] \in Command
  OBVIOUS
<1> QED
  BY <1>1 DEF Command

\* The recursion equation of From, for every program with proper loops.
LEMMA FromIs ==
  ASSUME NEW p \in Seq(Command), Structured(p)
  PROVE  /\ \A i \in 1 .. Len(p) + 1 : From(p)[i] \in Seq(Int)
         /\ From(p)[Len(p) + 1] = << >>
         /\ \A i \in 1 .. Len(p) :
              /\ p[i].op \in {"end", "restart"} => From(p)[i] = << >>
              /\ p[i].op = "loop" =>
                   From(p)[i] = Times(p[i].n, Within(p)[i + 1])
                                  \o From(p)[Close(p, i) + 1]
              /\ p[i].op \notin {"end", "restart", "loop"} =>
                   From(p)[i] = Mark(p, i) \o From(p)[i + 1]
<1> DEFINE N == Len(p) + 1
           Ends(i) == i > Len(p) \/ p[i].op \in {"end", "restart"}
           Body(i) == Times(p[i].n, Within(p)[i + 1])
           T == {i \in 1 .. N : Ends(i)}
           a == [i \in 1 .. N |-> IF Ends(i) THEN << >>
                                  ELSE IF p[i].op = "loop" THEN Body(i)
                                  ELSE Mark(p, i)]
           nx == [i \in 1 .. N |-> IF p[i].op = "loop" THEN Close(p, i) + 1
                                                       ELSE i + 1]
           Is(w) == w = [i \in 1 .. Len(p) + 1 |->
                          IF i > Len(p) \/ p[i].op \in {"end", "restart"}
                          THEN << >>
                          ELSE IF p[i].op = "loop"
                          THEN Times(p[i].n, Within(p)[i + 1])
                                 \o w[Close(p, i) + 1]
                          ELSE Mark(p, i) \o w[i + 1]]
<1>1. Len(p) \in Nat /\ N \in Nat
  OBVIOUS
<1>2. \A i \in 1 .. Len(p) : p[i].op = "loop" => Body(i) \in Seq(Int)
  <2> SUFFICES ASSUME NEW i \in 1 .. Len(p)
               PROVE  Times(p[i].n, Within(p)[i + 1]) \in Seq(Int)
    OBVIOUS
  <2>1. Within(p)[i + 1] \in Seq(Int) /\ p[i].n \in Nat
    BY LineIs, WithinIs
  <2> QED
    BY <2>1, TimesIs
<1>3. \A i \in 1 .. N : a[i] = IF Ends(i) THEN << >>
                               ELSE IF p[i].op = "loop" THEN Body(i)
                               ELSE Mark(p, i)
  OBVIOUS
<1>4. \A i \in 1 .. N : nx[i] = IF p[i].op = "loop" THEN Close(p, i) + 1
                                                    ELSE i + 1
  OBVIOUS
<1>5. \A i \in 1 .. N : (i \in T <=> Ends(i)) /\ (~ Ends(i) => i \in 1 .. Len(p))
  BY <1>1
<1>6. GoesOn(N, T, a, nx)
  <2> SUFFICES ASSUME NEW i \in 1 .. N
               PROVE  a[i] \in Seq(Int) /\ (i \notin T => nx[i] \in i + 1 .. N)
    BY DEF GoesOn
  <2>1. a[i] \in Seq(Int)
    <3>1. Mark(p, i) \in Seq(Int) /\ << >> \in Seq(Int)
      BY <1>1, MarkTyped, EmptySeq
    <3>2. ~ Ends(i) /\ p[i].op = "loop" => Body(i) \in Seq(Int)
      BY <1>2, <1>5
    <3>3. a[i] = IF Ends(i) THEN << >>
                 ELSE IF p[i].op = "loop" THEN Body(i) ELSE Mark(p, i)
      BY <1>3
    <3> HIDE DEF a, Ends, Body
    <3> QED
      BY <3>1, <3>2, <3>3
  <2>2. i \notin T => nx[i] \in i + 1 .. N
    <3>1. i \in 1 .. Len(p) /\ p[i].op = "loop" =>
            Close(p, i) \in i + 1 .. Len(p)
      BY CloseIs
    <3> HIDE DEF nx, T, Ends
    <3> QED
      BY <1>1, <1>4, <1>5, <3>1
  <2> QED
    BY <2>1, <2>2
<1>7. PICK f \in [1 .. N -> Seq(Int)] : Collects(N, T, a, nx, f)
  <2> HIDE DEF N, T, a, nx
  <2> QED
    BY <1>1, <1>6, RecursionExists
<1>8. Is(f)
  <2>1. ASSUME NEW i \in 1 .. N
        PROVE  f[i] = IF Ends(i) THEN << >>
                      ELSE IF p[i].op = "loop"
                      THEN Body(i) \o f[Close(p, i) + 1]
                      ELSE Mark(p, i) \o f[i + 1]
    <3>1. f[i] = IF i \in T THEN a[i] ELSE a[i] \o f[nx[i]]
      BY <1>7 DEF Collects
    <3> HIDE DEF T, a, nx, Ends, Body
    <3> QED
      BY <1>3, <1>4, <1>5, <3>1
  <2> QED
    BY <1>7, <2>1
<1>9. Is(From(p))
  BY <1>8 DEF From
<1>10. \A i \in 1 .. N : From(p)[i] =
         IF Ends(i) THEN << >>
         ELSE IF p[i].op = "loop" THEN Body(i) \o From(p)[Close(p, i) + 1]
         ELSE Mark(p, i) \o From(p)[i + 1]
  BY <1>9
<1>11. Collects(N, T, a, nx, From(p))
  <2> SUFFICES ASSUME NEW i \in 1 .. N
               PROVE  From(p)[i] = IF i \in T THEN a[i]
                                   ELSE a[i] \o From(p)[nx[i]]
    BY DEF Collects
  <2> HIDE DEF T, a, nx, Ends, Body
  <2> QED
    BY <1>3, <1>4, <1>5, <1>10
<1>12. \A i \in 1 .. N : From(p)[i] \in Seq(Int)
  <2> HIDE DEF N, T, a, nx
  <2> QED
    BY <1>1, <1>6, <1>11, RecursionTyped
<1>13. From(p)[Len(p) + 1] = << >>
  BY <1>1, <1>10
<1>14. ASSUME NEW i \in 1 .. Len(p)
       PROVE  From(p)[i] =
                IF p[i].op \in {"end", "restart"} THEN << >>
                ELSE IF p[i].op = "loop" THEN Body(i) \o From(p)[Close(p, i) + 1]
                ELSE Mark(p, i) \o From(p)[i + 1]
  BY <1>1, <1>10
<1> QED
  BY <1>12, <1>13, <1>14

----------------------------------------------------------------------------
(* Where in the meaning of its program a call is.  t is its trace, k what   *)
(* is left of the loop begun at line a (LoopCount and WhereLoopStarted),    *)
(* and i the line, counted from 1.                                          *)

Whole(p) == From(p)[1]

\* What follows line i of the loop whose R is line b.
Rest(p, k, b, i) ==
  Within(p)[i] \o (Times(k, Within(p)[b + 1]) \o From(p)[Close(p, b) + 1])

LastBefore(t, l) == t # << >> => t[Len(t)] < l

\* Of a loop whose R comes again, whatever is left of it.
Outside(p, t, k, i) ==
  /\ i \in 1 .. Len(p) + 1
  /\ k = 0 \/ (i <= Len(p) /\ p[i].op = "loop")
  /\ LastBefore(t, i - 1)
  /\ t \o From(p)[i] = Whole(p)

\* Back from G10, no line up to i has been recorded behind it.
Inside(p, t, k, b, i) ==
  /\ k \in Nat
  /\ b \in 1 .. Len(p) /\ p[b].op = "loop" /\ i \in b + 1 .. Close(p, b)
  /\ \/ LastBefore(t, i - 1)
     \/ /\ t # << >> /\ t[Len(t)] = Close(p, b) - 1
        /\ \A j \in b + 1 .. i - 1 : ~ Marked(p[j])
  /\ t \o Rest(p, k, b, i) = Whole(p)

Todo(p, t, k, a, i) ==
  \/ Outside(p, t, k, i)
  \/ Inside(p, t, k, a + 1, i)
  \/ i = 0 /\ t = Whole(p)

\* Line i is recorded and not yet left.
Recorded(p, t, k, a, i) ==
  /\ i \in 1 .. Len(p)
  /\ \E s \in Seq(Int) : Todo(p, s, k, a, i) /\ t = s \o Mark(p, i)

WellFormed(p) == p \in Seq(Command) /\ Structured(p)

\* Sequences of lines can be joined in any order of steps, ...
LEMMA Joins ==
  ASSUME NEW s \in Seq(Int), NEW t \in Seq(Int), NEW u \in Seq(Int)
  PROVE  (s \o t) \o u = s \o (t \o u)
  BY ConcatAssociative

\* ... the empty one changes nothing, ...
LEMMA Cat ==
  ASSUME NEW s \in Seq(Int)
  PROVE  /\ \A t \in Seq(Int) : s \o t \in Seq(Int)
         /\ s \o << >> = s /\ << >> \o s = s
  BY ConcatProperties, ConcatEmptySeq

\* ... and the first of two is a prefix of both together.
LEMMA PrefixIs ==
  ASSUME NEW s \in Seq(Int), NEW u \in Seq(Int)
  PROVE  Prefix(s, s \o u)
<1>1. /\ Len(s) \in Nat /\ Len(u) \in Nat /\ DOMAIN s = 1 .. Len(s)
      /\ Len(s \o u) = Len(s) + Len(u)
  BY ConcatProperties
<1>2. \A i \in 1 .. Len(s) : (s \o u)[i] = s[i]
  BY <1>1, ConcatProperties
<1> QED
  BY <1>1, <1>2 DEF Prefix

\* What a line records comes last in the trace.
LEMMA MarkLast ==
  ASSUME NEW p, NEW i \in Int, NEW s \in Seq(Int)
  PROVE  LET t == s \o Mark(p, i)
         IN  /\ t \in Seq(Int)
             /\ Marked(p[i]) => t # << >> /\ t[Len(t)] = i - 1
             /\ ~ Marked(p[i]) => t = s
             /\ LastBefore(s, i - 1) => LastBefore(t, i)
<1> DEFINE t == s \o Mark(p, i)
<1>1. t \in Seq(Int)
  BY MarkTyped, Cat
<1>2. CASE Marked(p[i])
  <2>1. t = s \o <<i - 1>>
    BY <1>2 DEF Mark
  <2>2. t # << >> /\ t[Len(t)] = i - 1
    <3>1. <<i - 1>> \in Seq(Int) /\ Len(<<i - 1>>) = 1 /\ <<i - 1>>[1] = i - 1
      OBVIOUS
    <3>2. Len(t) = Len(s) + 1 /\ t[Len(s) + 1] = i - 1 /\ Len(s) \in Nat
      BY <2>1, <3>1, ConcatProperties
    <3> QED
      BY <3>2
  <2> QED
    BY <1>1, <1>2, <2>2 DEF LastBefore
<1>3. CASE ~ Marked(p[i])
  <2>1. t = s
    BY <1>3, Cat DEF Mark
  <2>2. LastBefore(s, i - 1) => LastBefore(s, i)
    BY DEF LastBefore
  <2> QED
    BY <1>1, <1>3, <2>1, <2>2
<1> QED
  BY <1>2, <1>3

\* A line that was not the last one to be recorded is recorded.
LEMMA AppendsMark ==
  ASSUME NEW p, NEW i \in Int, NEW s \in Seq(Int), Marked(p[i]),
         s # << >> => s[Len(s)] # i - 1
  PROVE  Append1(s, i - 1) = s \o Mark(p, i)
<1>1. Append1(s, i - 1) = Append(s, i - 1)
  BY DEF Append1
<1>2. Mark(p, i) = <<i - 1>>
  BY DEF Mark
<1>3. i - 1 \in Int
  OBVIOUS
<1>4. Append(s, i - 1) = s \o <<i - 1>>
  BY <1>3, AppendIsConcat
<1> QED
  BY <1>1, <1>2, <1>4

\* What follows a line of a loop is a sequence of lines.
LEMMA RestTyped ==
  ASSUME NEW p, WellFormed(p), NEW k \in Nat,
         NEW b \in 1 .. Len(p), p[b].op = "loop", NEW i \in b + 1 .. Close(p, b)
  PROVE  /\ i \in 1 .. Len(p) /\ b + 1 \in 1 .. Len(p)
         /\ Close(p, b) + 1 \in 1 .. Len(p) + 1
         /\ Within(p)[i] \in Seq(Int)
         /\ Times(k, Within(p)[b + 1]) \in Seq(Int)
         /\ From(p)[Close(p, b) + 1] \in Seq(Int)
         /\ Times(k, Within(p)[b + 1]) \o From(p)[Close(p, b) + 1] \in Seq(Int)
         /\ Rest(p, k, b, i) \in Seq(Int)
<1>1. Close(p, b) \in b + 1 .. Len(p) /\ Len(p) \in Nat
  BY CloseIs DEF WellFormed
<1>2. /\ i \in 1 .. Len(p) /\ b + 1 \in 1 .. Len(p)
      /\ i \in 1 .. Len(p) + 1 /\ b + 1 \in 1 .. Len(p) + 1
      /\ Close(p, b) + 1 \in 1 .. Len(p) + 1
  BY <1>1
<1>3. /\ Within(p)[i] \in Seq(Int) /\ Within(p)[b + 1] \in Seq(Int)
      /\ From(p)[Close(p, b) + 1] \in Seq(Int)
  BY <1>1, <1>2, WithinIs, FromIs DEF WellFormed
<1>4. Times(k, Within(p)[b + 1]) \in Seq(Int)
  BY <1>3, TimesIs
<1> QED
  BY <1>2, <1>3, <1>4, Cat DEF Rest

----------------------------------------------------------------------------
(* What each line does to the place.                                        *)

\* Before the first line everything is still to be done.
LEMMA StartsTodo ==
  ASSUME NEW p, WellFormed(p), NEW a
  PROVE  Todo(p, << >>, 0, a, 1)
<1>1. Len(p) \in Nat /\ 1 \in 1 .. Len(p) + 1
  BY DEF WellFormed
<1>2. From(p)[1] \in Seq(Int)
  BY <1>1, FromIs DEF WellFormed
<1>3. << >> \o From(p)[1] = Whole(p)
  BY <1>2, Cat, EmptySeq DEF Whole
<1> QED
  BY <1>1, <1>3 DEF Todo, Outside, LastBefore

\* What is done and something still to do make up the whole.
LEMMA TodoPrefix ==
  ASSUME NEW p, WellFormed(p), NEW t \in Seq(Int), NEW k, NEW a \in Int, NEW i,
         Todo(p, t, k, a, i)
  PROVE  Prefix(t, Whole(p))
<1>1. CASE Outside(p, t, k, i)
  <2>1. From(p)[i] \in Seq(Int)
    BY <1>1, FromIs DEF Outside, WellFormed
  <2> QED
    BY <1>1, <2>1, PrefixIs DEF Outside
<1>2. CASE Inside(p, t, k, a + 1, i)
  <2>1. Rest(p, k, a + 1, i) \in Seq(Int)
    BY <1>2, RestTyped DEF Inside
  <2> QED
    BY <1>2, <2>1, PrefixIs DEF Inside
<1>3. CASE t = Whole(p)
  BY <1>3 DEF Prefix
<1> QED
  BY <1>1, <1>2, <1>3 DEF Todo

\* Past the last line nothing is left.
LEMMA TodoEnds ==
  ASSUME NEW p, WellFormed(p), NEW t \in Seq(Int), NEW k, NEW a \in Int,
         NEW i \in Int, Todo(p, t, k, a, i), i \notin 1 .. Len(p)
  PROVE  t = Whole(p)
<1>1. CASE Outside(p, t, k, i)
  <2>1. Len(p) \in Nat /\ i = Len(p) + 1
    BY <1>1 DEF Outside, WellFormed
  <2>2. From(p)[i] = << >>
    BY <2>1, FromIs DEF WellFormed
  <2> QED
    BY <1>1, <2>2, Cat DEF Outside
<1>2. CASE Inside(p, t, k, a + 1, i)
  BY <1>2, RestTyped DEF Inside
<1> QED
  BY <1>1, <1>2 DEF Todo

\* The first time a line is executed it is recorded, ...
LEMMA RecordsFirst ==
  ASSUME NEW p, WellFormed(p), NEW t \in Seq(Int), NEW k, NEW a \in Int,
         NEW i \in 1 .. Len(p), Todo(p, t, k, a, i)
  PROVE  Recorded(p, IF Marked(p[i]) THEN Append1(t, i - 1) ELSE t, k, a, i)
<1>1. CASE ~ Marked(p[i])
  <2>1. t = t \o Mark(p, i)
    BY <1>1, Cat DEF Mark
  <2> QED
    BY <1>1, <2>1 DEF Recorded
<1>2. CASE Marked(p[i])
  <2>1. ASSUME t # << >> PROVE t[Len(t)] # i - 1
    <3>1. t[Len(t)] \in Int
      BY <2>1
    <3>2. CASE LastBefore(t, i - 1)
      BY <2>1, <3>1, <3>2 DEF LastBefore
    <3>3. CASE Inside(p, t, k, a + 1, i) /\ ~ LastBefore(t, i - 1)
      <4> DEFINE e == Close(p, a + 1)
      <4>1. /\ a + 1 \in 1 .. Len(p) /\ p[a + 1].op = "loop" /\ i \in a + 2 .. e
            /\ t[Len(t)] = e - 1
            /\ \A j \in a + 2 .. i - 1 : ~ Marked(p[j])
        BY <3>3 DEF Inside
      <4>2. e \in Int /\ \E j \in a + 2 .. e - 1 : Marked(p[j])
        BY <4>1, CloseIs DEF WellFormed
      <4>3. i # e
        BY <4>1, <4>2
      <4> QED
        BY <4>1, <4>2, <4>3
    <3> QED
      BY <3>2, <3>3 DEF Todo, Outside
  <2>2. Append1(t, i - 1) = t \o Mark(p, i)
    BY <1>2, <2>1, AppendsMark
  <2> QED
    BY <1>2, <2>2 DEF Recorded
<1> QED
  BY <1>1, <1>2

\* ... and when it is executed again at once it is not recorded again.
LEMMA RecordsOnce ==
  ASSUME NEW p, WellFormed(p), NEW t \in Seq(Int), NEW k, NEW a \in Int,
         NEW i, Recorded(p, t, k, a, i)
  PROVE  Recorded(p, IF Marked(p[i]) THEN Append1(t, i - 1) ELSE t, k, a, i)
<1>1. PICK s \in Seq(Int) : t = s \o Mark(p, i)
  BY DEF Recorded
<1>2. i \in Int
  BY DEF Recorded, WellFormed
<1>3. Marked(p[i]) => t # << >> /\ t[Len(t)] = i - 1
  BY <1>1, <1>2, MarkLast
<1>4. Marked(p[i]) => Append1(t, i - 1) = t
  BY <1>3 DEF Append1
<1> QED
  BY <1>4

\* Outside of loops, from a line that does not branch to the next one.
LEMMA OutsideMoves ==
  ASSUME NEW p, WellFormed(p), NEW s \in Seq(Int), NEW k, NEW i \in 1 .. Len(p),
         Outside(p, s, k, i), p[i].op \notin {"end", "restart", "loop"}
  PROVE  k = 0 /\ Outside(p, s \o Mark(p, i), 0, i + 1)
<1>1. k = 0
  BY DEF Outside
<1>2. i \in Int /\ i + 1 \in 1 .. Len(p) + 1 /\ i \in 1 .. Len(p) + 1
  BY DEF WellFormed
<1>3. /\ From(p)[i] = Mark(p, i) \o From(p)[i + 1]
      /\ From(p)[i + 1] \in Seq(Int) /\ Mark(p, i) \in Seq(Int)
  BY <1>2, FromIs, MarkTyped DEF WellFormed
<1>4. (s \o Mark(p, i)) \o From(p)[i + 1] = Whole(p)
  <2>1. s \o From(p)[i] = Whole(p)
    BY DEF Outside
  <2>2. s \o (Mark(p, i) \o From(p)[i + 1]) = Whole(p)
    BY <1>3, <2>1
  <2>3. (s \o Mark(p, i)) \o From(p)[i + 1]
          = s \o (Mark(p, i) \o From(p)[i + 1])
    BY <1>3, Joins
  <2> QED
    BY ONLY <2>2, <2>3
<1>5. LastBefore(s \o Mark(p, i), i)
  BY <1>2, MarkLast DEF Outside
<1>6. i + 1 - 1 = i
  BY <1>2
<1> QED
  BY <1>1, <1>2, <1>4, <1>5, <1>6 DEF Outside

\* A loop has lines that do not branch, and its G10.
LEMMA InsideOps ==
  ASSUME NEW p, WellFormed(p), NEW s, NEW k, NEW b, NEW i,
         Inside(p, s, k, b, i)
  PROVE  \/ i = Close(p, b) /\ p[i].op = "endloop"
         \/ /\ i < Close(p, b)
            /\ p[i].op \notin Flow /\ p[i].op # "divide" /\ p[i].child # "divide"
<1>1. /\ b \in 1 .. Len(p) /\ p[b].op = "loop" /\ i \in b + 1 .. Close(p, b)
  BY DEF Inside
<1>2. /\ Close(p, b) \in b + 1 .. Len(p)
      /\ p[Close(p, b)].op = "endloop"
      /\ \A j \in b + 1 .. Close(p, b) - 1 :
           p[j].op \notin Flow /\ p[j].op # "divide" /\ p[j].child # "divide"
  BY <1>1, CloseIs DEF WellFormed
<1>3. CASE i = Close(p, b)
  BY <1>2, <1>3
<1>4. CASE i # Close(p, b)
  <2>1. i \in b + 1 .. Close(p, b) - 1 /\ i < Close(p, b)
    BY <1>1, <1>2, <1>4
  <2> QED
    BY <1>2, <2>1
<1> QED
  BY <1>3, <1>4

\* The same inside a loop.
LEMMA InsideMoves ==
  ASSUME NEW p, WellFormed(p), NEW s \in Seq(Int), NEW k, NEW b, NEW i,
         Inside(p, s, k, b, i), p[i].op # "endloop"
  PROVE  Inside(p, s \o Mark(p, i), k, b, i + 1)
<1> DEFINE u == Times(k, Within(p)[b + 1]) \o From(p)[Close(p, b) + 1]
           t == s \o Mark(p, i)
<1>1. /\ k \in Nat /\ b \in 1 .. Len(p) /\ p[b].op = "loop"
      /\ i \in b + 1 .. Close(p, b)
  BY DEF Inside
<1>2. /\ i < Close(p, b) /\ Close(p, b) \in b + 1 .. Len(p)
      /\ i \in Int /\ b \in Int /\ i \in 1 .. Len(p)
  BY <1>1, InsideOps, CloseIs DEF WellFormed
<1>3. i + 1 \in b + 1 .. Close(p, b)
  BY <1>1, <1>2
<1>4. /\ Within(p)[i] = Mark(p, i) \o Within(p)[i + 1]
      /\ Mark(p, i) \in Seq(Int)
  BY <1>2, WithinIs, MarkTyped DEF WellFormed
<1>5. Within(p)[i + 1] \in Seq(Int) /\ u \in Seq(Int)
  BY <1>1, <1>3, RestTyped
<1>6. t \o Rest(p, k, b, i + 1) = Whole(p)
  <2>1. s \o ((Mark(p, i) \o Within(p)[i + 1]) \o u) = Whole(p)
    BY <1>4 DEF Inside, Rest
  <2>2. (Mark(p, i) \o Within(p)[i + 1]) \o u
          = Mark(p, i) \o (Within(p)[i + 1] \o u)
    BY <1>4, <1>5, Joins
  <2>3. Within(p)[i + 1] \o u \in Seq(Int)
    BY <1>5, Cat
  <2>4. s \o (Mark(p, i) \o (Within(p)[i + 1] \o u))
          = (s \o Mark(p, i)) \o (Within(p)[i + 1] \o u)
    BY <1>4, <2>3, Joins
  <2> QED
    BY <2>1, <2>2, <2>4 DEF Rest
<1>7. \/ LastBefore(t, i)
      \/ /\ t # << >> /\ t[Len(t)] = Close(p, b) - 1
         /\ \A j \in b + 1 .. i : ~ Marked(p[j])
  <2>1. CASE LastBefore(s, i - 1)
    BY <1>2, <2>1, MarkLast
  <2>2. CASE /\ s # << >> /\ s[Len(s)] = Close(p, b) - 1
             /\ \A j \in b + 1 .. i - 1 : ~ Marked(p[j])
    <3>1. CASE Marked(p[i])
      <4>1. t # << >> /\ t[Len(t)] = i - 1
        BY <1>2, <3>1, MarkLast
      <4> QED
        BY <1>2, <4>1 DEF LastBefore
    <3>2. CASE ~ Marked(p[i])
      <4>1. t = s
        BY <1>2, <3>2, MarkLast
      <4>2. \A j \in b + 1 .. i : j = i \/ j \in b + 1 .. i - 1
        BY <1>2
      <4> QED
        BY <2>2, <3>2, <4>1, <4>2
    <3> QED
      BY <3>1, <3>2
  <2> QED
    BY <2>1, <2>2 DEF Inside
<1>8. i + 1 - 1 = i
  BY <1>2
<1> HIDE DEF t, u
<1>9. \/ LastBefore(t, i + 1 - 1)
      \/ /\ t # << >> /\ t[Len(t)] = Close(p, b) - 1
         /\ \A j \in b + 1 .. i + 1 - 1 : ~ Marked(p[j])
  BY <1>7, <1>8, Zenon
<1>10. Inside(p, t, k, b, i + 1)
  BY ONLY <1>1, <1>3, <1>6, <1>9 DEF Inside
<1> QED
  BY <1>10 DEF t

\* At G10: with repetitions left back to the line after R, with none on.
LEMMA InsideCloses ==
  ASSUME NEW p, WellFormed(p), NEW s \in Seq(Int), NEW k, NEW b, NEW i,
         Inside(p, s, k, b, i), p[i].op = "endloop"
  PROVE  /\ k = 0 => Outside(p, s \o Mark(p, i), 0, i + 1)
         /\ k > 0 => Inside(p, s \o Mark(p, i), k - 1, b, b + 1)
<1> DEFINE w == Within(p)[b + 1]
           o == From(p)[i + 1]
           t == s \o Mark(p, i)
<1>1. /\ k \in Nat /\ b \in 1 .. Len(p) /\ p[b].op = "loop"
      /\ i = Close(p, b)
  BY InsideOps DEF Inside, Flow
<1>2. /\ i \in b + 1 .. Len(p) /\ i \in 1 .. Len(p) /\ i \in Int /\ b \in Int
      /\ i + 1 \in 1 .. Len(p) + 1 /\ b + 1 \in 1 .. Len(p) + 1
  BY <1>1, CloseIs DEF WellFormed
<1>3. Within(p)[i] = Mark(p, i) /\ Mark(p, i) \in Seq(Int)
  BY <1>2, WithinIs, MarkTyped DEF WellFormed
<1>4. w \in Seq(Int) /\ o \in Seq(Int)
  BY <1>2, WithinIs, FromIs DEF WellFormed
<1>5. Marked(p[i])
  BY DEF Marked
<1>6. t \in Seq(Int) /\ t # << >> /\ t[Len(t)] = i - 1
  BY <1>2, <1>5, MarkLast
<1>7. s \o (Mark(p, i) \o (Times(k, w) \o o)) = Whole(p)
  BY <1>1, <1>3 DEF Inside, Rest
<1>8. Times(k, w) \in Seq(Int) /\ Times(k, w) \o o \in Seq(Int)
  BY <1>1, <1>4, TimesIs, Cat
<1>9. t \o (Times(k, w) \o o) = Whole(p)
  BY <1>3, <1>7, <1>8, Joins
<1> HIDE DEF w, o, t
<1>10. CASE k = 0
  <2>1. Times(k, w) \o o = o
    <3>1. Times(k, w) = << >>
      BY <1>1, <1>4, <1>10, TimesIs
    <3> QED
      BY <1>4, <3>1, Cat
  <2>2. t \o o = Whole(p)
    BY <1>9, <2>1
  <2>3. LastBefore(t, i)
    BY <1>2, <1>6 DEF LastBefore
  <2>4. i + 1 - 1 = i
    BY <1>2
  <2>5. Outside(p, t, 0, i + 1)
    BY <1>2, <2>2, <2>3, <2>4 DEF Outside, o
  <2> QED
    BY <1>10, <2>5 DEF t
<1>11. CASE k > 0
  <2>1. k - 1 \in Nat
    BY <1>1, <1>11
  <2>2. Times(k, w) = w \o Times(k - 1, w) /\ Times(k - 1, w) \in Seq(Int)
    BY <1>1, <1>4, <1>11, <2>1, TimesIs
  <2>3. Times(k, w) \o o = w \o (Times(k - 1, w) \o o)
    <3>1. (w \o Times(k - 1, w)) \o o = w \o (Times(k - 1, w) \o o)
      BY <1>4, <2>2, Joins
    <3> QED
      BY <2>2, <3>1
  <2>4. t \o Rest(p, k - 1, b, b + 1) = Whole(p)
    BY <1>1, <1>9, <2>3 DEF Rest, w, o
  <2>5. b + 1 \in b + 1 .. Close(p, b)
    BY <1>1, <1>2
  <2>6. \A j \in b + 1 .. b + 1 - 1 : ~ Marked(p[j])
    BY <1>2
  <2>7. t[Len(t)] = Close(p, b) - 1
    BY <1>1, <1>6
  <2>8. Inside(p, t, k - 1, b, b + 1)
    BY ONLY <1>1, <1>6, <2>1, <2>4, <2>5, <2>6, <2>7 DEF Inside
  <2> QED
    BY <1>11, <2>8 DEF t
<1> QED
  BY <1>1, <1>10, <1>11

----------------------------------------------------------------------------
(* What the line the call is on does to its place.                          *)

\* R, M30 and M99 are not recorded.
LEMMA FlowUnmarked ==
  ASSUME NEW p, WellFormed(p), NEW i \in 1 .. Len(p),
         p[i].op \in {"loop", "end", "restart"}
  PROVE  ~ Marked(p[i]) /\ Mark(p, i) = << >>
<1>1. i \in DOMAIN p
  BY DEF WellFormed
<1>2. p[i].child = "none"
  BY <1>1 DEF WellFormed, Structured
<1>3. ~ Marked(p[i])
  BY <1>2 DEF Marked
<1> QED
  BY <1>3 DEF Mark

\* After a line that does not branch comes the next one, and G16 and G17 find
\* no loop in progress.
LEMMA PlainDone ==
  ASSUME NEW p, WellFormed(p), NEW t \in Seq(Int), NEW k, NEW a \in Int,
         NEW i, Recorded(p, t, k, a, i), p[i].op \notin Flow
  PROVE  /\ Todo(p, t, k, a, i + 1)
         /\ "divide" \in {p[i].op, p[i].child} => k = 0
<1>1. PICK s \in Seq(Int) : Todo(p, s, k, a, i) /\ t = s \o Mark(p, i)
  BY DEF Recorded
<1>2. i \in 1 .. Len(p) /\ i # 0
  BY DEF Recorded, WellFormed
<1>3. CASE Outside(p, s, k, i)
  <2>1. k = 0 /\ Outside(p, s \o Mark(p, i), 0, i + 1)
    BY <1>2, <1>3, OutsideMoves DEF Flow
  <2> QED
    BY <1>1, <2>1 DEF Todo
<1>4. CASE Inside(p, s, k, a + 1, i)
  <2>1. p[i].op # "divide" /\ p[i].child # "divide"
    BY <1>4, InsideOps DEF Flow
  <2>2. Inside(p, s \o Mark(p, i), k, a + 1, i + 1)
    BY <1>4, InsideMoves DEF Flow
  <2> QED
    BY <1>1, <2>1, <2>2 DEF Todo
<1> QED
  BY <1>1, <1>2, <1>3, <1>4 DEF Todo

\* R begins its loop, whatever was left in the counters.
LEMMA LoopDone ==
  ASSUME NEW p, WellFormed(p), NEW t \in Seq(Int), NEW k, NEW a \in Int,
         NEW i, Recorded(p, t, k, a, i), p[i].op = "loop"
  PROVE  /\ Todo(p, t, p[i].n - 1, i - 1, i + 1)
         /\ \A l, b : Recorded(p, t, l, b, i)
<1>1. PICK s \in Seq(Int) : Todo(p, s, k, a, i) /\ t = s \o Mark(p, i)
  BY DEF Recorded
<1>2. i \in 1 .. Len(p) /\ i # 0 /\ i \in Int /\ Len(p) \in Nat
  BY DEF Recorded, WellFormed
<1>3. ~ Inside(p, s, k, a + 1, i)
  BY InsideOps DEF Flow
<1>4. Outside(p, s, k, i)
  BY <1>1, <1>2, <1>3 DEF Todo
<1>5. Mark(p, i) = << >> /\ t = s
  BY <1>1, <1>2, FlowUnmarked, Cat
<1>6. \A l, b : Recorded(p, t, l, b, i)
  <2> SUFFICES ASSUME NEW l, NEW b PROVE Recorded(p, t, l, b, i)
    OBVIOUS
  <2>1. Outside(p, s, l, i)
    BY <1>2, <1>4 DEF Outside
  <2> QED
    BY <1>1, <1>2, <2>1 DEF Recorded, Todo
<1> DEFINE n == p[i].n
           w == Within(p)[i + 1]
           o == From(p)[Close(p, i) + 1]
<1>7. /\ Close(p, i) \in i + 1 .. Len(p) /\ n \in Nat /\ n > 0
      /\ i + 1 \in 1 .. Len(p) + 1 /\ Close(p, i) + 1 \in 1 .. Len(p) + 1
  <2>1. Close(p, i) \in i + 1 .. Len(p) /\ n \in Nat
    BY <1>2, CloseIs, LineIs DEF WellFormed
  <2>2. n > 0
    BY <1>2 DEF WellFormed, Structured
  <2> HIDE DEF n
  <2> QED
    BY <1>2, <2>1, <2>2
<1>8. w \in Seq(Int) /\ o \in Seq(Int)
  BY <1>7, WithinIs, FromIs DEF WellFormed
<1>9. From(p)[i] = Times(n, w) \o o
  BY <1>2, FromIs DEF WellFormed
<1>10. t \o From(p)[i] = Whole(p) /\ LastBefore(t, i - 1)
  BY <1>4, <1>5 DEF Outside
<1> HIDE DEF n, w, o
<1>11. Times(n, w) = w \o Times(n - 1, w) /\ Times(n - 1, w) \in Seq(Int)
       /\ n - 1 \in Nat
  <2>1. n - 1 \in Nat /\ n \in Nat /\ n > 0
    BY <1>7
  <2>2. Times(n, w) = w \o Times(n - 1, w)
    BY <1>8, <2>1, TimesIs
  <2>3. Times(n - 1, w) \in Seq(Int)
    BY <1>8, <2>1, TimesIs
  <2> QED
    BY <2>1, <2>2, <2>3
<1>12. (w \o Times(n - 1, w)) \o o = w \o (Times(n - 1, w) \o o)
  BY <1>8, <1>11, Joins
<1>13. t \o Rest(p, n - 1, i, i + 1) = Whole(p)
  BY <1>9, <1>10, <1>11, <1>12 DEF Rest, w, o
<1>14. LastBefore(t, i + 1 - 1)
  BY <1>2, <1>10 DEF LastBefore
<1>15. i + 1 \in i + 1 .. Close(p, i)
  BY <1>2, <1>7
<1>16. Inside(p, t, n - 1, i, i + 1)
  BY ONLY <1>2, <1>11, <1>13, <1>14, <1>15, p[i].op = "loop" DEF Inside
<1>17. i - 1 + 1 = i
  BY <1>2
<1>18. Todo(p, t, n - 1, i - 1, i + 1)
  BY <1>16, <1>17 DEF Todo
<1> QED
  BY <1>6, <1>18 DEF n

\* G10 goes back to the line behind its R while something is left.
LEMMA EndloopDone ==
  ASSUME NEW p, WellFormed(p), NEW t \in Seq(Int), NEW k, NEW a \in Int,
         NEW i, Recorded(p, t, k, a, i), p[i].op = "endloop"
  PROVE  /\ k \in Nat
         /\ k = 0 => Todo(p, t, 0, a, i + 1)
         /\ k > 0 => Todo(p, t, k - 1, a, a + 2)
<1>1. PICK s \in Seq(Int) : Todo(p, s, k, a, i) /\ t = s \o Mark(p, i)
  BY DEF Recorded
<1>2. i \in 1 .. Len(p) /\ i # 0
  BY DEF Recorded, WellFormed
<1>3. CASE Outside(p, s, k, i)
  <2>1. k = 0 /\ Outside(p, s \o Mark(p, i), 0, i + 1)
    BY <1>2, <1>3, OutsideMoves
  <2> QED
    BY <1>1, <2>1 DEF Todo
<1>4. CASE Inside(p, s, k, a + 1, i)
  <2>1. k \in Nat
    BY <1>4 DEF Inside
  <2>2. k = 0 => Outside(p, t, 0, i + 1)
    BY <1>1, <1>4, InsideCloses
  <2>3. k > 0 => Inside(p, t, k - 1, a + 1, a + 1 + 1)
    BY <1>1, <1>4, InsideCloses
  <2>4. a + 1 + 1 = a + 2
    OBVIOUS
  <2> QED
    BY <2>1, <2>2, <2>3, <2>4 DEF Todo
<1> QED
  BY <1>1, <1>2, <1>3, <1>4 DEF Todo

\* At M30 and M99 nothing is left.
LEMMA EndDone ==
  ASSUME NEW p, WellFormed(p), NEW t \in Seq(Int), NEW k, NEW a \in Int,
         NEW i, Recorded(p, t, k, a, i), p[i].op \in {"end", "restart"}
  PROVE  t = Whole(p)
<1>1. PICK s \in Seq(Int) : Todo(p, s, k, a, i) /\ t = s \o Mark(p, i)
  BY DEF Recorded
<1>2. i \in 1 .. Len(p) /\ i # 0
  BY DEF Recorded, WellFormed
<1>3. ~ Inside(p, s, k, a + 1, i)
  BY InsideOps DEF Flow
<1>4. Outside(p, s, k, i)
  BY <1>1, <1>2, <1>3 DEF Todo
<1>5. t = s
  BY <1>1, <1>2, FlowUnmarked, Cat
<1>6. From(p)[i] = << >>
  BY <1>2, FromIs DEF WellFormed
<1> QED
  BY <1>4, <1>5, <1>6, Cat DEF Outside

\* What is recorded is a beginning of the whole.
LEMMA RecordedPrefix ==
  ASSUME NEW p, WellFormed(p), NEW t \in Seq(Int), NEW k, NEW a \in Int,
         NEW i, Recorded(p, t, k, a, i)
  PROVE  Prefix(t, Whole(p))
<1>1. CASE p[i].op \notin Flow
  BY <1>1, PlainDone, TodoPrefix
<1>2. CASE p[i].op = "loop"
  <2>1. Todo(p, t, p[i].n - 1, i - 1, i + 1)
    BY <1>2, LoopDone
  <2>2. i - 1 \in Int
    BY DEF Recorded, WellFormed
  <2> QED
    BY <2>1, <2>2, TodoPrefix
<1>3. CASE p[i].op = "endloop"
  <2>1. Todo(p, t, 0, a, i + 1) \/ Todo(p, t, k - 1, a, a + 2)
    BY <1>3, EndloopDone
  <2> QED
    BY <2>1, TodoPrefix
<1>4. CASE p[i].op \in {"end", "restart"}
  BY <1>4, EndDone DEF Prefix
<1> QED
  BY <1>1, <1>2, <1>3, <1>4 DEF Flow

----------------------------------------------------------------------------
(* The strengthening of ProgramOrder, for one call x and the context c.     *)

OpOf(x) == IF x.child THEN LineOf(x).child ELSE LineOf(x).op

\* The line the call is on is recorded; line n is the next one.
LineDone(x, c) ==
  Recorded(Program[x.file], x.trace, c.loop, c.loopAt, x.line + 1)
ComesNext(x, c, n) ==
  Todo(Program[x.file], x.trace, c.loop, c.loopAt, n + 1)

\* On a line that does not branch; G16 and G17 use LoopCount for themselves.
OnPlain(x, c) ==
  /\ LineOf(x).op \notin Flow
  /\ c.cur = x.line /\ c.next \in {x.line, x.line + 1}
  /\ Recorded(Program[x.file], x.trace,
              IF OpOf(x) = "divide" THEN 0 ELSE c.loop, c.loopAt, x.line + 1)

InSend(x) ==
  \/ x.pc \in Sending
  \/ x.pc \in {"single", "singleshut"} /\ x.back = "aftersegment"
InLine(x) ==
  \/ x.pc \in {"handled", "executed", "stopcheck"}
  \/ x.pc \in {"single", "singleshut"} /\ x.back # "aftersegment"

InDivide(x) ==
  \/ x.pc \in {"segment", "aftersegment"}
  \/ x.pc \in {"single", "singleshut"} /\ x.back = "aftersegment"

\* Executed again at once, or for the first time.
Checking(x, c) ==
  c.next = x.line /\ (LineDone(x, c) \/ ComesNext(x, c, x.line))

Handling(x, c) ==
  /\ c.cur = x.line /\ LineDone(x, c)
  /\ IF x.child
     THEN LineOf(x).op \notin Flow /\ c.next \in {x.line, x.line + 1}
     ELSE c.next = x.line

Moving(x, c) ==
  /\ OnPlain(x, c)
  /\ InDivide(x) => OpOf(x) = "divide"
  /\ OpOf(x) = "divide" => c.loop = LineOf(x).n /\ x.seg <= LineOf(x).n

Handled(x, c) ==
  \/ /\ OnPlain(x, c)
     /\ OpOf(x) = "divide" =>
          /\ c.loop = 0 \/ c.stop
          /\ ~ c.err /\ ~ c.stop => x.seg = LineOf(x).n
  \/ /\ LineOf(x).op \in Flow
     /\ \/ c.next = x.line /\ LineDone(x, c)
        \/ ComesNext(x, c, c.next)

AllDone(x) == x.trace = Whole(Program[x.file])

Returning(x, c) ==
  /\ Prefix(x.trace, Whole(Program[x.file]))
  /\ x.pc = "return" => c.stop \/ AllDone(x)
  /\ x.pc = "fail" => c.err
  /\ x.pc = "complete" => c.err \/ AllDone(x)

RealOK(x, c) ==
  /\ x.pc = "check" => Checking(x, c)
  /\ x.pc = "handle" => Handling(x, c)
  /\ InSend(x) => Moving(x, c)
  /\ InLine(x) => Handled(x, c)
  /\ x.pc \in {"return", "fail", "complete"} => Returning(x, c)

OrderOK(x, c) ==
  /\ x.pc \in {"idle", "announce", "verify", "launch"} => x.frame # "real"
  /\ x.pc # "idle" /\ x.frame # "real" => x.trace = << >>
  /\ x.pc = "complete" => x.frame = "real"
  /\ x.pc = "launch" => c.resume = 0 /\ c.loop = 0 /\ c.next = 0 /\ ~ c.trial
  /\ x.frame = "real" => ~ c.trial /\ RealOK(x, c)

\* What is known of a call before a step.
Meant == \A f \in Files : Structured(Program[f])
InOrder(r) == Before(r) /\ Meant /\ OrderOK(run[r], ctx)

\* y with context d is where x with c is.
Alike(x, y, c, d) ==
  /\ y.file = x.file /\ y.line = x.line /\ y.child = x.child
  /\ y.seg = x.seg /\ y.trace = x.trace
  /\ d.cur = c.cur /\ d.next = c.next /\ d.loop = c.loop
  /\ d.loopAt = c.loopAt /\ d.err = c.err
  /\ c.stop => d.stop

\* All that is said of a call is said of one that is where it is.
LEMMA AlikeKeeps ==
  ASSUME NEW x, NEW y, NEW c, NEW d, Alike(x, y, c, d)
  PROVE  /\ LineOf(y) = LineOf(x) /\ OpOf(y) = OpOf(x)
         /\ OnPlain(x, c) => OnPlain(y, d)
         /\ LineDone(x, c) => LineDone(y, d)
         /\ Checking(x, c) => Checking(y, d)
         /\ Handling(x, c) => Handling(y, d)
         /\ Moving(x, c) /\ (InDivide(y) => OpOf(x) = "divide") => Moving(y, d)
         /\ Handled(x, c) => Handled(y, d)
         /\ y.pc = x.pc /\ Returning(x, c) => Returning(y, d)
<1>1. LineOf(y) = LineOf(x)
  BY DEF LineOf, Alike
<1>2. OpOf(y) = OpOf(x)
  BY <1>1 DEF OpOf, Alike
<1>3. OnPlain(x, c) => OnPlain(y, d)
  BY <1>1, <1>2 DEF OnPlain, Alike
<1>4. LineDone(x, c) => LineDone(y, d)
  BY DEF LineDone, Alike
<1>5. \A n : ComesNext(x, c, n) => ComesNext(y, d, n)
  BY DEF ComesNext, Alike
<1>6. Checking(x, c) => Checking(y, d)
  BY <1>4, <1>5 DEF Checking, Alike
<1>7. Handling(x, c) => Handling(y, d)
  BY <1>1, <1>4 DEF Handling, Alike
<1>8. Moving(x, c) /\ (InDivide(y) => OpOf(x) = "divide") => Moving(y, d)
  BY <1>1, <1>2, <1>3 DEF Moving, Alike
<1>9. Handled(x, c) => Handled(y, d)
  BY <1>1, <1>2, <1>3, <1>4, <1>5 DEF Handled, Alike
<1>10. y.pc = x.pc /\ Returning(x, c) => Returning(y, d)
  BY DEF Returning, AllDone, Alike
<1> QED
  BY <1>1, <1>2, <1>3, <1>4, <1>6, <1>7, <1>8, <1>9, <1>10

\* In the trial run nothing is recorded.
LEMMA TrialGoesOn ==
  ASSUME NEW x, NEW y, NEW c, NEW d, OrderOK(x, c),
         x.pc # "idle", x.frame # "real", y.frame # "real",
         y.pc \notin {"launch", "complete"},
         y.trace = x.trace \/ y.trace = << >>
  PROVE  OrderOK(y, d)
  BY DEF OrderOK

\* What is to be shown of a step of the real run, stage by stage.
LEMMA RealGoesOn ==
  ASSUME NEW y, NEW d, y.frame = "real", ~ d.trial,
         \/ y.pc = "check" /\ Checking(y, d)
         \/ y.pc = "handle" /\ Handling(y, d)
         \/ InSend(y) /\ Moving(y, d)
         \/ InLine(y) /\ Handled(y, d)
         \/ y.pc \in {"return", "fail", "complete"} /\ Returning(y, d)
  PROVE  OrderOK(y, d)
<1>1. y.pc \notin {"idle", "announce", "verify", "launch"}
  BY DEF InSend, InLine, Sending
<1>2. RealOK(y, d)
  BY DEF RealOK, InSend, InLine, Sending
<1> QED
  BY <1>1, <1>2 DEF OrderOK

\* Stages between which nothing of this changes.
LEMMA SameStage ==
  ASSUME NEW x, NEW y, NEW c, NEW d, OrderOK(x, c), Alike(x, y, c, d),
         y.frame = x.frame, d.trial = c.trial,
         \/ InSend(x) /\ InSend(y)
         \/ InLine(x) /\ InLine(y),
         InDivide(y) => InDivide(x) \/ OpOf(x) = "divide"
  PROVE  OrderOK(y, d)
<1>1. x.pc # "idle" /\ y.pc \notin {"launch", "complete"}
  BY DEF InSend, InLine, Sending
<1>2. CASE x.frame # "real"
  <2>1. y.trace = x.trace
    BY DEF Alike
  <2> QED
    BY <1>1, <1>2, <2>1, TrialGoesOn
<1>3. CASE x.frame = "real"
  <2>1. \/ InSend(y) /\ Moving(y, d)
        \/ InLine(y) /\ Handled(y, d)
    <3>1. InSend(x) => Moving(x, c) /\ (InDivide(x) => OpOf(x) = "divide")
      BY <1>3 DEF OrderOK, RealOK, Moving
    <3>2. InLine(x) => Handled(x, c)
      BY <1>3 DEF OrderOK, RealOK
    <3>3. CASE InSend(x) /\ InSend(y)
      BY <3>1, <3>3, AlikeKeeps
    <3>4. CASE InLine(x) /\ InLine(y)
      BY <3>2, <3>4, AlikeKeeps
    <3> QED
      BY <3>3, <3>4
  <2>2. ~ d.trial
    BY <1>3 DEF OrderOK
  <2> QED
    BY <1>3, <2>1, <2>2, RealGoesOn
<1> QED
  BY <1>2, <1>3

\* The context of others changes neither the place nor the stage.
LEMMA SameCall ==
  ASSUME NEW x, NEW y, NEW c, NEW d, OrderOK(x, c), Alike(x, y, c, d),
         y.frame = x.frame, y.pc = x.pc, y.back = x.back,
         d.trial = c.trial, d.resume = c.resume
  PROVE  OrderOK(y, d)
<1>1. /\ InSend(y) = InSend(x) /\ InLine(y) = InLine(x)
      /\ InDivide(y) = InDivide(x)
  BY DEF InSend, InLine, InDivide
<1>2. Moving(x, c) => Moving(y, d)
  BY <1>1, AlikeKeeps DEF Moving
<1>3. RealOK(x, c) => RealOK(y, d)
  BY <1>1, <1>2, AlikeKeeps DEF RealOK
<1> QED
  BY <1>3 DEF OrderOK, Alike

----------------------------------------------------------------------------
(* One lemma for each action of a call.                                     *)

\* The program and the line of a call that is on one.
LEMMA CallIs ==
  ASSUME NEW r \in Runs, InOrder(r), run[r].pc # "idle"
  PROVE  /\ ctx \in Context /\ run[r] \in RunRecords /\ run \in Frames
         /\ FrameOK(run[r])
         /\ WellFormed(Program[run[r].file])
         /\ run[r].trace \in Seq(Int) /\ run[r].line \in Int
         /\ ctx.loopAt \in Int /\ ctx.loop \in Int
         /\ Line(r) = LineOf(run[r]) /\ CurrentOp(r) = OpOf(run[r])
         /\ LineOf(run[r]) = Program[run[r].file][run[r].line + 1]
         /\ OrderOK(run[r], ctx)
<1>1. ctx \in Context /\ run \in Frames /\ FrameOK(run[r]) /\ Meant
      /\ OrderOK(run[r], ctx)
  BY DEF InOrder, Before
<1>2. run[r] \in RunRecords
  BY <1>1 DEF Frames
<1>3. run[r].file \in Files
  BY <1>1 DEF FrameOK
<1>4. WellFormed(Program[run[r].file])
  BY <1>1, <1>3, ProgramAssumption DEF WellFormed, Meant
<1>5. run[r].trace \in Seq(Int) /\ run[r].line \in Int
  BY <1>2 DEF RunRecords
<1>6. ctx.loopAt \in Int /\ ctx.loop \in Int
  BY <1>1 DEF Context
<1>7. Line(r) = LineOf(run[r]) /\ CurrentOp(r) = OpOf(run[r])
      /\ LineOf(run[r]) = Program[run[r].file][run[r].line + 1]
  BY DEF Line, LineOf, CurrentOp, OpOf
<1> QED
  BY <1>1, <1>2, <1>4, <1>5, <1>6, <1>7

\* A line of the program, and what may stand behind it.
LEMMA OnLineIs ==
  ASSUME NEW r \in Runs, InOrder(r), run[r].pc \in OnLine
  PROVE  /\ run[r].line + 1 \in 1 .. Len(Program[run[r].file])
         /\ LineOf(run[r]) \in Command
         /\ LineOf(run[r]).child # "none" =>
              LineOf(run[r]).op \in {"offset", "linear"}
         /\ LineOf(run[r]).child \notin Flow
         /\ LineOf(run[r]).op = "loop" => LineOf(run[r]).n > 0
<1> DEFINE p == Program[run[r].file]
<1>1. /\ run[r] \in RunRecords /\ FrameOK(run[r]) /\ WellFormed(p)
      /\ run[r].line \in Int
      /\ LineOf(run[r]) = p[run[r].line + 1]
  BY CallIs DEF OnLine
<1>2. LineOf(run[r]) \in Command
  BY <1>1, LineTyped
<1>3. run[r].line \in 0 .. Len(p) - 1
  BY <1>1 DEF FrameOK
<1>4. Len(p) \in Nat /\ DOMAIN p = 1 .. Len(p)
  BY <1>1 DEF WellFormed
<1> HIDE DEF p
<1>5. run[r].line + 1 \in 1 .. Len(p)
  BY <1>1, <1>3, <1>4
<1>6. run[r].line + 1 \in DOMAIN p /\ Structured(p)
  BY <1>1, <1>4, <1>5 DEF WellFormed
<1> QED
  BY <1>1, <1>2, <1>5, <1>6 DEF Structured, p

\* Goto changes the stage, ...
LEMMA GotoIs ==
  ASSUME NEW r \in Runs, run \in Frames, NEW v \in Stages, Goto(r, v)
  PROVE  /\ run'[r].pc = v /\ run'[r].frame = run[r].frame
         /\ run'[r].file = run[r].file /\ run'[r].line = run[r].line
         /\ run'[r].child = run[r].child /\ run'[r].seg = run[r].seg
         /\ run'[r].trace = run[r].trace /\ run'[r].back = run[r].back
<1>1. run'[r] = [run[r] EXCEPT !.pc = v]
  BY GotoKeeps
<1>2. run[r] \in RunRecords
  BY DEF Frames
<1> QED
  BY <1>1, <1>2 DEF RunRecords

\* ... WaitExecuteNextCommand also where to return to, ...
LEMMA WaitIs ==
  ASSUME NEW r \in Runs, run \in Frames, NEW v \in Stages,
         WaitExecuteNextCommand(r, v)
  PROVE  /\ run'[r].pc \in {"single", v} /\ run'[r].back = v
         /\ run'[r].frame = run[r].frame
         /\ run'[r].file = run[r].file /\ run'[r].line = run[r].line
         /\ run'[r].child = run[r].child /\ run'[r].seg = run[r].seg
         /\ run'[r].trace = run[r].trace
<1>1. PICK q \in {"single", v} : run' = [run EXCEPT ![r].pc = q, ![r].back = v]
  BY DEF WaitExecuteNextCommand
<1>2. run[r] \in RunRecords
  BY DEF Frames
<1> QED
  BY <1>1, <1>2 DEF RunRecords, Frames

\* ... and a call of executeCommands the caller and the line.
LEMMA ExecuteIs ==
  ASSUME NEW r \in Runs, run \in Frames, NEW fr, NEW n, Execute(r, fr, n)
  PROVE  /\ run'[r].pc = "check" /\ run'[r].frame = fr /\ run'[r].line = n
         /\ run'[r].file = run[r].file /\ run'[r].trace = run[r].trace
<1>1. run[r] \in RunRecords
  BY DEF Frames
<1> QED
  BY <1>1 DEF Execute, RunRecords, Frames

\* What ResetExecutingProgram leaves.
LEMMA ResetIs ==
  ASSUME NEW c \in Context
  PROVE  /\ Reset(c).cur = 0 /\ Reset(c).next = 0 /\ Reset(c).err = FALSE
         /\ Reset(c).loop = 0 /\ Reset(c).loopAt = 0 /\ Reset(c).resume = 0
         /\ Reset(c).trial = c.trial
  BY DEF Reset, Context

\* A call whose line is handled has recorded a beginning of the whole.
LEMMA HandledPrefix ==
  ASSUME NEW r \in Runs, InOrder(r), run[r].pc # "idle",
         Handled(run[r], ctx)
  PROVE  Prefix(run[r].trace, Whole(Program[run[r].file]))
<1>1. /\ WellFormed(Program[run[r].file]) /\ run[r].trace \in Seq(Int)
      /\ ctx.loopAt \in Int
  BY CallIs
<1>2. CASE OnPlain(run[r], ctx)
  BY <1>1, <1>2, RecordedPrefix DEF OnPlain
<1>3. CASE LineDone(run[r], ctx)
  BY <1>1, <1>3, RecordedPrefix DEF LineDone
<1>4. CASE ComesNext(run[r], ctx, ctx.next)
  BY <1>1, <1>4, TodoPrefix DEF ComesNext
<1> QED
  BY <1>2, <1>3, <1>4 DEF Handled

\* Announce and Verify come before the trial run.
LEMMA AnnounceOrders ==
  ASSUME NEW r \in Runs, InOrder(r), Announce(r)
  PROVE  OrderOK(run'[r], ctx')
<1>1. run[r].pc = "announce" /\ run \in Frames
  BY DEF Announce, At, InOrder, Before
<1>2. run'[r].pc = "verify" /\ run'[r].frame = run[r].frame
      /\ run'[r].trace = run[r].trace
  BY <1>1, GotoIs DEF Announce, Stages
<1> QED
  BY <1>1, <1>2, TrialGoesOn DEF InOrder, OrderOK

\* Verify begins the trial run with nothing recorded.
LEMMA VerifyOrders ==
  ASSUME NEW r \in Runs, InOrder(r), Verify(r)
  PROVE  OrderOK(run'[r], ctx')
<1>1. run[r].pc = "verify" /\ run \in Frames
  BY DEF Verify, At, InOrder, Before
<1>2. run'[r].pc = "check" /\ run'[r].frame = "trial"
      /\ run'[r].trace = run[r].trace
  BY <1>1, ExecuteIs DEF Verify
<1> QED
  BY <1>1, <1>2, TrialGoesOn DEF InOrder, OrderOK

\* Launch: the real run begins with the first line and an empty trace.
LEMMA LaunchOrders ==
  ASSUME NEW r \in Runs, InOrder(r), Launch(r)
  PROVE  OrderOK(run'[r], ctx')
<1>1. run[r].pc = "launch" /\ run \in Frames /\ ctx' = ctx
      /\ Execute(r, "real", ctx.resume)
  BY DEF Launch, At, InOrder, Before
<1>2. /\ run[r].trace = << >> /\ ctx.resume = 0 /\ ctx.loop = 0
      /\ ctx.next = 0 /\ ~ ctx.trial
  BY <1>1 DEF InOrder, OrderOK
<1>3. /\ run'[r].pc = "check" /\ run'[r].frame = "real"
      /\ run'[r].line = 0 /\ run'[r].file = run[r].file
      /\ run'[r].trace = << >>
  BY <1>1, <1>2, ExecuteIs
<1>4. WellFormed(Program[run[r].file])
  BY <1>1, CallIs
<1>5. Todo(Program[run[r].file], << >>, 0, ctx.loopAt, 0 + 1)
  BY <1>4, StartsTodo
<1>6. Checking(run'[r], ctx)
  BY <1>2, <1>3, <1>5 DEF Checking, ComesNext
<1> QED
  BY <1>1, <1>2, <1>3, <1>6, RealGoesOn

\* Leave: behind the last line everything is done.
LEMMA LeaveOrders ==
  ASSUME NEW r \in Runs, InOrder(r), Leave(r)
  PROVE  OrderOK(run'[r], ctx')
<1>1. run[r].pc = "check" /\ run \in Frames /\ ctx' = ctx
      /\ OrderOK(run[r], ctx)
  BY DEF Leave, At, InOrder, Before
<1>2. /\ run'[r].pc = "return" /\ run'[r].frame = run[r].frame
      /\ run'[r].file = run[r].file /\ run'[r].trace = run[r].trace
  BY <1>1, GotoIs DEF Leave, Stages
<1>3. CASE run[r].frame # "real"
  BY <1>1, <1>2, <1>3, TrialGoesOn
<1>4. CASE run[r].frame = "real"
  <2> DEFINE p == Program[run[r].file]
             i == run[r].line + 1
  <2>1. Checking(run[r], ctx) /\ ~ ctx.trial
    BY <1>1, <1>4 DEF OrderOK, RealOK
  <2>2. /\ WellFormed(p) /\ run[r].trace \in Seq(Int)
        /\ ctx.loopAt \in Int /\ run[r].line \in Int /\ i \in Int
    BY <1>1, CallIs
  <2>3. \/ Recorded(p, run[r].trace, ctx.loop, ctx.loopAt, i)
        \/ Todo(p, run[r].trace, ctx.loop, ctx.loopAt, i)
    BY <2>1 DEF Checking, LineDone, ComesNext
  <2>4. ctx.stop \/ i \notin 1 .. Len(p)
    <3>1. CASE ctx.stop
      BY <3>1
    <3>2. CASE ~ InRange(r)
      <4>1. Len(p) \in Nat
        BY <2>2 DEF WellFormed
      <4>2. run[r].line \notin 0 .. Len(p) - 1
        BY <3>2 DEF InRange
      <4> QED
        BY <2>2, <4>1, <4>2
    <3> QED
      BY <3>1, <3>2 DEF Leave
  <2> HIDE DEF p, i
  <2>5. Prefix(run[r].trace, Whole(p))
    BY <2>2, <2>3, RecordedPrefix, TodoPrefix
  <2>6. ctx.stop \/ run[r].trace = Whole(p)
    <3>1. Recorded(p, run[r].trace, ctx.loop, ctx.loopAt, i)
             => i \in 1 .. Len(p)
      BY DEF Recorded
    <3> QED
      BY <2>2, <2>3, <2>4, <3>1, TodoEnds
  <2>7. Returning(run'[r], ctx)
    BY <1>2, <2>5, <2>6 DEF Returning, AllDone, p
  <2> QED
    BY <1>1, <1>2, <1>4, <2>1, <2>7, RealGoesOn
<1> QED
  BY <1>3, <1>4

\* Check: the line that comes next, or the one before it again, is recorded.
LEMMA CheckOrders ==
  ASSUME NEW r \in Runs, InOrder(r), Check(r)
  PROVE  OrderOK(run'[r], ctx')
<1> DEFINE p == Program[run[r].file]
           i == run[r].line + 1
           t == IF Marked(p[i]) THEN Append1(run[r].trace, i - 1)
                                ELSE run[r].trace
<1>1. /\ run[r].pc = "check" /\ run \in Frames /\ OrderOK(run[r], ctx)
      /\ ctx \in Context
  BY DEF Check, At, InOrder, Before
<1>2. /\ WellFormed(p) /\ run[r].trace \in Seq(Int) /\ run[r] \in RunRecords
      /\ ctx.loopAt \in Int /\ run[r].line \in Int /\ Line(r) = p[i]
  BY <1>1, CallIs
<1>3. i - 1 = run[r].line
  BY <1>2
<1>4. /\ run'[r].pc = "handle" /\ run'[r].frame = run[r].frame
      /\ run'[r].file = run[r].file /\ run'[r].line = run[r].line
      /\ run'[r].child = FALSE
      /\ run'[r].trace = IF run[r].frame = "real" THEN t ELSE run[r].trace
  <2>1. run' = [run EXCEPT ![r].pc = "handle", ![r].child = FALSE,
                  ![r].trace = IF run[r].frame = "real" /\ Marked(Line(r))
                               THEN Append1(@, run[r].line) ELSE @]
    BY DEF Check
  <2> HIDE DEF p, i
  <2> QED
    BY <1>1, <1>2, <1>3, <2>1 DEF Frames, RunRecords
<1>5. /\ ctx'.cur = run[r].line /\ ctx'.next = ctx.next
      /\ ctx'.loop = ctx.loop /\ ctx'.loopAt = ctx.loopAt
      /\ ctx'.trial = ctx.trial
  BY <1>1 DEF Check, Context
<1>6. CASE run[r].frame # "real"
  BY <1>1, <1>4, <1>6, TrialGoesOn
<1>7. CASE run[r].frame = "real"
  <2>1. Checking(run[r], ctx) /\ ~ ctx.trial
    BY <1>1, <1>7 DEF OrderOK, RealOK
  <2>2. \/ Recorded(p, run[r].trace, ctx.loop, ctx.loopAt, i)
        \/ Todo(p, run[r].trace, ctx.loop, ctx.loopAt, i)
    BY <2>1 DEF Checking, LineDone, ComesNext
  <2>3. i \in 1 .. Len(p)
    <3>1. run[r].line \in 0 .. Len(p) - 1
      BY DEF Check, InRange
    <3>2. Len(p) \in Nat
      BY <1>2 DEF WellFormed
    <3> QED
      BY <1>2, <3>1, <3>2
  <2> HIDE DEF p, i
  <2>4. Recorded(p, t, ctx.loop, ctx.loopAt, i)
    BY <1>2, <2>2, <2>3, RecordsFirst, RecordsOnce
  <2> HIDE DEF t
  <2>5. LineDone(run'[r], ctx')
    BY <1>4, <1>5, <1>7, <2>4 DEF LineDone, p, i
  <2>6. Handling(run'[r], ctx')
    BY <1>4, <1>5, <2>1, <2>5 DEF Handling, Checking
  <2> QED
    BY <1>4, <1>5, <1>7, <2>1, <2>6, RealGoesOn
<1> QED
  BY <1>6, <1>7

\* What MoveNextLine changes, ...
LEMMA MoveNextLineIs ==
  ASSUME NEW c \in Context
  PROVE  /\ MoveNextLine(c).cur = c.cur /\ MoveNextLine(c).loop = c.loop
         /\ MoveNextLine(c).loopAt = c.loopAt /\ MoveNextLine(c).err = c.err
         /\ MoveNextLine(c).stop = c.stop /\ MoveNextLine(c).trial = c.trial
         /\ MoveNextLine(c).next \in {c.next, c.cur + 1}
  BY DEF MoveNextLine, Context

\* ... and the end of a division.
LEMMA DivideEndsIs ==
  ASSUME NEW c \in Context
  PROVE  /\ DivideEnds(c).cur = c.cur
         /\ DivideEnds(c).loop = IF c.stop THEN c.loop ELSE 0
         /\ DivideEnds(c).loopAt = c.loopAt /\ DivideEnds(c).err = c.err
         /\ DivideEnds(c).stop = c.stop /\ DivideEnds(c).trial = c.trial
         /\ DivideEnds(c).next \in {c.next, c.cur + 1}
<1> DEFINE e == [c EXCEPT !.loop = 0, !.loopCtr = 0]
<1>1. e \in Context
  <2>1. [c EXCEPT !.loop = 0] \in Context
    BY PutContext
  <2> QED
    BY <2>1, PutContext
<1>2. /\ e.cur = c.cur /\ e.loop = 0 /\ e.loopAt = c.loopAt /\ e.err = c.err
      /\ e.stop = c.stop /\ e.trial = c.trial /\ e.next = c.next
  BY DEF Context
<1> HIDE DEF e
<1>3. DivideEnds(c) = MoveNextLine(IF c.stop THEN c ELSE e)
  BY DEF DivideEnds, e
<1> QED
  BY <1>1, <1>2, <1>3, MoveNextLineIs

\* A handler of a line that does not branch, ...
LEMMA HandlingPlain ==
  ASSUME NEW r \in Runs, InOrder(r), run[r].pc = "handle",
         Handling(run[r], ctx), OpOf(run[r]) \notin Flow
  PROVE  /\ OnPlain(run[r], ctx)
         /\ OpOf(run[r]) = "divide" => ctx.loop = 0
<1> DEFINE p == Program[run[r].file]
           i == run[r].line + 1
<1>1. /\ WellFormed(p) /\ run[r].trace \in Seq(Int) /\ ctx.loopAt \in Int
      /\ LineOf(run[r]) = p[i]
  BY CallIs
<1>2. LineOf(run[r]).op \notin Flow
  BY DEF Handling, OpOf
<1>3. Recorded(p, run[r].trace, ctx.loop, ctx.loopAt, i)
  BY DEF Handling, LineDone
<1> HIDE DEF p, i
<1>4. "divide" \in {p[i].op, p[i].child} => ctx.loop = 0
  BY <1>1, <1>2, <1>3, PlainDone
<1>5. OpOf(run[r]) = "divide" => ctx.loop = 0
  BY <1>1, <1>4 DEF OpOf
<1> QED
  BY <1>2, <1>3, <1>5 DEF OnPlain, Handling, p, i

\* ... and of one that does, which is never behind another command.
LEMMA HandlingFlow ==
  ASSUME NEW r \in Runs, InOrder(r), run[r].pc = "handle",
         Handling(run[r], ctx), OpOf(run[r]) \in Flow
  PROVE  /\ LineOf(run[r]).op = OpOf(run[r])
         /\ ctx.next = run[r].line
<1>1. LineOf(run[r]).child \notin Flow
  BY OnLineIs DEF OnLine
<1> QED
  BY <1>1 DEF Handling, OpOf

\* HandleDivide: no loop is in progress, so that LoopCount becomes Pn.
LEMMA HandleDivideOrders ==
  ASSUME NEW r \in Runs, InOrder(r), HandleDivide(r)
  PROVE  OrderOK(run'[r], ctx')
<1>1. /\ run[r].pc = "handle" /\ run \in Frames /\ OrderOK(run[r], ctx)
      /\ ctx \in Context
  BY DEF HandleDivide, At, InOrder, Before
<1>2. /\ run[r] \in RunRecords /\ Line(r) = LineOf(run[r])
      /\ OpOf(run[r]) = "divide" /\ ctx.loop \in Int
  BY <1>1, CallIs DEF HandleDivide
<1>3. LineOf(run[r]).n \in Nat
  BY <1>1, OnLineIs DEF OnLine, Command
<1> DEFINE e == DivideBegins(Line(r), ctx)
<1>4. ctx' = e /\ run' = [run EXCEPT ![r].pc = "segment", ![r].seg = e.loopCtr]
  BY DEF HandleDivide
<1>5. /\ e.cur = ctx.cur /\ e.next = ctx.next /\ e.loopAt = ctx.loopAt
      /\ e.err = ctx.err /\ e.trial = ctx.trial
      /\ ctx.loop = 0 => e.loop = LineOf(run[r]).n /\ e.loopCtr = 0
  BY <1>1, <1>2 DEF DivideBegins, Context
<1> HIDE DEF e
<1>6. /\ run'[r].pc = "segment" /\ run'[r].frame = run[r].frame
      /\ run'[r].file = run[r].file /\ run'[r].line = run[r].line
      /\ run'[r].child = run[r].child /\ run'[r].trace = run[r].trace
      /\ run'[r].seg = e.loopCtr
  BY <1>1, <1>2, <1>4 DEF Frames, RunRecords
<1>7. CASE run[r].frame # "real"
  BY <1>1, <1>6, <1>7, TrialGoesOn
<1>8. CASE run[r].frame = "real"
  <2>1. Handling(run[r], ctx) /\ ~ ctx.trial
    BY <1>1, <1>8 DEF OrderOK, RealOK
  <2>2. OnPlain(run[r], ctx) /\ ctx.loop = 0
    BY <1>1, <1>2, <2>1, HandlingPlain DEF Flow
  <2>3. LineOf(run'[r]) = LineOf(run[r]) /\ OpOf(run'[r]) = OpOf(run[r])
    BY <1>6 DEF LineOf, OpOf
  <2>4. OnPlain(run'[r], ctx')
    BY <1>2, <1>4, <1>5, <1>6, <2>2, <2>3 DEF OnPlain
  <2>5. Moving(run'[r], ctx')
    BY <1>2, <1>3, <1>4, <1>5, <1>6, <2>2, <2>3, <2>4 DEF Moving
  <2>6. InSend(run'[r])
    BY <1>6 DEF InSend, Sending
  <2> QED
    BY <1>4, <1>5, <1>6, <1>8, <2>1, <2>5, <2>6, RealGoesOn
<1> QED
  BY <1>7, <1>8

\* HandleSending: the others leave the counters alone.
LEMMA HandleSendingOrders ==
  ASSUME NEW r \in Runs, InOrder(r), HandleSending(r)
  PROVE  OrderOK(run'[r], ctx')
<1>1. /\ run[r].pc = "handle" /\ run \in Frames /\ OrderOK(run[r], ctx)
      /\ ctx \in Context
  BY DEF HandleSending, At, InOrder, Before
<1>2. /\ run[r] \in RunRecords /\ CurrentOp(r) = OpOf(run[r])
      /\ OpOf(run[r]) # "divide" /\ DriverActions(OpOf(run[r])) # << >>
  BY <1>1, CallIs DEF HandleSending, SendsActions
<1>3. OpOf(run[r]) \notin Flow
  BY <1>2 DEF DriverActions, Flow
<1>4. /\ ctx' = SetRunMode(OpOf(run[r]), ctx)
      /\ run' = [run EXCEPT ![r].pc = "push",
                   ![r].todo = DriverActions(OpOf(run[r]))]
  BY <1>2 DEF HandleSending
<1>5. /\ ctx'.cur = ctx.cur /\ ctx'.next = ctx.next
      /\ ctx'.loopAt = ctx.loopAt /\ ctx'.loop = ctx.loop
      /\ ctx'.err = ctx.err /\ ctx'.trial = ctx.trial
      /\ ctx'.stop = ctx.stop
  BY <1>1, <1>4 DEF SetRunMode, Context
<1>6. /\ run'[r].pc = "push" /\ run'[r].frame = run[r].frame
      /\ run'[r].file = run[r].file /\ run'[r].line = run[r].line
      /\ run'[r].child = run[r].child /\ run'[r].trace = run[r].trace
      /\ run'[r].seg = run[r].seg
  BY <1>1, <1>2, <1>4 DEF Frames, RunRecords
<1>7. CASE run[r].frame # "real"
  BY <1>1, <1>6, <1>7, TrialGoesOn
<1>8. CASE run[r].frame = "real"
  <2>1. Handling(run[r], ctx) /\ ~ ctx.trial
    BY <1>1, <1>8 DEF OrderOK, RealOK
  <2>2. OnPlain(run[r], ctx)
    BY <1>1, <1>3, <2>1, HandlingPlain
  <2>3. Alike(run[r], run'[r], ctx, ctx')
    BY <1>5, <1>6 DEF Alike
  <2>4. OnPlain(run'[r], ctx') /\ OpOf(run'[r]) = OpOf(run[r])
    BY <2>2, <2>3, AlikeKeeps
  <2>5. Moving(run'[r], ctx')
    BY <1>2, <1>6, <2>4 DEF Moving, InDivide
  <2>6. InSend(run'[r])
    BY <1>6 DEF InSend, Sending
  <2> QED
    BY <1>5, <1>6, <1>8, <2>1, <2>5, <2>6, RealGoesOn
<1> QED
  BY <1>7, <1>8

\* NextSegment: no more segments than Pn.
LEMMA NextSegmentOrders ==
  ASSUME NEW r \in Runs, InOrder(r), NextSegment(r)
  PROVE  OrderOK(run'[r], ctx')
<1>1. /\ run[r].pc = "segment" /\ run \in Frames /\ OrderOK(run[r], ctx)
      /\ ctx \in Context
  BY DEF NextSegment, At, InOrder, Before
<1>2. /\ run[r] \in RunRecords /\ run[r].seg \in Nat /\ ctx.loop \in Int
      /\ run[r].seg < ctx.loop
  BY <1>1, CallIs DEF NextSegment, RunRecords
<1>3. /\ run'[r].pc = "push" /\ run'[r].frame = run[r].frame
      /\ run'[r].file = run[r].file /\ run'[r].line = run[r].line
      /\ run'[r].child = run[r].child /\ run'[r].trace = run[r].trace
      /\ run'[r].seg = run[r].seg + 1
  BY <1>1, <1>2 DEF NextSegment, Frames, RunRecords
<1>4. /\ ctx'.cur = ctx.cur /\ ctx'.next = ctx.next
      /\ ctx'.loopAt = ctx.loopAt /\ ctx'.loop = ctx.loop
      /\ ctx'.trial = ctx.trial
  BY <1>1 DEF NextSegment, Context
<1>5. CASE run[r].frame # "real"
  BY <1>1, <1>3, <1>5, TrialGoesOn
<1>6. CASE run[r].frame = "real"
  <2>1. Moving(run[r], ctx) /\ ~ ctx.trial
    BY <1>1, <1>6 DEF OrderOK, RealOK, InSend, Sending
  <2>2. LineOf(run'[r]) = LineOf(run[r]) /\ OpOf(run'[r]) = OpOf(run[r])
    BY <1>3 DEF LineOf, OpOf
  <2>3. OnPlain(run'[r], ctx')
    BY <1>3, <1>4, <2>1, <2>2 DEF OnPlain, Moving
  <2>4. LineOf(run[r]).n \in Nat
    BY <1>1, OnLineIs DEF OnLine, Command
  <2>5. Moving(run'[r], ctx')
    BY <1>2, <1>3, <1>4, <2>1, <2>2, <2>3, <2>4 DEF Moving, InDivide
  <2>6. InSend(run'[r])
    BY <1>3 DEF InSend, Sending
  <2> QED
    BY <1>3, <1>4, <1>6, <2>1, <2>5, <2>6, RealGoesOn
<1> QED
  BY <1>5, <1>6

\* DivideEnds, after the last segment or when the program is stopped.
LEMMA DivideOver ==
  ASSUME NEW r \in Runs, InOrder(r), InDivide(run[r]),
         run[r].frame = "real", run'[r].frame = "real",
         run'[r].pc = "handled", run'[r].file = run[r].file,
         run'[r].line = run[r].line, run'[r].child = run[r].child,
         run'[r].trace = run[r].trace, run'[r].seg = run[r].seg,
         ctx' = DivideEnds(ctx), ctx.stop \/ run[r].seg >= ctx.loop
  PROVE  OrderOK(run'[r], ctx')
<1>1. run[r].pc # "idle" /\ InSend(run[r]) /\ run[r].pc \in OnLine
  BY DEF InDivide, InSend, Sending, OnLine
<1>2. /\ OrderOK(run[r], ctx) /\ ctx \in Context /\ run[r] \in RunRecords
      /\ ctx.loop \in Int
  BY <1>1, CallIs
<1>3. Moving(run[r], ctx) /\ ~ ctx.trial
  BY <1>1, <1>2 DEF OrderOK, RealOK
<1>4. /\ OpOf(run[r]) = "divide" /\ OnPlain(run[r], ctx)
      /\ ctx.loop = LineOf(run[r]).n /\ run[r].seg <= LineOf(run[r]).n
  BY <1>3 DEF Moving
<1>5. /\ ctx'.cur = ctx.cur /\ ctx'.loop = (IF ctx.stop THEN ctx.loop ELSE 0)
      /\ ctx'.loopAt = ctx.loopAt /\ ctx'.err = ctx.err
      /\ ctx'.stop = ctx.stop /\ ctx'.trial = ctx.trial
      /\ ctx'.next \in {ctx.next, ctx.cur + 1}
  BY <1>2, DivideEndsIs
<1>6. LineOf(run'[r]) = LineOf(run[r]) /\ OpOf(run'[r]) = OpOf(run[r])
  BY DEF LineOf, OpOf
<1>7. OnPlain(run'[r], ctx')
  BY <1>4, <1>5, <1>6 DEF OnPlain
<1>8. run[r].seg \in Nat /\ LineOf(run[r]).n \in Nat
  BY <1>1, <1>2, OnLineIs DEF RunRecords, Command
<1>9. ctx.stop \/ run[r].seg = LineOf(run[r]).n
  BY <1>4, <1>8
<1>10. Handled(run'[r], ctx')
  BY <1>4, <1>5, <1>6, <1>7, <1>9 DEF Handled
<1>11. InLine(run'[r])
  BY DEF InLine
<1> QED
  BY <1>3, <1>5, <1>10, <1>11, RealGoesOn

\* NoMoreSegments: LoopCount is cleared when all the moves were made.
LEMMA NoMoreSegmentsOrders ==
  ASSUME NEW r \in Runs, InOrder(r), NoMoreSegments(r)
  PROVE  OrderOK(run'[r], ctx')
<1>1. /\ run[r].pc = "segment" /\ run \in Frames /\ OrderOK(run[r], ctx)
      /\ Goto(r, "handled") /\ ctx' = DivideEnds(ctx)
      /\ run[r].seg >= ctx.loop
  BY DEF NoMoreSegments, At, InOrder, Before
<1>2. /\ run'[r].pc = "handled" /\ run'[r].frame = run[r].frame
      /\ run'[r].file = run[r].file /\ run'[r].line = run[r].line
      /\ run'[r].child = run[r].child /\ run'[r].seg = run[r].seg
      /\ run'[r].trace = run[r].trace
  BY <1>1, GotoIs DEF Stages
<1>3. CASE run[r].frame # "real"
  BY <1>1, <1>2, <1>3, TrialGoesOn
<1>4. CASE run[r].frame = "real"
  <2>1. InDivide(run[r])
    BY <1>1 DEF InDivide
  <2> QED
    BY <1>1, <1>2, <1>4, <2>1, DivideOver
<1> QED
  BY <1>3, <1>4

\* A step that leaves the context and the line as they are.
LEMMA SameLine ==
  ASSUME NEW r \in Runs, InOrder(r), run[r].pc # "idle",
         run'[r].frame = run[r].frame,
         run'[r].file = run[r].file, run'[r].line = run[r].line,
         run'[r].child = run[r].child, run'[r].seg = run[r].seg,
         run'[r].trace = run[r].trace, ctx' = ctx,
         \/ InSend(run[r]) /\ InSend(run'[r])
         \/ InLine(run[r]) /\ InLine(run'[r]),
         InDivide(run'[r]) => InDivide(run[r]) \/ OpOf(run[r]) = "divide"
  PROVE  OrderOK(run'[r], ctx')
<1>1. Alike(run[r], run'[r], ctx, ctx')
  BY DEF Alike
<1>2. OrderOK(run[r], ctx)
  BY DEF InOrder
<1> QED
  BY <1>1, <1>2, SameStage

\* PushAction and the three steps of WaitTillCmdComplete.
LEMMA PushActionOrders ==
  ASSUME NEW r \in Runs, InOrder(r), PushAction(r)
  PROVE  OrderOK(run'[r], ctx')
<1>1. run[r].pc = "push" /\ run \in Frames /\ ctx' = ctx
  BY DEF PushAction, At, InOrder, Before
<1>2. run[r] \in RunRecords
  BY <1>1 DEF Frames
<1>3. /\ run'[r].pc \in {"wait", "push"} /\ run'[r].frame = run[r].frame
      /\ run'[r].file = run[r].file /\ run'[r].line = run[r].line
      /\ run'[r].child = run[r].child /\ run'[r].seg = run[r].seg
      /\ run'[r].trace = run[r].trace
  BY <1>1, <1>2 DEF PushAction, Frames, RunRecords
<1>4. InSend(run[r]) /\ InSend(run'[r]) /\ ~ InDivide(run'[r])
  BY <1>1, <1>3 DEF InSend, InDivide, Sending
<1> QED
  BY <1>1, <1>3, <1>4, SameLine

\* The three steps of WaitTillCmdComplete change the stage only.
LEMMA WaitOrders ==
  ASSUME NEW r \in Runs, InOrder(r),
         WaitTest(r) \/ WaitReceive(r) \/ WaitShut(r)
  PROVE  OrderOK(run'[r], ctx')
<1>1. /\ run[r].pc \in {"wait", "receive", "shut"} /\ run \in Frames
      /\ ctx' = ctx
      /\ \E v \in {"receive", "shut", "acted"} : Goto(r, v)
  BY DEF WaitTest, WaitReceive, WaitShut, At, InOrder, Before
<1>2. /\ run'[r].pc \in {"receive", "shut", "acted"}
      /\ run'[r].frame = run[r].frame
      /\ run'[r].file = run[r].file /\ run'[r].line = run[r].line
      /\ run'[r].child = run[r].child /\ run'[r].seg = run[r].seg
      /\ run'[r].trace = run[r].trace
  BY <1>1, GotoIs DEF Stages
<1>3. InSend(run[r]) /\ InSend(run'[r]) /\ ~ InDivide(run'[r])
  BY <1>1, <1>2 DEF InSend, InDivide, Sending
<1> QED
  BY <1>1, <1>2, <1>3, SameLine

\* SingleShut: back to where WaitExecuteNextCommand was called.
LEMMA SingleShutOrders ==
  ASSUME NEW r \in Runs, InOrder(r), SingleShut(r)
  PROVE  OrderOK(run'[r], ctx')
<1>1. /\ run[r].pc = "singleshut" /\ run \in Frames /\ ctx' = ctx
      /\ Goto(r, run[r].back)
  BY DEF SingleShut, At, InOrder, Before
<1>2. run[r].back \in {"aftersegment", "executed", "stopcheck"}
  BY <1>1, CallIs DEF FrameOK
<1>3. /\ run'[r].pc = run[r].back /\ run'[r].frame = run[r].frame
      /\ run'[r].file = run[r].file /\ run'[r].line = run[r].line
      /\ run'[r].child = run[r].child /\ run'[r].seg = run[r].seg
      /\ run'[r].trace = run[r].trace
  BY <1>1, <1>2, GotoIs DEF Stages
<1>4. \/ InSend(run[r]) /\ InSend(run'[r])
      \/ InLine(run[r]) /\ InLine(run'[r])
  BY <1>1, <1>2, <1>3 DEF InSend, InLine, Sending
<1>5. InDivide(run'[r]) => InDivide(run[r])
  BY <1>1, <1>2, <1>3 DEF InDivide
<1> QED
  BY <1>1, <1>3, <1>4, <1>5, SameLine

\* Finished: MoveNextLine, or nothing while the ECS signal is waited for.
LEMMA FinishedOrders ==
  ASSUME NEW r \in Runs, InOrder(r), Finished(r)
  PROVE  OrderOK(run'[r], ctx')
<1>1. /\ run[r].pc = "acted" /\ run \in Frames /\ OrderOK(run[r], ctx)
      /\ ctx \in Context /\ Goto(r, "handled")
      /\ ctx' = ctx \/ ctx' = MoveNextLine(ctx)
  BY DEF Finished, At, InOrder, Before
<1>2. OpOf(run[r]) # "divide"
  BY <1>1, CallIs DEF Finished
<1>3. /\ run'[r].pc = "handled" /\ run'[r].frame = run[r].frame
      /\ run'[r].file = run[r].file /\ run'[r].line = run[r].line
      /\ run'[r].child = run[r].child /\ run'[r].seg = run[r].seg
      /\ run'[r].trace = run[r].trace
  BY <1>1, GotoIs DEF Stages
<1>4. /\ ctx'.cur = ctx.cur /\ ctx'.loop = ctx.loop
      /\ ctx'.loopAt = ctx.loopAt /\ ctx'.trial = ctx.trial
      /\ ctx'.next \in {ctx.next, ctx.cur + 1}
  BY <1>1, MoveNextLineIs
<1>5. CASE run[r].frame # "real"
  BY <1>1, <1>3, <1>5, TrialGoesOn
<1>6. CASE run[r].frame = "real"
  <2>1. OnPlain(run[r], ctx) /\ ~ ctx.trial
    BY <1>1, <1>6 DEF OrderOK, RealOK, InSend, Sending, Moving
  <2>2. LineOf(run'[r]) = LineOf(run[r]) /\ OpOf(run'[r]) = OpOf(run[r])
    BY <1>3 DEF LineOf, OpOf
  <2>3. OnPlain(run'[r], ctx')
    BY <1>3, <1>4, <2>1, <2>2 DEF OnPlain
  <2>4. Handled(run'[r], ctx') /\ InLine(run'[r])
    BY <1>2, <1>3, <2>2, <2>3 DEF Handled, InLine
  <2> QED
    BY <1>3, <1>4, <1>6, <2>1, <2>4, RealGoesOn
<1> QED
  BY <1>5, <1>6

\* SegmentFinished: on to the next segment, in single block mode later.
LEMMA SegmentFinishedOrders ==
  ASSUME NEW r \in Runs, InOrder(r), SegmentFinished(r)
  PROVE  OrderOK(run'[r], ctx')
<1>1. /\ run[r].pc = "acted" /\ run \in Frames /\ ctx' = ctx
      /\ \/ WaitExecuteNextCommand(r, "aftersegment")
         \/ Goto(r, "aftersegment")
  BY DEF SegmentFinished, At, InOrder, Before, ContinueAt
<1>2. OpOf(run[r]) = "divide"
  BY <1>1, CallIs DEF SegmentFinished
<1>3. /\ \/ run'[r].pc = "aftersegment"
         \/ run'[r].pc = "single" /\ run'[r].back = "aftersegment"
      /\ run'[r].frame = run[r].frame
      /\ run'[r].file = run[r].file /\ run'[r].line = run[r].line
      /\ run'[r].child = run[r].child /\ run'[r].seg = run[r].seg
      /\ run'[r].trace = run[r].trace
  BY <1>1, GotoIs, WaitIs DEF Stages
<1>4. InSend(run[r]) /\ InSend(run'[r])
  BY <1>1, <1>3 DEF InSend, Sending
<1> QED
  BY <1>1, <1>2, <1>3, <1>4, SameLine

\* AfterSegment: a stop that was heard leaves the segments that are left.
LEMMA AfterSegmentOrders ==
  ASSUME NEW r \in Runs, InOrder(r), AfterSegment(r)
  PROVE  OrderOK(run'[r], ctx')
<1>1. /\ run[r].pc = "aftersegment" /\ run \in Frames
      /\ OrderOK(run[r], ctx)
      /\ \/ ctx.stop /\ ctx' = DivideEnds(ctx) /\ Goto(r, "handled")
         \/ ctx' = ctx /\ Goto(r, "segment")
  BY DEF AfterSegment, At, InOrder, Before
<1>2. /\ run'[r].pc \in {"handled", "segment"}
      /\ run'[r].frame = run[r].frame
      /\ run'[r].file = run[r].file /\ run'[r].line = run[r].line
      /\ run'[r].child = run[r].child /\ run'[r].seg = run[r].seg
      /\ run'[r].trace = run[r].trace
  BY <1>1, GotoIs DEF Stages
<1>3. InDivide(run[r])
  BY <1>1 DEF InDivide
<1>4. CASE ctx' = ctx /\ Goto(r, "segment")
  <2>1. run'[r].pc = "segment"
    BY <1>1, <1>4, GotoIs DEF Stages
  <2>2. InSend(run[r]) /\ InSend(run'[r])
    BY <1>1, <2>1 DEF InSend, Sending
  <2> QED
    BY <1>1, <1>2, <1>3, <1>4, <2>2, SameLine
<1>5. CASE ctx.stop /\ ctx' = DivideEnds(ctx) /\ Goto(r, "handled")
  <2>1. run'[r].pc = "handled"
    BY <1>1, <1>5, GotoIs DEF Stages
  <2>2. CASE run[r].frame # "real"
    BY <1>1, <1>2, <2>1, <2>2, TrialGoesOn
  <2>3. CASE run[r].frame = "real"
    BY <1>2, <1>3, <1>5, <2>1, <2>3, DivideOver
  <2> QED
    BY <2>2, <2>3
<1> QED
  BY <1>1, <1>4, <1>5

\* ChildCommand: the command behind G01 or G53 to G58 has the line to itself.
LEMMA ChildCommandOrders ==
  ASSUME NEW r \in Runs, InOrder(r), ChildCommand(r)
  PROVE  OrderOK(run'[r], ctx')
<1>1. /\ run[r].pc = "handled" /\ run \in Frames /\ OrderOK(run[r], ctx)
      /\ ctx' = ctx
  BY DEF ChildCommand, At, InOrder, Before
<1>2. InLine(run[r]) /\ run[r] \in RunRecords /\ Line(r) = LineOf(run[r])
  BY <1>1, CallIs DEF InLine
<1>3. CASE WaitExecuteNextCommand(r, "executed") \/ Goto(r, "executed")
  <2>1. /\ \/ run'[r].pc = "executed"
           \/ run'[r].pc = "single" /\ run'[r].back = "executed"
        /\ run'[r].frame = run[r].frame
        /\ run'[r].file = run[r].file /\ run'[r].line = run[r].line
        /\ run'[r].child = run[r].child /\ run'[r].seg = run[r].seg
        /\ run'[r].trace = run[r].trace
    BY <1>1, <1>3, GotoIs, WaitIs DEF Stages
  <2>2. InLine(run'[r]) /\ ~ InDivide(run'[r])
    BY <2>1 DEF InLine, InDivide
  <2> QED
    BY <1>1, <1>2, <2>1, <2>2, SameLine
<1>4. CASE /\ Inline(r)
           /\ run' = [run EXCEPT ![r].pc = "handle", ![r].child = TRUE]
  <2>1. /\ run'[r].pc = "handle" /\ run'[r].frame = run[r].frame
        /\ run'[r].file = run[r].file /\ run'[r].line = run[r].line
        /\ run'[r].child = TRUE /\ run'[r].trace = run[r].trace
    BY <1>1, <1>2, <1>4 DEF Frames, RunRecords
  <2>2. CASE run[r].frame # "real"
    BY <1>1, <2>1, <2>2, TrialGoesOn
  <2>3. CASE run[r].frame = "real"
    <3>1. Handled(run[r], ctx) /\ ~ ctx.trial
      BY <1>1, <1>2, <2>3 DEF OrderOK, RealOK
    <3>2. ~ run[r].child /\ LineOf(run[r]).op \in {"offset", "linear"}
      BY <1>2, <1>4 DEF Inline
    <3>3. LineOf(run[r]).op \notin Flow /\ OpOf(run[r]) # "divide"
      BY <3>2 DEF Flow, OpOf
    <3>4. OnPlain(run[r], ctx)
      BY <3>1, <3>3 DEF Handled
    <3>5. LineDone(run'[r], ctx)
      BY <2>1, <3>3, <3>4 DEF OnPlain, LineDone
    <3>6. LineOf(run'[r]) = LineOf(run[r])
      BY <2>1 DEF LineOf
    <3>7. Handling(run'[r], ctx)
      BY <2>1, <3>3, <3>4, <3>5, <3>6 DEF Handling, OnPlain
    <3> QED
      BY <1>1, <2>1, <2>3, <3>1, <3>7, RealGoesOn
  <2> QED
    BY <2>2, <2>3
<1> QED
  BY <1>3, <1>4 DEF ChildCommand, ContinueAt

\* BlockWait changes only the line a stop will resume at.
LEMMA BlockWaitOrders ==
  ASSUME NEW r \in Runs, InOrder(r), BlockWait(r)
  PROVE  OrderOK(run'[r], ctx')
<1>1. /\ run[r].pc \in {"executed", "handled"} /\ run \in Frames
      /\ OrderOK(run[r], ctx) /\ ctx \in Context
      /\ WaitExecuteNextCommand(r, "stopcheck") \/ Goto(r, "stopcheck")
      /\ ctx' = ctx \/ ctx' = [ctx EXCEPT !.resume = run[r].line + 1]
  BY DEF BlockWait, At, InOrder, Before, ContinueAt
<1>2. /\ \/ run'[r].pc = "stopcheck"
         \/ run'[r].pc = "single" /\ run'[r].back = "stopcheck"
      /\ run'[r].frame = run[r].frame
      /\ run'[r].file = run[r].file /\ run'[r].line = run[r].line
      /\ run'[r].child = run[r].child /\ run'[r].seg = run[r].seg
      /\ run'[r].trace = run[r].trace
  BY <1>1, GotoIs, WaitIs DEF Stages
<1>3. /\ ctx'.cur = ctx.cur /\ ctx'.next = ctx.next
      /\ ctx'.loop = ctx.loop /\ ctx'.loopAt = ctx.loopAt
      /\ ctx'.err = ctx.err /\ ctx'.stop = ctx.stop
      /\ ctx'.trial = ctx.trial
  BY <1>1 DEF Context
<1>4. Alike(run[r], run'[r], ctx, ctx')
  BY <1>2, <1>3 DEF Alike
<1>5. InLine(run[r]) /\ InLine(run'[r]) /\ ~ InDivide(run'[r])
  BY <1>1, <1>2 DEF InLine, InDivide
<1> QED
  BY <1>1, <1>2, <1>3, <1>4, <1>5, SameStage

\* HandlerFailed: Err is set.
LEMMA HandlerFailedOrders ==
  ASSUME NEW r \in Runs, InOrder(r), HandlerFailed(r)
  PROVE  OrderOK(run'[r], ctx')
<1>1. /\ run[r].pc = "handled" /\ run \in Frames /\ OrderOK(run[r], ctx)
      /\ ctx' = ctx /\ ctx.err
  BY DEF HandlerFailed, At, InOrder, Before
<1>2. /\ run'[r].pc = "fail" /\ run'[r].frame = run[r].frame
      /\ run'[r].file = run[r].file /\ run'[r].trace = run[r].trace
  BY <1>1, GotoIs DEF HandlerFailed, Stages
<1>3. CASE run[r].frame # "real"
  BY <1>1, <1>2, <1>3, TrialGoesOn
<1>4. CASE run[r].frame = "real"
  <2>1. Handled(run[r], ctx) /\ ~ ctx.trial
    BY <1>1, <1>4 DEF OrderOK, RealOK, InLine
  <2>2. Prefix(run[r].trace, Whole(Program[run[r].file]))
    BY <1>1, <2>1, HandledPrefix
  <2>3. Returning(run'[r], ctx')
    BY <1>1, <1>2, <2>2 DEF Returning
  <2> QED
    BY <1>1, <1>2, <1>4, <2>1, <2>3, RealGoesOn
<1> QED
  BY <1>3, <1>4

\* StopHere: what was executed so far is a beginning of the whole.
LEMMA StopHereOrders ==
  ASSUME NEW r \in Runs, InOrder(r), StopHere(r)
  PROVE  OrderOK(run'[r], ctx')
<1>1. /\ run[r].pc = "stopcheck" /\ run \in Frames /\ OrderOK(run[r], ctx)
      /\ ctx \in Context /\ ctx.stop
      /\ ctx' = [ctx EXCEPT !.resume = ResumeLine(ctx, run[r].line)]
  BY DEF StopHere, At, InOrder, Before
<1>2. /\ run'[r].pc = "return" /\ run'[r].frame = run[r].frame
      /\ run'[r].file = run[r].file /\ run'[r].trace = run[r].trace
  BY <1>1, GotoIs DEF StopHere, Stages
<1>3. ctx'.stop /\ ctx'.trial = ctx.trial
  BY <1>1 DEF Context
<1>4. CASE run[r].frame # "real"
  BY <1>1, <1>2, <1>4, TrialGoesOn
<1>5. CASE run[r].frame = "real"
  <2>1. Handled(run[r], ctx) /\ ~ ctx.trial
    BY <1>1, <1>5 DEF OrderOK, RealOK, InLine
  <2>2. Prefix(run[r].trace, Whole(Program[run[r].file]))
    BY <1>1, <2>1, HandledPrefix
  <2>3. Returning(run'[r], ctx')
    BY <1>2, <1>3, <2>2 DEF Returning
  <2> QED
    BY <1>2, <1>3, <1>5, <2>1, <2>3, RealGoesOn
<1> QED
  BY <1>4, <1>5

\* Recurse: NextCmdLineToExec is the line that comes next, or the same again.
LEMMA RecurseOrders ==
  ASSUME NEW r \in Runs, InOrder(r), Recurse(r)
  PROVE  OrderOK(run'[r], ctx')
<1> DEFINE p == Program[run[r].file]
           i == run[r].line + 1
           t == run[r].trace
<1>1. /\ run[r].pc = "stopcheck" /\ run \in Frames /\ OrderOK(run[r], ctx)
      /\ ctx' = ctx /\ ~ ctx.stop
      /\ Execute(r, run[r].frame, ctx.next)
  BY DEF Recurse, At, InOrder, Before
<1>2. /\ run'[r].pc = "check" /\ run'[r].frame = run[r].frame
      /\ run'[r].line = ctx.next
      /\ run'[r].file = run[r].file /\ run'[r].trace = run[r].trace
  BY <1>1, ExecuteIs
<1>3. CASE run[r].frame # "real"
  BY <1>1, <1>2, <1>3, TrialGoesOn
<1>4. CASE run[r].frame = "real"
  <2>1. Handled(run[r], ctx) /\ ~ ctx.trial
    BY <1>1, <1>4 DEF OrderOK, RealOK, InLine
  <2>2. /\ WellFormed(p) /\ t \in Seq(Int) /\ ctx.loopAt \in Int
        /\ LineOf(run[r]) = p[i]
    BY <1>1, CallIs
  <2>3. CASE OnPlain(run[r], ctx) /\ (OpOf(run[r]) = "divide" => ctx.loop = 0)
    <3>1. Recorded(p, t, ctx.loop, ctx.loopAt, i) /\ p[i].op \notin Flow
      BY <2>2, <2>3 DEF OnPlain
    <3>2. ASSUME ctx.next = run[r].line
          PROVE  Checking(run'[r], ctx')
      <4>1. LineDone(run'[r], ctx)
        BY <1>2, <3>1, <3>2 DEF LineDone
      <4> QED
        BY <1>1, <1>2, <4>1 DEF Checking
    <3>3. ASSUME ctx.next = run[r].line + 1
          PROVE  Checking(run'[r], ctx')
      <4> HIDE DEF p, t, i
      <4>1. Todo(p, t, ctx.loop, ctx.loopAt, i + 1)
        BY <2>2, <3>1, PlainDone
      <4>2. ComesNext(run'[r], ctx, ctx.next)
        BY <1>2, <3>3, <4>1 DEF ComesNext, p, t, i
      <4> QED
        BY <1>1, <1>2, <4>2 DEF Checking
    <3>4. Checking(run'[r], ctx')
      BY <2>3, <3>2, <3>3 DEF OnPlain
    <3> QED
      BY <1>1, <1>2, <1>4, <2>1, <3>4, RealGoesOn
  <2>4. CASE \/ ctx.next = run[r].line /\ LineDone(run[r], ctx)
             \/ ComesNext(run[r], ctx, ctx.next)
    <3>1. Checking(run'[r], ctx')
      BY <1>1, <1>2, <2>4 DEF Checking, LineDone, ComesNext
    <3> QED
      BY <1>1, <1>2, <1>4, <2>1, <3>1, RealGoesOn
  <2> QED
    BY <1>1, <2>1, <2>3, <2>4 DEF Handled
<1> QED
  BY <1>3, <1>4

\* TrialReturns: the context is that of a program not yet begun.
LEMMA TrialReturnsOrders ==
  ASSUME NEW r \in Runs, InOrder(r), TrialReturns(r)
  PROVE  OrderOK(run'[r], ctx')
<1> DEFINE e == [ctx EXCEPT !.trial = FALSE]
<1>1. /\ run[r].pc = "return" /\ run[r].frame = "trial" /\ run \in Frames
      /\ OrderOK(run[r], ctx) /\ ctx \in Context /\ ctx' = Reset(e)
  BY DEF TrialReturns, At, InOrder, Before
<1>2. e \in Context /\ e.trial = FALSE
  <2>1. e \in Context
    BY <1>1, PutContext
  <2> QED
    BY <1>1, <2>1 DEF Context
<1> HIDE DEF e
<1>3. /\ ctx'.resume = 0 /\ ctx'.loop = 0 /\ ctx'.next = 0
      /\ ctx'.trial = FALSE
  BY <1>1, <1>2, ResetIs
<1>4. /\ run'[r].pc = "launch" /\ run'[r].frame = run[r].frame
      /\ run'[r].trace = run[r].trace
  BY <1>1, GotoIs DEF TrialReturns, Stages
<1> QED
  BY <1>1, <1>3, <1>4 DEF OrderOK

\* TrialFails, Stopped and Complete end the call.
LEMMA EndsOrder ==
  ASSUME NEW r \in Runs, InOrder(r),
         TrialFails(r) \/ Stopped(r) \/ Complete(r)
  PROVE  OrderOK(run'[r], ctx')
<1>1. run \in Frames /\ run[r] \in RunRecords
  BY DEF InOrder, Before, Frames
<1>2. \E t \in Seq(Int) : run'[r] = [Idle EXCEPT !.trace = t]
  <2>1. Idle = [Idle EXCEPT !.trace = << >>] /\ << >> \in Seq(Int)
    BY DEF Idle
  <2>2. run[r].trace \in Seq(Int)
    BY <1>1 DEF RunRecords
  <2>3. run'[r] = Idle \/ run'[r] = [Idle EXCEPT !.trace = run[r].trace]
    BY <1>1 DEF TrialFails, Stopped, Complete, Frames
  <2> QED
    BY <2>1, <2>2, <2>3
<1>3. run'[r].pc = "idle" /\ run'[r].frame = "none"
  BY <1>2 DEF Idle
<1> QED
  BY <1>3 DEF OrderOK

\* Completes: all was done, or a line failed.
LEMMA CompletesOrders ==
  ASSUME NEW r \in Runs, InOrder(r), Completes(r)
  PROVE  OrderOK(run'[r], ctx')
<1>1. /\ run[r].pc \in {"return", "fail"} /\ run[r].frame = "real"
      /\ run \in Frames /\ OrderOK(run[r], ctx) /\ ctx' = ctx /\ ~ ctx.stop
  BY DEF Completes, At, InOrder, Before
<1>2. /\ run'[r].pc = "complete" /\ run'[r].frame = run[r].frame
      /\ run'[r].file = run[r].file /\ run'[r].trace = run[r].trace
  BY <1>1, GotoIs DEF Completes, Stages
<1>3. Returning(run[r], ctx) /\ ~ ctx.trial
  BY <1>1 DEF OrderOK, RealOK
<1>4. Returning(run'[r], ctx')
  BY <1>1, <1>2, <1>3 DEF Returning, AllDone
<1> QED
  BY <1>1, <1>2, <1>3, <1>4, RealGoesOn

\* A handler that sends nothing and does not branch.
LEMMA SilentPlain ==
  ASSUME NEW c \in Context, NEW cmd, NEW op, op \notin Flow,
         op = "divide" => ~ c.rel
  PROVE  LET d == HandleSilently(cmd, op, c)
         IN  /\ d.cur = c.cur /\ d.loop = c.loop /\ d.loopAt = c.loopAt
             /\ d.stop = c.stop /\ d.trial = c.trial
             /\ d.next \in {c.next, c.cur + 1}
             /\ op = "divide" => d.err
<1> DEFINE Good(d) == /\ d.cur = c.cur /\ d.loop = c.loop
                      /\ d.loopAt = c.loopAt
                      /\ d.stop = c.stop /\ d.trial = c.trial
                      /\ d.next \in {c.next, c.cur + 1}
           e(v) == [c EXCEPT !.err = v]
<1>1. \A v \in BOOLEAN : /\ e(v) \in Context /\ e(v).err = v /\ Good(e(v))
                         /\ e(v).next = c.next
  BY PutContext DEF Context
<1>2. \A v \in BOOLEAN : Good(MoveNextLine(e(v)))
  <2> SUFFICES ASSUME NEW v \in BOOLEAN PROVE Good(MoveNextLine(e(v)))
    OBVIOUS
  <2>1. e(v) \in Context /\ Good(e(v)) /\ e(v).next = c.next
    BY <1>1
  <2> HIDE DEF e
  <2> QED
    BY <2>1, MoveNextLineIs
<1>3. Good(MoveNextLine(SetRunMode(op, c)))
  <2> DEFINE s == SetRunMode(op, c)
  <2>1. s \in Context /\ Good(s) /\ s.next = c.next
    BY SetRunModeTyped DEF SetRunMode, Context
  <2> HIDE DEF s
  <2>2. Good(MoveNextLine(s))
    BY <2>1, MoveNextLineIs
  <2> QED
    BY <2>2 DEF s
<1>4. Good(c)
  OBVIOUS
<1> DEFINE d == HandleSilently(cmd, op, c)
<1>5. \/ d = e(TRUE) \/ d = c \/ d = MoveNextLine(e(FALSE))
      \/ d = MoveNextLine(e(TRUE)) \/ d = MoveNextLine(SetRunMode(op, c))
  BY DEF HandleSilently, Flow
<1>6. op = "divide" => d = e(TRUE)
  BY DEF HandleSilently
<1> HIDE DEF d, e, Good
<1>7. Good(d) /\ (op = "divide" => d.err)
  BY <1>1, <1>2, <1>3, <1>4, <1>5, <1>6
<1> QED
  BY <1>7 DEF Good, d

\* HandleSilent, of a line that does not branch: G16 fails without G91.
LEMMA SilentPlainOrders ==
  ASSUME NEW r \in Runs, InOrder(r), HandleSilent(r),
         run[r].frame = "real", OpOf(run[r]) \notin Flow
  PROVE  OrderOK(run'[r], ctx')
<1> DEFINE x == run[r]
           op == OpOf(run[r])
<1>1. /\ x.pc = "handle" /\ run \in Frames /\ OrderOK(x, ctx)
      /\ ctx \in Context /\ x \in RunRecords
  BY DEF HandleSilent, At, InOrder, Before, Frames
<1>2. Handling(x, ctx) /\ ~ ctx.trial
  BY <1>1 DEF OrderOK, RealOK
<1>3. OnPlain(x, ctx) /\ (op = "divide" => ctx.loop = 0)
  BY <1>1, <1>2, HandlingPlain
<1>4. /\ ctx' = HandleSilently(Line(r), op, ctx)
      /\ run' = [run EXCEPT ![r].pc = "handled",
                   ![r].trace = IF op = "restart" THEN << >> ELSE @]
      /\ ~ SendsActions(op, ctx)
  BY <1>1, CallIs DEF HandleSilent
<1>5. op # "restart"
  BY DEF Flow
<1>6. /\ run'[r].pc = "handled" /\ run'[r].frame = x.frame
      /\ run'[r].file = x.file /\ run'[r].line = x.line
      /\ run'[r].child = x.child /\ run'[r].trace = x.trace
  <2> HIDE DEF op
  <2> QED
    BY <1>1, <1>4, <1>5 DEF Frames, RunRecords
<1>7. op = "divide" => ~ ctx.rel
  BY <1>2, <1>4 DEF SendsActions, DriverActions
<1>8. /\ ctx'.cur = ctx.cur /\ ctx'.loop = ctx.loop
      /\ ctx'.loopAt = ctx.loopAt
      /\ ctx'.stop = ctx.stop /\ ctx'.trial = ctx.trial
      /\ ctx'.next \in {ctx.next, ctx.cur + 1}
      /\ op = "divide" => ctx'.err
  <2> HIDE DEF op
  <2>1. op \notin Flow
    BY DEF op
  <2> QED
    BY <1>1, <1>4, <1>7, <2>1, SilentPlain
<1>9. LineOf(run'[r]) = LineOf(x) /\ OpOf(run'[r]) = op
  BY <1>6 DEF LineOf, OpOf
<1>10. OnPlain(run'[r], ctx')
  BY <1>3, <1>6, <1>8, <1>9 DEF OnPlain
<1>11. Handled(run'[r], ctx') /\ InLine(run'[r])
  BY <1>3, <1>6, <1>8, <1>9, <1>10 DEF Handled, InLine
<1> QED
  BY <1>2, <1>6, <1>8, <1>11, RealGoesOn

\* HandleSilent, of R, G10, M30 and M99.
LEMMA SilentFlowOrders ==
  ASSUME NEW r \in Runs, InOrder(r), HandleSilent(r),
         run[r].frame = "real", OpOf(run[r]) \in Flow
  PROVE  OrderOK(run'[r], ctx')
<1> DEFINE x == run[r]
           op == OpOf(run[r])
           p == Program[run[r].file]
           i == run[r].line + 1
           k == ctx.loop
           a == ctx.loopAt
<1>1. /\ x.pc = "handle" /\ run \in Frames /\ OrderOK(x, ctx)
      /\ ctx \in Context /\ x \in RunRecords
  BY DEF HandleSilent, At, InOrder, Before, Frames
<1>2. Handling(x, ctx) /\ ~ ctx.trial
  BY <1>1 DEF OrderOK, RealOK
<1>3. /\ ctx.next = x.line /\ ctx.cur = x.line
      /\ Recorded(p, x.trace, k, a, i)
      /\ LineOf(x).op = op
  BY <1>1, <1>2, HandlingFlow DEF Handling, LineDone
<1>4. /\ WellFormed(p) /\ x.trace \in Seq(Int) /\ a \in Int /\ k \in Int
      /\ x.line \in Int /\ LineOf(x) = p[i] /\ Line(r) = p[i]
      /\ CurrentOp(r) = op
  BY <1>1, CallIs
<1>5. /\ ctx' = HandleSilently(p[i], op, ctx)
      /\ run' = [run EXCEPT ![r].pc = "handled",
                   ![r].trace = IF op = "restart" THEN << >> ELSE @]
  BY <1>4 DEF HandleSilent
<1>6. /\ run'[r].pc = "handled" /\ run'[r].frame = x.frame
      /\ run'[r].file = x.file /\ run'[r].line = x.line
      /\ run'[r].child = x.child
      /\ run'[r].trace = IF op = "restart" THEN << >> ELSE x.trace
  <2> HIDE DEF op
  <2> QED
    BY <1>1, <1>5 DEF Frames, RunRecords
<1>7. LineOf(run'[r]).op \in Flow
  BY <1>3, <1>6 DEF LineOf
<1>8. SUFFICES /\ ctx'.trial = ctx.trial
               /\ \/ /\ ctx'.next = x.line
                     /\ Recorded(p, run'[r].trace, ctx'.loop, ctx'.loopAt, i)
                  \/ Todo(p, run'[r].trace, ctx'.loop, ctx'.loopAt,
                          ctx'.next + 1)
  <2>1. Handled(run'[r], ctx')
    BY <1>6, <1>7, <1>8 DEF Handled, LineDone, ComesNext
  <2>2. InLine(run'[r])
    BY <1>6 DEF InLine
  <2> QED
    BY <1>2, <1>6, <1>8, <2>1, <2>2, RealGoesOn
<1> HIDE DEF p, i, k, a, op, x
<1>9. CASE op = "loop"
  <2> DEFINE e == [ctx EXCEPT !.loopAt = ctx.cur, !.err = FALSE,
                              !.loop = p[i].n - 1]
  <2>1. ctx' = MoveNextLine(e) /\ run'[r].trace = x.trace
    BY <1>5, <1>6, <1>9 DEF HandleSilently, LoopStart
  <2>2. e \in Context
    <3>1. p[i].n \in Nat /\ ctx.cur \in Int
      BY <1>1, <1>4, OnLineIs DEF OnLine, Command, Context, x
    <3>2. [ctx EXCEPT !.loopAt = ctx.cur] \in Context
      BY <1>1, <3>1, PutContext
    <3>3. [ctx EXCEPT !.loopAt = ctx.cur, !.err = FALSE] \in Context
      BY <3>2, PutContext
    <3>4. p[i].n - 1 \in Int
      BY <3>1
    <3> QED
      BY <3>3, <3>4, PutContext
  <2>3. /\ e.cur = ctx.cur /\ e.next = ctx.next /\ e.loop = p[i].n - 1
        /\ e.loopAt = ctx.cur /\ e.trial = ctx.trial
    BY <1>1 DEF Context
  <2> HIDE DEF e
  <2>4. /\ ctx'.loop = p[i].n - 1 /\ ctx'.loopAt = x.line
        /\ ctx'.trial = ctx.trial /\ ctx'.next \in {x.line, x.line + 1}
    BY <1>3, <2>1, <2>2, <2>3, MoveNextLineIs
  <2>5. /\ Todo(p, x.trace, p[i].n - 1, i - 1, i + 1)
        /\ \A l, b : Recorded(p, x.trace, l, b, i)
    BY <1>3, <1>4, <1>9, LoopDone
  <2>6. i - 1 = x.line /\ i + 1 = x.line + 1 + 1
    BY <1>4 DEF i, x
  <2>7. CASE ctx'.next = x.line
    BY <2>1, <2>4, <2>5, <2>7
  <2>8. CASE ctx'.next = x.line + 1
    BY <2>1, <2>4, <2>5, <2>6, <2>8
  <2> QED
    BY <2>4, <2>7, <2>8
<1>10. CASE op = "endloop"
  <2>1. ctx' = LoopEnd(ctx) /\ run'[r].trace = x.trace
    BY <1>5, <1>6, <1>10 DEF HandleSilently
  <2>2. /\ k \in Nat
        /\ k = 0 => Todo(p, x.trace, 0, a, i + 1)
        /\ k > 0 => Todo(p, x.trace, k - 1, a, a + 2)
    BY <1>3, <1>4, <1>10, EndloopDone
  <2>3. CASE k > 0
    <3>1. ctx' = [ctx EXCEPT !.loop = ctx.loop - 1, !.next = ctx.loopAt + 1]
      BY <1>2, <2>1, <2>3 DEF LoopEnd, k
    <3>2. /\ ctx'.loop = k - 1 /\ ctx'.loopAt = a /\ ctx'.next = a + 1
          /\ ctx'.trial = ctx.trial
      BY <1>1, <3>1 DEF Context, k, a
    <3>3. a + 1 + 1 = a + 2
      BY <1>4
    <3> QED
      BY <2>1, <2>2, <2>3, <3>2, <3>3
  <2>4. CASE k = 0
    <3>1. ctx' = MoveNextLine(ctx)
      BY <1>2, <2>1, <2>4 DEF LoopEnd, k
    <3>2. /\ ctx'.loop = 0 /\ ctx'.loopAt = a
          /\ ctx'.next \in {x.line, x.line + 1} /\ ctx'.trial = ctx.trial
      BY <1>1, <1>3, <2>4, <3>1, MoveNextLineIs DEF k, a
    <3>3. i + 1 = x.line + 1 + 1
      BY <1>4 DEF i, x
    <3>4. CASE ctx'.next = x.line
      BY <1>3, <2>1, <2>4, <3>2, <3>4
    <3>5. CASE ctx'.next = x.line + 1
      BY <2>1, <2>2, <2>4, <3>2, <3>3, <3>5
    <3> QED
      BY <3>2, <3>4, <3>5
  <2> QED
    BY <2>2, <2>3, <2>4
<1>11. CASE op = "end"
  <2>1. ctx' = [Reset(ctx) EXCEPT !.next = -1] /\ run'[r].trace = x.trace
    BY <1>5, <1>6, <1>11 DEF HandleSilently, EndExecution
  <2>2. Reset(ctx) \in Context /\ Reset(ctx).trial = ctx.trial
    BY <1>1, ResetTyped
  <2>3. ctx'.next = -1 /\ ctx'.trial = ctx.trial
    BY <2>1, <2>2 DEF Context
  <2>4. x.trace = Whole(p)
    BY <1>3, <1>4, <1>11, EndDone
  <2>5. ctx'.next + 1 = 0
    BY <2>3
  <2> QED
    BY <2>1, <2>3, <2>4, <2>5 DEF Todo
<1>12. CASE op = "restart"
  <2> DEFINE e == [ctx EXCEPT !.next = 0]
  <2>1. ctx' = Reset(e) /\ run'[r].trace = << >>
    BY <1>2, <1>5, <1>6, <1>12 DEF HandleSilently, Restart, MoveToStart
  <2>2. e \in Context
    BY <1>1, PutContext
  <2>3. e.trial = ctx.trial
    BY <1>1 DEF Context
  <2> HIDE DEF e
  <2>4. ctx'.loop = 0 /\ ctx'.next = 0 /\ ctx'.trial = ctx.trial
    BY <2>1, <2>2, <2>3, ResetIs
  <2>5. Todo(p, << >>, 0, ctx'.loopAt, 0 + 1)
    BY <1>4, StartsTodo
  <2> QED
    BY <2>1, <2>4, <2>5
<1> QED
  BY <1>9, <1>10, <1>11, <1>12 DEF Flow, op

\* HandleSilent, of any line, in the trial run or in the real one.
LEMMA HandleSilentOrders ==
  ASSUME NEW r \in Runs, InOrder(r), HandleSilent(r)
  PROVE  OrderOK(run'[r], ctx')
<1>1. /\ run[r].pc = "handle" /\ run \in Frames /\ OrderOK(run[r], ctx)
      /\ run[r] \in RunRecords
  BY DEF HandleSilent, At, InOrder, Before, Frames
<1>2. CASE run[r].frame # "real"
  <2>1. /\ run'[r].pc = "handled" /\ run'[r].frame = run[r].frame
        /\ run'[r].trace = run[r].trace \/ run'[r].trace = << >>
    BY <1>1 DEF HandleSilent, Frames, RunRecords
  <2> QED
    BY <1>1, <1>2, <2>1, TrialGoesOn
<1> QED
  BY <1>2, SilentPlainOrders, SilentFlowOrders

\* HandleRefused: a move beyond its limits fails where it is.
LEMMA HandleRefusedOrders ==
  ASSUME NEW r \in Runs, InOrder(r), HandleRefused(r)
  PROVE  OrderOK(run'[r], ctx')
<1> DEFINE x == run[r]
<1>1. /\ x.pc = "handle" /\ run \in Frames /\ OrderOK(x, ctx)
      /\ ctx \in Context /\ x \in RunRecords
  BY DEF HandleRefused, At, InOrder, Before, Frames
<1>2. /\ ctx' = [ctx EXCEPT !.err = TRUE] /\ OpOf(x) = "move"
      /\ Goto(r, "handled")
  BY <1>1, CallIs DEF HandleRefused
<1>3. /\ run'[r].pc = "handled" /\ run'[r].frame = x.frame
      /\ run'[r].file = x.file /\ run'[r].line = x.line
      /\ run'[r].child = x.child /\ run'[r].trace = x.trace
  BY <1>1, <1>2 DEF Goto, Frames, RunRecords
<1>4. /\ ctx'.cur = ctx.cur /\ ctx'.loop = ctx.loop
      /\ ctx'.loopAt = ctx.loopAt /\ ctx'.next = ctx.next
      /\ ctx'.stop = ctx.stop /\ ctx'.trial = ctx.trial
  BY <1>1, <1>2 DEF Context
<1>5. LineOf(run'[r]) = LineOf(x) /\ OpOf(run'[r]) = OpOf(x)
  BY <1>3 DEF LineOf, OpOf
<1> HIDE DEF x
<1>6. CASE x.frame # "real"
  BY <1>1, <1>3, <1>6, TrialGoesOn DEF x
<1>7. CASE x.frame = "real"
  <2>1. Handling(x, ctx) /\ ~ ctx.trial
    BY <1>1, <1>7 DEF OrderOK, RealOK
  <2>2. OnPlain(x, ctx)
    BY <1>1, <1>2, <1>7, <2>1, HandlingPlain DEF x, Flow
  <2>3. OnPlain(run'[r], ctx')
    BY <1>3, <1>4, <1>5, <2>2 DEF OnPlain
  <2>4. Handled(run'[r], ctx') /\ InLine(run'[r])
    BY <1>2, <1>3, <1>4, <1>5, <2>2, <2>3 DEF Handled, InLine
  <2> QED
    BY <1>3, <1>4, <1>7, <2>1, <2>4, RealGoesOn DEF x
<1> QED
  BY <1>6, <1>7

\* Every step of a call keeps it in order, and the others as they are.
LEMMA ExecutorOrders ==
  ASSUME NEW r \in Runs, InOrder(r), ExecutorStep(r)
  PROVE  OrderOK(run'[r], ctx')
BY AnnounceOrders, VerifyOrders, LaunchOrders, LeaveOrders, CheckOrders,
   HandleSilentOrders, HandleRefusedOrders, HandleDivideOrders,
   HandleSendingOrders,
   NextSegmentOrders, NoMoreSegmentsOrders, PushActionOrders, WaitOrders,
   FinishedOrders, SegmentFinishedOrders, AfterSegmentOrders,
   HandlerFailedOrders, ChildCommandOrders, BlockWaitOrders, SingleShutOrders,
   StopHereOrders, RecurseOrders, TrialReturnsOrders, EndsOrder,
   CompletesOrders
DEF ExecutorStep

----------------------------------------------------------------------------
(* The strengthening, for all calls: no reset is on its way and no two      *)
(* programs run at a time.                                                  *)

Free(s, m) == \A i \in DOMAIN s : s[i] # m
Undisturbed ==
  /\ resetting = "idle" /\ handing = 0
  /\ Free(inputs, "reset") /\ Free(actions, "RESET")

Alone ==
  \A r, s \in Runs : run[r].pc # "idle" /\ run[s].pc # "idle" => r = s

AllInOrder == \A r \in Runs : OrderOK(run[r], ctx)

OrderInv == AllInOrder /\ Undisturbed /\ Alone

(* What is assumed of the operator: a program is begun when no other one is *)
(* running and at its first line, that is, not resumed after a stop; and    *)
(* neither a reset nor a line number is asked for.                          *)
FromTheStart ==
  \A r \in Runs, f \in Files :
    Start(r, f) => /\ \A s \in Runs : run[s].pc = "idle"
                   /\ PrepareExecutingFile(ctx, f).resume <= 0

Gentle == Presses \subseteq {"stop", "next", "mode"}

\* Sends and receives of other messages.
LEMMA FreeSends ==
  ASSUME NEW S, NEW s \in Seq(S), NEW m, Free(s, m)
  PROVE  /\ \A a \in S : a # m => Free(Append(s, a), m)
         /\ s # << >> => Free(Tail(s), m) /\ Head(s) # m
<1>1. ASSUME NEW a \in S, a # m
      PROVE  Free(Append(s, a), m)
  BY <1>1 DEF Free
<1>2. ASSUME s # << >>
      PROVE  Free(Tail(s), m) /\ Head(s) # m
  BY <1>2 DEF Free
<1> QED
  BY <1>1, <1>2

\* An idle call is in order whatever the context.
LEMMA IdleKeeps ==
  ASSUME NEW x, NEW c, NEW d, OrderOK(x, c), x.pc = "idle"
  PROVE  OrderOK(x, d)
  BY DEF OrderOK

\* Only a call that was started takes steps.
LEMMA StepsWhenActive ==
  ASSUME NEW r \in Runs, ExecutorStep(r)
  PROVE  run[r].pc # "idle"
  BY DEF ExecutorStep, At, Announce, Verify, Launch, Leave, Check,
     HandleSilent, HandleRefused, HandleDivide, HandleSending, NextSegment,
     NoMoreSegments, PushAction, WaitTest, WaitReceive, WaitShut, Finished, SegmentFinished,
     AfterSegment, HandlerFailed, ChildCommand, BlockWait, SingleShut,
     StopHere, Recurse, TrialReturns, TrialFails, Stopped, Completes, Complete

\* A step of a call that is alone leaves the others idle.
LEMMA OneMoves ==
  ASSUME AllInOrder, Alone, NEW r \in Runs, run[r].pc # "idle",
         \A s \in Runs : s # r => run'[s] = run[s],
         OrderOK(run'[r], ctx')
  PROVE  AllInOrder' /\ Alone'
<1>1. ASSUME NEW s \in Runs, s # r
      PROVE  run'[s].pc = "idle" /\ OrderOK(run'[s], ctx')
  <2>1. run[s].pc = "idle" /\ run'[s] = run[s]
    BY <1>1 DEF Alone
  <2>2. OrderOK(run[s], ctx')
    BY <2>1, IdleKeeps DEF AllInOrder
  <2> QED
    BY <2>1, <2>2
<1>2. \A s \in Runs : OrderOK(run'[s], ctx')
  BY <1>1
<1>3. AllInOrder'
  BY <1>2 DEF AllInOrder
<1>4. Alone'
  BY <1>1 DEF Alone
<1> QED
  BY <1>3, <1>4

\* A step that changes no place of a call keeps all of them in order.
LEMMA NoneMoves ==
  ASSUME AllInOrder, Alone,
         \A r \in Runs : /\ Alike(run[r], run'[r], ctx, ctx')
                         /\ run'[r].pc = run[r].pc
                         /\ run'[r].frame = run[r].frame
                         /\ run'[r].back = run[r].back,
         ctx'.trial = ctx.trial, ctx'.resume = ctx.resume
  PROVE  AllInOrder' /\ Alone'
<1>1. \A r \in Runs : OrderOK(run'[r], ctx')
  BY SameCall DEF AllInOrder
<1>2. AllInOrder'
  BY <1>1 DEF AllInOrder
<1>3. Alone'
  BY DEF Alone
<1> QED
  BY <1>2, <1>3

\* In particular one that changes neither a call nor the context.
LEMMA NothingMoves ==
  ASSUME AllInOrder, Alone, run' = run, ctx' = ctx
  PROVE  AllInOrder' /\ Alone'
  BY DEF AllInOrder, Alone

----------------------------------------------------------------------------
\* No step brings a reset on its way, unless the operator asks for one.

\* The executor writes to the driver what its line is about.
LEMMA ExecutorUndisturbed ==
  ASSUME IInv, Undisturbed, NEW r \in Runs, Executing(r)
  PROVE  Undisturbed'
<1>1. resetting' = resetting /\ handing' = handing
  BY DEF Executing, motorVars, listenVars
<1>2. inputs' = inputs
  BY DEF Executing, ExecutorStep, channelVars, completionVars,
     Announce, Verify, Launch, Leave, Check, HandleSilent, HandleRefused,
     HandleDivide,
     HandleSending, NextSegment, NoMoreSegments, PushAction, WaitTest,
     WaitReceive, WaitShut, Finished, SegmentFinished, AfterSegment,
     HandlerFailed, ChildCommand, BlockWait, SingleShut, StopHere, Recurse,
     TrialReturns, TrialFails, Stopped, Completes, Complete
<1>3. actions \in Seq(ActionTypes) /\ FrameOK(run[r])
  BY DEF IInv, TypeOK, ChannelsTypeOK, StackOK
<1>4. \/ actions' = actions
      \/ \E a \in ActionTypes : a # "RESET" /\ actions' = Append(actions, a)
  <2>1. CASE PushAction(r)
    <3>0. run[r].todo \in Pending
      BY <1>3, <2>1 DEF PushAction, At, FrameOK
    <3>1. Head(run[r].todo) \in {"SET_WORK_OFFSET", "MOVE_TO_POSITION",
                                 "POSITION_MODE", "SET_RPM"}
      <4> DEFINE t == run[r].todo
      <4> HIDE DEF t
      <4>1. \/ t = <<"SET_WORK_OFFSET", "MOVE_TO_POSITION">>
            \/ t = <<"MOVE_TO_POSITION">>
            \/ t = <<"POSITION_MODE">> \/ t = <<"SET_RPM">>
        BY <3>0 DEF Pending, t
      <4>2. Head(t) \in {"SET_WORK_OFFSET", "MOVE_TO_POSITION",
                         "POSITION_MODE", "SET_RPM"}
        BY ONLY <4>1
      <4> QED
        BY <4>2 DEF t
    <3>2. actions' = Append(actions, Head(run[r].todo))
      BY <2>1 DEF PushAction, NotifyMotorDriver
    <3> QED
      BY <3>1, <3>2 DEF ActionTypes
  <2>2. CASE Announce(r) \/ Complete(r)
    BY <2>2 DEF Announce, Complete, NotifyMotorDriver, ActionTypes
  <2>3. CASE ~ PushAction(r) /\ ~ Announce(r) /\ ~ Complete(r)
    BY <2>3 DEF Executing, ExecutorStep, channelVars,
       Verify, Launch, Leave, Check, HandleSilent, HandleRefused,
       HandleDivide,
       HandleSending, NextSegment, NoMoreSegments, WaitTest,
       WaitReceive, WaitShut, Finished, SegmentFinished, AfterSegment,
       HandlerFailed, ChildCommand, BlockWait, SingleShut, StopHere, Recurse,
       TrialReturns, TrialFails, Stopped, Completes
  <2> QED
    BY <2>1, <2>2, <2>3
<1>5. Free(actions', "RESET")
  <2>1. Free(actions, "RESET")
    BY DEF Undisturbed
  <2>2. ASSUME NEW a \in ActionTypes, a # "RESET"
        PROVE  Free(Append(actions, a), "RESET")
    BY <1>3, <2>1, <2>2, FreeSends
  <2> QED
    BY <1>4, <2>1, <2>2
<1> QED
  BY <1>1, <1>2, <1>5 DEF Undisturbed, Free

\* The motor side takes actions and writes what it does of the ECS input.
LEMMA MotorUndisturbed ==
  ASSUME IInv, Undisturbed, Motor
  PROVE  Undisturbed'
<1>1. /\ inputs \in Seq(InputTypes) /\ actions \in Seq(ActionTypes)
      /\ resetting = "idle" /\ handing = 0
      /\ Free(inputs, "reset") /\ Free(actions, "RESET")
  BY DEF IInv, TypeOK, ChannelsTypeOK, Undisturbed
<1>2. SUFFICES /\ resetting' = "idle" /\ handing' = 0
               /\ Free(inputs', "reset") /\ Free(actions', "RESET")
  BY DEF Undisturbed, Free
<1>3. ASSUME NEW a \in ActionTypes, Take(a)
      PROVE  a # "RESET" /\ Free(actions', "RESET")
  BY <1>1, <1>3, FreeSends DEF Take
<1>4. ASSUME NEW m \in InputTypes, m # "reset", WriteCommandExecInput(m)
      PROVE  Free(inputs', "reset")
  BY <1>1, <1>4, FreeSends DEF WriteCommandExecInput
<1>5. CASE ActionListener
  <2>1. /\ inputs' = inputs
        /\ \E a \in ActionTypes : Take(a)
    BY <1>5 DEF ActionListener, SetRPM, PositionMode, MoveToPosition,
       StopProgramExecution, PerformSysReset, ExitDriveListener, OtherAction,
       ActionTypes
  <2>2. ~ PerformSysReset
    BY <1>3 DEF PerformSysReset, ActionTypes
  <2>3. resetting' = resetting /\ handing' = handing
    BY <1>5, <2>2 DEF ActionListener, SetRPM, PositionMode, MoveToPosition,
       StopProgramExecution, ExitDriveListener, OtherAction, motorVars,
       listenVars
  <2> QED
    BY <1>1, <1>3, <2>1, <2>3
<1>6. CASE StatusListener
  BY <1>1, <1>6 DEF StatusListener, listenVars
<1>7. CASE MotionStep
  <2>1. actions' = actions /\ resetting' = resetting /\ handing' = handing
    BY <1>7 DEF MotionStep, LockMotion, PotNotExceeded, BeginECSCheck,
       ReceivedECS, ECSStopped, GotECS, Rotated, Duplicate, RotateFailed,
       GotZero, UnlockMotion, listenVars, channelVars
  <2>2. \/ inputs' = inputs
        \/ WriteCommandExecInput("waiting_for_ecs")
        \/ WriteCommandExecInput("ecs_done")
    BY <1>7 DEF MotionStep, LockMotion, PotNotExceeded, BeginECSCheck,
       ReceivedECS, ECSStopped, GotECS, Rotated, Duplicate, RotateFailed,
       GotZero, UnlockMotion, channelVars
  <2>3. "waiting_for_ecs" \in InputTypes /\ "ecs_done" \in InputTypes
    BY DEF InputTypes
  <2> QED
    BY <1>1, <1>4, <2>1, <2>2, <2>3
<1>8. ~ ResetWorker
  BY <1>1 DEF ResetWorker, ResetReceives, ResetBegins, ResetStopsListener,
     ResetTellsExecutor, ResetRestarts
<1> QED
  BY <1>5, <1>6, <1>7, <1>8 DEF Motor

\* The listener and the operator write no reset either.
LEMMA OthersUndisturbed ==
  ASSUME IInv, Undisturbed, Gentle,
         Listener \/ SendAlarm \/ StopMovesNextLine \/ Operator
  PROVE  Undisturbed' /\ ~ HearReset /\ ~ PressReset /\ ~ PressSaveLine
<1>1. /\ inputs \in Seq(InputTypes) /\ actions \in Seq(ActionTypes)
      /\ Free(inputs, "reset") /\ Free(actions, "RESET")
  BY DEF IInv, TypeOK, ChannelsTypeOK, Undisturbed
<1>2. ASSUME NEW m \in InputTypes, m # "reset", WriteCommandExecInput(m)
      PROVE  Free(inputs', "reset")
  BY <1>1, <1>2, FreeSends DEF WriteCommandExecInput
<1>3. ASSUME NEW m \in InputTypes, Heard(m)
      PROVE  m # "reset" /\ Free(inputs', "reset")
  BY <1>1, <1>3, FreeSends DEF Heard
<1>4. ~ HearReset /\ ~ PressReset /\ ~ PressSaveLine
  BY <1>3 DEF HearReset, PressReset, PressSaveLine, Gentle, InputTypes
<1>5. SUFFICES /\ resetting' = resetting /\ handing' = handing
               /\ Free(inputs', "reset") /\ Free(actions', "RESET")
  BY <1>4 DEF Undisturbed, Free
<1>6. CASE Listener
  <2>1. resetting' = resetting /\ handing' = handing
    BY <1>6 DEF Listener, HearMode, HearNextLine, HearStop, PushStop,
       HearReset, HearECS, SingleRendezvous, motorVars, listenVars
  <2>2. \/ inputs' = inputs
        \/ \E m \in InputTypes : Heard(m)
    BY <1>6 DEF Listener, HearMode, HearNextLine, HearStop, PushStop,
       HearReset, HearECS, SingleRendezvous, channelVars, InputTypes
  <2>3. \/ actions' = actions
        \/ actions' = Append(actions, "STOP_PROGRAM_EXECUTION")
    BY <1>6 DEF Listener, HearMode, HearNextLine, HearStop, PushStop,
       HearReset, HearECS, SingleRendezvous, channelVars, NotifyMotorDriver
  <2>4. "STOP_PROGRAM_EXECUTION" \in ActionTypes
    BY DEF ActionTypes
  <2>5. Free(Append(actions, "STOP_PROGRAM_EXECUTION"), "RESET")
    BY <1>1, <2>4, FreeSends
  <2>6. Free(inputs', "reset")
    BY <1>1, <1>3, <2>2
  <2> QED
    BY <1>1, <2>1, <2>3, <2>5, <2>6
<1>7. CASE SendAlarm \/ StopMovesNextLine \/ Operator
  <2>1. /\ resetting' = resetting /\ handing' = handing
        /\ actions' = actions
    BY <1>4, <1>7 DEF SendAlarm, StopMovesNextLine, Operator, PressExecute,
       PressStop, PressInput, Refuse, Start, motorVars, listenVars,
       channelVars
  <2>2. \/ inputs' = inputs
        \/ \E m \in {"stop_prog_exec", "move_next_line", "single",
                     "continuous"} : WriteCommandExecInput(m)
    BY <1>4, <1>7 DEF SendAlarm, StopMovesNextLine, Operator, PressExecute,
       PressStop, PressInput, Refuse, Start, channelVars
  <2>3. {"stop_prog_exec", "move_next_line", "single", "continuous"}
           \subseteq InputTypes \ {"reset"}
    BY DEF InputTypes
  <2> QED
    BY <1>1, <1>2, <2>1, <2>2, <2>3
<1> QED
  BY <1>6, <1>7

----------------------------------------------------------------------------
\* At first nothing runs and no reset is on its way.
LEMMA OrderInit == Init => OrderInv
<1> SUFFICES ASSUME Init PROVE OrderInv
  OBVIOUS
<1>1. \A r \in Runs : run[r].pc = "idle" /\ run[r].frame = "none"
  BY DEF Init, ExecInit, Idle
<1>2. AllInOrder
  BY <1>1 DEF AllInOrder, OrderOK
<1>3. Undisturbed
  BY DEF Init, ChannelsInit, MotorInit, Undisturbed, Free
<1>4. Alone
  BY <1>1 DEF Alone
<1> QED
  BY <1>2, <1>3, <1>4 DEF OrderInv

\* A step of a call in progress.
LEMMA ExecutingOrders ==
  ASSUME IInv, Meant, OrderInv, NEW r \in Runs, Executing(r)
  PROVE  OrderInv'
<1>1. Before(r)
  BY DEF IInv, TypeOK, StackOK, Before, Frames
<1>2. InOrder(r) /\ ExecutorStep(r) /\ run[r].pc # "idle"
  BY <1>1, StepsWhenActive DEF InOrder, OrderInv, AllInOrder, Executing
<1>3. OrderOK(run'[r], ctx')
  BY <1>2, ExecutorOrders
<1>4. \A s \in Runs : s # r => run'[s] = run[s]
  BY <1>1, <1>2, ExecutorKeeps DEF Kept
<1>5. AllInOrder' /\ Alone'
  BY <1>2, <1>3, <1>4, OneMoves DEF OrderInv
<1>6. Undisturbed'
  BY ExecutorUndisturbed DEF OrderInv
<1> QED
  BY <1>5, <1>6 DEF OrderInv

\* A message of the input listener: none of them changes the place of a call.
LEMMA ListenerOrders ==
  ASSUME IInv, Meant, AllInOrder, Alone, Listener, ~ HearReset
  PROVE  AllInOrder' /\ Alone'
<1>0. ctx \in Context /\ run \in Frames
  BY DEF IInv, TypeOK, Frames
<1>1. CASE HearMode \/ HearECS
  <2>1. run' = run
    BY <1>1 DEF HearMode, HearECS
  <2>2. /\ ctx'.cur = ctx.cur /\ ctx'.next = ctx.next
        /\ ctx'.loop = ctx.loop /\ ctx'.loopAt = ctx.loopAt
        /\ ctx'.err = ctx.err /\ ctx'.stop = ctx.stop
        /\ ctx'.trial = ctx.trial /\ ctx'.resume = ctx.resume
    BY <1>0, <1>1 DEF HearMode, HearECS, Context
  <2>3. \A r \in Runs : Alike(run[r], run'[r], ctx, ctx')
    BY <2>1, <2>2 DEF Alike
  <2> QED
    BY <2>1, <2>2, <2>3, NoneMoves
<1>2. CASE HearNextLine \/ PushStop
  BY <1>2, NothingMoves DEF HearNextLine, PushStop, execVars
<1>3. CASE HearStop
  <2>1. /\ ctx'.cur = ctx.cur /\ ctx'.next = ctx.next
        /\ ctx'.loop = ctx.loop /\ ctx'.loopAt = ctx.loopAt
        /\ ctx'.err = ctx.err /\ ctx'.stop
        /\ ctx'.trial = ctx.trial /\ ctx'.resume = ctx.resume
    BY <1>0, <1>3 DEF HearStop, Context
  <2>2. ASSUME NEW r \in Runs
        PROVE  /\ Alike(run[r], run'[r], ctx, ctx')
               /\ run'[r].pc = run[r].pc
               /\ run'[r].frame = run[r].frame
               /\ run'[r].back = run[r].back
    <3>1. run[r] \in RunRecords
      BY <1>0 DEF Frames
    <3>2. \/ run'[r] = run[r]
          \/ run'[r] = [run[r] EXCEPT !.late = [@ EXCEPT !["stop"] = 0]]
      BY <1>3 DEF HearStop, MarkLate
    <3>3. /\ run'[r].pc = run[r].pc /\ run'[r].frame = run[r].frame
          /\ run'[r].back = run[r].back /\ run'[r].file = run[r].file
          /\ run'[r].line = run[r].line /\ run'[r].child = run[r].child
          /\ run'[r].seg = run[r].seg /\ run'[r].trace = run[r].trace
      BY <3>1, <3>2 DEF RunRecords
    <3> QED
      BY <2>1, <3>3 DEF Alike
  <2> QED
    BY <2>1, <2>2, NoneMoves
<1>4. ASSUME NEW r \in Runs, SingleRendezvous(r)
      PROVE  AllInOrder' /\ Alone'
  <2>1. /\ run[r].pc = "single" /\ Goto(r, "singleshut") /\ ctx' = ctx
    BY <1>4 DEF SingleRendezvous, At
  <2>2. /\ run'[r].pc = "singleshut" /\ run'[r].frame = run[r].frame
        /\ run'[r].file = run[r].file /\ run'[r].line = run[r].line
        /\ run'[r].child = run[r].child /\ run'[r].seg = run[r].seg
        /\ run'[r].trace = run[r].trace /\ run'[r].back = run[r].back
    BY <1>0, <2>1, GotoIs DEF Stages
  <2>3. Before(r)
    BY <1>0 DEF IInv, TypeOK, StackOK, Before
  <2>4. FrameOK(run[r]) /\ InOrder(r)
    BY <2>3 DEF Before, InOrder, AllInOrder
  <2>5. /\ \/ InSend(run[r]) /\ InSend(run'[r])
           \/ InLine(run[r]) /\ InLine(run'[r])
        /\ InDivide(run'[r]) => InDivide(run[r])
    BY <2>1, <2>2 DEF InSend, InLine, InDivide, Sending
  <2>6. OrderOK(run'[r], ctx')
    BY <2>1, <2>2, <2>4, <2>5, SameLine
  <2>7. \A s \in Runs : s # r => run'[s] = run[s]
    BY <1>0, <2>1 DEF Goto, Frames
  <2> QED
    BY <2>1, <2>6, <2>7, OneMoves
<1> QED
  BY <1>1, <1>2, <1>3, <1>4 DEF Listener

\* A program that begins at its first line.
LEMMA StartOrders ==
  ASSUME IInv, AllInOrder, NEW r \in Runs, NEW f \in Files, Start(r, f),
         FromTheStart
  PROVE  AllInOrder' /\ Alone'
<1>0. run \in Frames
  BY DEF IInv, TypeOK, Frames
<1>1. /\ \A s \in Runs : run[s].pc = "idle"
      /\ ~ (PrepareExecutingFile(ctx, f).resume > 0)
  <2>1. PrepareExecutingFile(ctx, f).resume \in Int
    BY PrepareTyped DEF IInv, TypeOK, Context
  <2> QED
    BY <2>1 DEF FromTheStart
<1>2. run' = [run EXCEPT ![r] = [Idle EXCEPT !.pc = "announce", !.file = f,
                                             !.trace = << >>]]
  BY <1>1 DEF Start
<1>3. /\ run'[r].pc = "announce" /\ run'[r].frame = "none"
      /\ run'[r].trace = << >>
      /\ \A s \in Runs : s # r => run'[s] = run[s]
  BY <1>0, <1>2 DEF Frames, Idle
<1>4. OrderOK(run'[r], ctx')
  BY <1>3 DEF OrderOK
<1>5. \A s \in Runs : s # r => OrderOK(run'[s], ctx')
  BY <1>1, <1>3, IdleKeeps DEF AllInOrder
<1>6. \A s \in Runs : OrderOK(run'[s], ctx')
  BY <1>4, <1>5
<1>7. AllInOrder'
  BY <1>6 DEF AllInOrder
<1>8. Alone'
  BY <1>1, <1>3 DEF Alone
<1> QED
  BY <1>7, <1>8

\* Every step of the system keeps the calls in order.
LEMMA OrderKeeps ==
  ASSUME Gentle, Meant, IInv, OrderInv, [Next]_vars, [FromTheStart]_vars
  PROVE  OrderInv'
<1>0. AllInOrder /\ Alone /\ Undisturbed
  BY DEF OrderInv
<1>1. ASSUME NEW r \in Runs, Executing(r)
      PROVE  OrderInv'
  BY <1>1, ExecutingOrders
<1>2. ASSUME NEW n \in Notifiers, Notifying(n)
      PROVE  OrderInv'
  <2>1. Undisturbed'
    BY <1>0, <1>2 DEF Notifying, NotifyCmdComplete, Undisturbed, Free,
       motorVars, listenVars
  <2>2. AllInOrder' /\ Alone'
    BY <1>0, <1>2, NothingMoves DEF Notifying, execVars
  <2> QED
    BY <2>1, <2>2 DEF OrderInv
<1>3. CASE Motor
  <2>1. AllInOrder' /\ Alone'
    BY <1>0, <1>3, NothingMoves DEF Motor, execVars
  <2> QED
    BY <1>0, <1>3, <2>1, MotorUndisturbed DEF OrderInv
<1>4. CASE Listener
  <2>1. Undisturbed' /\ ~ HearReset
    BY <1>0, <1>4, OthersUndisturbed
  <2>2. AllInOrder' /\ Alone'
    BY <1>0, <1>4, <2>1, ListenerOrders
  <2> QED
    BY <2>1, <2>2 DEF OrderInv
<1>5. CASE SendAlarm \/ StopMovesNextLine
  <2>1. Undisturbed'
    BY <1>0, <1>5, OthersUndisturbed
  <2>2. AllInOrder' /\ Alone'
    BY <1>0, <1>5, NothingMoves DEF SendAlarm, StopMovesNextLine, execVars
  <2> QED
    BY <2>1, <2>2 DEF OrderInv
<1>6. CASE Operator
  <2>1. Undisturbed' /\ ~ PressReset /\ ~ PressSaveLine
    BY <1>0, <1>6, OthersUndisturbed
  <2>2. CASE PressStop \/ PressInput \/ (PressExecute /\ Refuse)
    <3>1. AllInOrder' /\ Alone'
      BY <1>0, <2>2, NothingMoves DEF PressStop, PressInput, Refuse, execVars
    <3> QED
      BY <2>1, <3>1 DEF OrderInv
  <2>3. ASSUME NEW r \in Runs, NEW f \in Files, Start(r, f), PressExecute
        PROVE  OrderInv'
    <3>1. presses' # presses
      BY <2>3 DEF PressExecute, Press, IInv, TypeOK
    <3>2. FromTheStart
      BY <3>1 DEF vars, controlVars
    <3>3. AllInOrder' /\ Alone'
      BY <1>0, <2>3, <3>2, StartOrders
    <3> QED
      BY <2>1, <3>3 DEF OrderInv
  <2> QED
    BY <1>6, <2>1, <2>2, <2>3 DEF Operator, PressExecute
<1>7. CASE UNCHANGED vars
  <2>1. AllInOrder' /\ Alone'
    BY <1>0, <1>7, NothingMoves DEF vars, execVars
  <2>2. Undisturbed'
    BY <1>0, <1>7 DEF vars, channelVars, motorVars, listenVars, Undisturbed,
       Free
  <2> QED
    BY <2>1, <2>2 DEF OrderInv
<1> QED
  BY <1>1, <1>2, <1>3, <1>4, <1>5, <1>6, <1>7 DEF Next

----------------------------------------------------------------------------
\* What the invariant says of a call in the real run, at whatever stage.

\* ProgramOrder: what is recorded is a beginning of what the program means.
LEMMA RealPrefix ==
  ASSUME NEW r \in Runs, InOrder(r), run[r].frame = "real"
  PROVE  Prefix(run[r].trace, Lines(run[r].file))
<1> DEFINE x == run[r]
           p == Program[run[r].file]
<1>0. Lines(x.file) = Whole(p)
  BY DEF Lines, Whole
<1>1. x.pc # "idle" /\ RealOK(x, ctx) /\ x.pc \in Stages
      /\ x.pc \notin {"announce", "verify", "launch"}
  <2>1. OrderOK(x, ctx) /\ x \in RunRecords
    BY DEF InOrder, Before, Frames
  <2> QED
    BY <2>1 DEF OrderOK, RunRecords
<1>2. /\ WellFormed(p) /\ x.trace \in Seq(Int) /\ ctx.loopAt \in Int
  BY <1>1, CallIs
<1>3. LineDone(x, ctx) => Prefix(x.trace, Whole(p))
  BY <1>2, RecordedPrefix DEF LineDone
<1>4. ComesNext(x, ctx, x.line) => Prefix(x.trace, Whole(p))
  BY <1>2, TodoPrefix DEF ComesNext
<1>5. OnPlain(x, ctx) => Prefix(x.trace, Whole(p))
  BY <1>2, RecordedPrefix DEF OnPlain
<1>6. Handled(x, ctx) => Prefix(x.trace, Whole(p))
  BY <1>1, HandledPrefix
<1>7. Returning(x, ctx) => Prefix(x.trace, Whole(p))
  BY DEF Returning
<1>8. \/ x.pc \in {"check", "handle", "return", "fail", "complete"}
      \/ InSend(x) \/ InLine(x)
  BY <1>1 DEF Stages, InSend, InLine, Sending
<1> HIDE DEF x, p
<1>9. Prefix(x.trace, Whole(p))
  BY <1>1, <1>3, <1>4, <1>5, <1>6, <1>7, <1>8
     DEF RealOK, Checking, Handling, Moving
<1> QED
  BY <1>0, <1>9 DEF x

\* DivideMovesN: the counter of a division that is over is that of its line.
LEMMA DividesAll ==
  ASSUME NEW r \in Runs, InOrder(r), At(r, "handled"),
         run[r].frame = "real", CurrentOp(r) = "divide", ~ ctx.err, ~ ctx.stop
  PROVE  run[r].seg = Line(r).n
<1>1. run[r].pc = "handled" /\ OrderOK(run[r], ctx)
      /\ Line(r) = LineOf(run[r]) /\ OpOf(run[r]) = "divide"
  BY CallIs DEF At
<1>2. Handled(run[r], ctx)
  BY <1>1 DEF OrderOK, RealOK, InLine
<1>3. /\ LineOf(run[r]).child # "none" =>
           LineOf(run[r]).op \in {"offset", "linear"}
  BY <1>1, OnLineIs DEF OnLine
<1>4. LineOf(run[r]).op \notin Flow
  BY <1>1, <1>3 DEF OpOf, Flow
<1> QED
  BY <1>1, <1>2, <1>4 DEF Handled

\* CompletesWholeProgram, but for a program that ends because a line failed.
LEMMA EndsAtTheEnd ==
  ASSUME NEW r \in Runs, InOrder(r), Ending(r)
  PROVE  \/ run[r].trace = Lines(run[r].file)
         \/ At(r, "complete") /\ run[r].frame = "real" /\ ctx.err
<1>0. Lines(run[r].file) = Whole(Program[run[r].file])
  BY DEF Lines, Whole
<1>1. CASE At(r, "complete")
  <2>1. run[r].pc = "complete" /\ OrderOK(run[r], ctx)
    BY <1>1 DEF At, InOrder
  <2>2. run[r].frame = "real" /\ Returning(run[r], ctx)
    BY <2>1 DEF OrderOK, RealOK
  <2> QED
    BY <1>0, <1>1, <2>1, <2>2 DEF Returning, AllDone
<1>2. CASE At(r, "handle") /\ run[r].frame = "real" /\ CurrentOp(r) = "restart"
  <2>1. /\ run[r].pc = "handle" /\ OrderOK(run[r], ctx)
        /\ OpOf(run[r]) = "restart"
        /\ WellFormed(Program[run[r].file]) /\ run[r].trace \in Seq(Int)
        /\ ctx.loopAt \in Int
        /\ LineOf(run[r]) = Program[run[r].file][run[r].line + 1]
    BY <1>2, CallIs DEF At
  <2>2. Handling(run[r], ctx)
    BY <1>2, <2>1 DEF OrderOK, RealOK
  <2>3. LineOf(run[r]).op = "restart"
    BY <2>1, <2>2, HandlingFlow DEF Flow
  <2>4. LineDone(run[r], ctx)
    BY <2>2 DEF Handling
  <2>5. run[r].trace = Whole(Program[run[r].file])
    BY <2>1, <2>3, <2>4, EndDone DEF LineDone
  <2> QED
    BY <1>0, <2>5
<1> QED
  BY <1>1, <1>2 DEF Ending

----------------------------------------------------------------------------
\* The calls stay in order.
THEOREM OrderHolds ==
  ASSUME Gentle, Meant
  PROVE  Spec /\ [][FromTheStart]_vars => []OrderInv
<1>1. IInv /\ OrderInv /\ [Next]_vars /\ [FromTheStart]_vars => OrderInv'
  BY OrderKeeps
<1> QED
  BY <1>1, OrderInit, InvariantHolds, PTL DEF Spec

\* ProgramOrder: for every program with proper loops, whatever the operator
\* does but for a reset and a start elsewhere than at the first line, the
\* lines that move the motor are executed in the order the program means.
THEOREM ProgramOrderHolds ==
  ASSUME Gentle, Meant
  PROVE  Spec /\ [][FromTheStart]_vars => []ProgramOrder
<1>1. IInv /\ OrderInv => \A r \in Runs : InOrder(r)
  BY DEF IInv, TypeOK, StackOK, Frames, Before, InOrder, OrderInv, AllInOrder
<1>2. IInv /\ OrderInv => ProgramOrder
  BY <1>1, RealPrefix DEF ProgramOrder
<1> QED
  BY <1>2, OrderHolds, InvariantHolds, PTL

\* DivideMovesN: G16 Pn and G17 Pn that are neither stopped nor fail make n
\* moves, at every line of every program (divide360.go:36).
THEOREM DivideMovesNHolds ==
  ASSUME Gentle, Meant
  PROVE  Spec /\ [][FromTheStart]_vars => []DivideMovesN
<1>1. IInv /\ OrderInv => \A r \in Runs : InOrder(r)
  BY DEF IInv, TypeOK, StackOK, Frames, Before, InOrder, OrderInv, AllInOrder
<1>2. IInv /\ OrderInv => DivideMovesN
  BY <1>1, DividesAll DEF DivideMovesN
<1> QED
  BY <1>2, OrderHolds, InvariantHolds, PTL

\* CompletesWholeProgram: PROGRAM_EXEC_COMPLETED is announced, and M99 begins
\* again, only when every line was executed as often as the program says,
\* unless one failed.
THEOREM CompletesWholeProgramHolds ==
  ASSUME Gentle, Meant
  PROVE  Spec /\ [][FromTheStart]_vars => []CompletesWholeProgram
<1>1. IInv /\ OrderInv => \A r \in Runs : InOrder(r)
  BY DEF IInv, TypeOK, StackOK, Frames, Before, InOrder, OrderInv, AllInOrder
<1>2. IInv /\ OrderInv => CompletesWholeProgram
  BY <1>1, EndsAtTheEnd DEF CompletesWholeProgram, EndedByError
<1> QED
  BY <1>2, OrderHolds, InvariantHolds, PTL

----------------------------------------------------------------------------
(* NothingSkipped, across stops and resumes: the lines that move and come   *)
(* before a given one are in the trace.  A single call, and programs        *)
(* without R, G10, M30 and M99.                                             *)

Straight == \A f \in Files : \A i \in DOMAIN Program[f] :
              Program[f][i].op \notin Flow

\* The lines before line n are executed.
Covers(p, t, n) ==
  /\ n \in Nat
  /\ \A m \in 0 .. Len(p) - 1 :
       m < n /\ Marked(p[m + 1]) => \E k \in DOMAIN t : t[k] = m

\* ... each of them before the later ones.
Sound(p, t) ==
  /\ \A i \in DOMAIN t : t[i] \in 0 .. Len(p) - 1 /\ Marked(p[t[i] + 1])
  /\ \A i \in DOMAIN t, m \in 0 .. Len(p) - 1 :
       m < t[i] /\ Marked(p[m + 1]) => \E k \in 1 .. i : t[k] = m

\* Neither the next line nor the one to resume at passes over another.
Safe(x, c) ==
  /\ Sound(Program[c.file], x.trace)
  /\ Covers(Program[c.file], x.trace, c.next)
  /\ Covers(Program[c.file], x.trace, c.resume)

\* Everything is executed.
CoversAll(x, c) ==
  Covers(Program[c.file], x.trace, Len(Program[c.file]))

RealSkips(x, c) ==
  /\ x.pc \notin {"idle", "announce", "verify", "launch"}
  /\ ~ c.trial /\ Safe(x, c)
  /\ x.pc = "check" => Covers(Program[c.file], x.trace, x.line)
  /\ x.pc \in OnLine => /\ c.cur = x.line
                        /\ Covers(Program[c.file], x.trace, x.line + 1)
  /\ x.pc = "return" => c.stop \/ CoversAll(x, c)
  /\ x.pc = "fail" => c.err
  /\ x.pc = "complete" => c.err \/ CoversAll(x, c)

SkipOK(x, c) ==
  /\ x.pc # "idle" => x.file = c.file
  /\ x.pc = "idle" /\ c.resume > 0 => ~ c.trial /\ Safe(x, c)
  /\ x.pc = "launch" => ~ c.trial /\ Safe(x, c)
  /\ x.pc \notin {"idle", "launch"} /\ x.frame # "real" => x.trace = << >>
  /\ x.pc \notin {"idle", "launch"} /\ x.frame = "trial" =>
       c.trial /\ (x.pc # "return" => c.resume = 0)
  /\ x.frame = "real" => RealSkips(x, c)
  /\ x.pc = "complete" => x.frame = "real"

\* What is known of a call before a step.
InPlace(r) == Before(r) /\ Meant /\ Straight /\ SkipOK(run[r], ctx)

\* A line that is executed for the first time, or again, is added to those
\* that were.
LEMMA CoversRecords ==
  ASSUME NEW p \in Seq(Command), NEW t \in Seq(Int), NEW l \in 0 .. Len(p) - 1,
         Sound(p, t), Covers(p, t, l),
         NEW u, u = IF Marked(p[l + 1]) THEN Append1(t, l) ELSE t
  PROVE  /\ Sound(p, u) /\ Covers(p, u, l + 1)
         /\ \A n : Covers(p, t, n) => Covers(p, u, n)
<1>0. l \in Nat /\ Len(p) \in Nat /\ DOMAIN t = 1 .. Len(t) /\ Len(t) \in Nat
  OBVIOUS
<1>1. CASE ~ Marked(p[l + 1])
  <2>1. \A m \in 0 .. Len(p) - 1 : m < l + 1 /\ Marked(p[m + 1]) => m < l
    BY <1>0, <1>1
  <2>2. u = t /\ l + 1 \in Nat
    BY <1>0, <1>1
  <2>3. Covers(p, t, l + 1)
    BY <2>1, <2>2 DEF Covers
  <2> QED
    BY <2>2, <2>3
<1>2. CASE Marked(p[l + 1]) /\ t # << >> /\ t[Len(t)] = l
  <2>1. u = t
    BY <1>2 DEF Append1
  <2>2. Len(t) \in DOMAIN t
    BY <1>0, <1>2
  <2>3. \A m \in 0 .. Len(p) - 1 : m < l + 1 => m < l \/ m = l
    BY <1>0
  <2>4. Covers(p, t, l + 1)
    BY <1>0, <1>2, <2>2, <2>3 DEF Covers
  <2> QED
    BY <2>1, <2>4
<1>3. CASE Marked(p[l + 1]) /\ ~ (t # << >> /\ t[Len(t)] = l)
  <2> DEFINE e == Len(t) + 1
  <2>1. u = Append(t, l)
    BY <1>3 DEF Append1
  <2>2. /\ DOMAIN u = 1 .. e /\ e \in 1 .. e /\ u[e] = l
        /\ \A k \in DOMAIN t : k \in DOMAIN u /\ u[k] = t[k]
        /\ \A k \in 1 .. e : k \in DOMAIN t \/ k = e
    BY <1>0, <2>1
  <2> HIDE DEF e
  <2>3. \A n : Covers(p, t, n) => Covers(p, u, n)
    BY <2>2 DEF Covers
  <2>4. Covers(p, u, l + 1)
    <3>1. \A m \in 0 .. Len(p) - 1 : m < l + 1 => m < l \/ m = l
      BY <1>0
    <3>2. Covers(p, u, l)
      BY <2>3
    <3> QED
      BY <1>0, <2>2, <3>1, <3>2 DEF Covers
  <2>5. \A i \in DOMAIN u : u[i] \in 0 .. Len(p) - 1 /\ Marked(p[u[i] + 1])
    BY <1>3, <2>2 DEF Sound
  <2>6. ASSUME NEW i \in DOMAIN u, NEW m \in 0 .. Len(p) - 1,
               m < u[i], Marked(p[m + 1])
        PROVE  \E k \in 1 .. i : u[k] = m
    <3>1. CASE i \in DOMAIN t
      <4>1. u[i] = t[i]
        BY <2>2, <3>1
      <4>2. PICK k \in 1 .. i : t[k] = m
        BY <2>6, <3>1, <4>1 DEF Sound
      <4>3. k \in DOMAIN t
        BY <1>0, <3>1, <4>2
      <4> QED
        BY <2>2, <4>2, <4>3
    <3>2. CASE i = e
      <4>1. PICK k \in DOMAIN t : t[k] = m
        BY <2>2, <2>6, <3>2 DEF Covers
      <4>2. k \in 1 .. e /\ u[k] = m
        BY <2>2, <4>1
      <4> QED
        BY <3>2, <4>2
    <3> QED
      BY <2>2, <3>1, <3>2
  <2> QED
    BY <2>3, <2>4, <2>5, <2>6 DEF Sound
<1> QED
  BY <1>1, <1>2, <1>3

\* At the beginning nothing is passed over.
LEMMA CoversNothing ==
  ASSUME NEW p
  PROVE  Sound(p, << >>) /\ \A t : Covers(p, t, 0)
  BY DEF Sound, Covers

\* The lines of a program without loops and ends are those that move.
LEMMA StraightLines ==
  ASSUME NEW p \in Seq(Command), Structured(p),
         \A i \in DOMAIN p : p[i].op \notin Flow
  PROVE  \A l : (\E j \in DOMAIN Whole(p) : Whole(p)[j] = l)
                <=> l \in 0 .. Len(p) - 1 /\ Marked(p[l + 1])
<1> DEFINE N == Len(p)
           w(i) == From(p)[i]
           Good(m) == \A l : (\E j \in DOMAIN w(N - m + 1) : w(N - m + 1)[j] = l)
                             <=> l \in N - m .. N - 1 /\ Marked(p[l + 1])
           S == {m \in Nat : m <= N => Good(m)}
<1>0. N \in Nat /\ DOMAIN p = 1 .. N
  OBVIOUS
<1>a. \A i \in 1 .. N + 1 : From(p)[i] \in Seq(Int)
  BY FromIs
<1>b. From(p)[N + 1] = << >>
  BY FromIs
<1>c. \A i \in 1 .. N : From(p)[i] = Mark(p, i) \o From(p)[i + 1]
  BY <1>0, FromIs DEF Flow
<1>1. 0 \in S
  <2>0. N - 0 + 1 = N + 1
    BY <1>0
  <2>1. w(N - 0 + 1) = << >> /\ DOMAIN << >> = {}
    BY <1>b, <2>0
  <2>2. N - 0 .. N - 1 = {}
    BY <1>0
  <2>3. Good(0)
    <3> HIDE DEF w
    <3> QED
      BY <2>1, <2>2
  <2> QED
    BY <2>3
<1>2. ASSUME NEW m \in S PROVE m + 1 \in S
  <2> SUFFICES ASSUME m + 1 <= N PROVE Good(m + 1)
    <3> HIDE DEF Good
    <3> QED OBVIOUS
  <2> DEFINE i == N - m
  <2>1. m \in Nat /\ i \in 1 .. N /\ N - (m + 1) + 1 = i /\ N - m + 1 = i + 1
        /\ N - (m + 1) = i - 1 /\ i \in Int
    BY <1>0
  <2>2. Good(m)
    <3> HIDE DEF Good
    <3> QED BY <2>1
  <2>3. w(i) = Mark(p, i) \o w(i + 1)
    BY <1>c, <2>1
  <2>4. w(i + 1) \in Seq(Int)
    <3>1. i + 1 \in 1 .. N + 1
      BY <1>0, <2>1
    <3> QED
      BY <1>a, <3>1
  <2>5. \A l : (\E j \in DOMAIN w(i + 1) : w(i + 1)[j] = l)
               <=> l \in i .. N - 1 /\ Marked(p[l + 1])
    BY <2>1, <2>2
  <2> HIDE DEF w, i
  <2>6. ASSUME NEW l
        PROVE  (\E j \in DOMAIN w(i) : w(i)[j] = l)
               <=> l \in i - 1 .. N - 1 /\ Marked(p[l + 1])
    <3>1. CASE ~ Marked(p[i])
      <4>1. w(i) = w(i + 1)
        BY <2>3, <2>4, <3>1, Cat DEF Mark
      <4>2. l \in i - 1 .. N - 1 /\ Marked(p[l + 1])
            <=> l \in i .. N - 1 /\ Marked(p[l + 1])
        BY <2>1, <3>1
      <4> QED
        BY <2>5, <4>1, <4>2
    <3>2. CASE Marked(p[i])
      <4> DEFINE v == w(i + 1)
      <4>1. w(i) = <<i - 1>> \o v /\ v \in Seq(Int) /\ <<i - 1>> \in Seq(Int)
        BY <2>1, <2>3, <2>4, <3>2 DEF Mark
      <4> HIDE DEF v
      <4>2. /\ DOMAIN w(i) = 1 .. Len(v) + 1 /\ w(i)[1] = i - 1
            /\ \A j \in 1 .. Len(v) : w(i)[j + 1] = v[j]
            /\ DOMAIN v = 1 .. Len(v) /\ Len(v) \in Nat
        <5> HIDE DEF w
        <5> QED BY ONLY <4>1, <2>1
      <4>3. (\E j \in DOMAIN w(i) : w(i)[j] = l)
            <=> l = i - 1 \/ \E j \in DOMAIN v : v[j] = l
        <5>1. ASSUME NEW j \in DOMAIN w(i), w(i)[j] = l
              PROVE  l = i - 1 \/ \E h \in DOMAIN v : v[h] = l
          <6>1. CASE j = 1
            BY <4>2, <5>1, <6>1
          <6>2. CASE j # 1
            <7>1. j - 1 \in 1 .. Len(v) /\ (j - 1) + 1 = j
              BY <4>2, <5>1, <6>2
            <7> QED
              BY <4>2, <5>1, <7>1
          <6> QED
            BY <6>1, <6>2
        <5>2. 1 \in DOMAIN w(i) /\ \A h \in DOMAIN v : h + 1 \in DOMAIN w(i)
          BY <4>2
        <5> QED
          BY <4>2, <5>1, <5>2
      <4>4. l \in i - 1 .. N - 1 /\ Marked(p[l + 1])
            <=> l = i - 1 \/ (l \in i .. N - 1 /\ Marked(p[l + 1]))
        <5>1. (i - 1) + 1 = i /\ i - 1 \in i - 1 .. N - 1
              /\ (l \in i - 1 .. N - 1 <=> l = i - 1 \/ l \in i .. N - 1)
          BY <1>0, <2>1
        <5> QED
          BY <3>2, <5>1
      <4> QED
        BY <2>5, <4>3, <4>4 DEF v
    <3> QED
      BY <3>1, <3>2
  <2> QED
    BY <2>1, <2>6
<1>3. S = Nat
  <2> HIDE DEF S
  <2>1. S \in SUBSET Nat
    BY DEF S
  <2> QED
    BY <1>1, <1>2, <2>1, SetInduction
<1>4. Good(N)
  <2>1. N \in S
    BY <1>0, <1>3
  <2> HIDE DEF Good
  <2> QED
    BY <1>0, <2>1
<1>5. N - N + 1 = 1 /\ N - N = 0
  BY <1>0
<1> QED
  BY <1>4, <1>5 DEF Whole

----------------------------------------------------------------------------
\* The steps of a call on its line.

\* Such a step from x and c leads to y and d: no line is left.
OnALine(x, y, c, d) ==
  /\ x.pc \in OnLine
  /\ y.pc \in OnLine \/ (y.pc = "fail" /\ d.err)
  /\ y.frame = x.frame /\ y.file = x.file /\ y.line = x.line
  /\ y.trace = x.trace
  /\ d.file = c.file /\ d.trial = c.trial /\ d.cur = c.cur
  /\ d.next \in {c.next, c.cur + 1}
  /\ d.resume = c.resume \/ (~ c.trial /\ d.resume = x.line + 1)

\* What is said of a line that is executed stays true on it.
LEMMA OnALineKeeps ==
  ASSUME NEW x, NEW y, NEW c, NEW d, x.line \in Int,
         SkipOK(x, c), OnALine(x, y, c, d)
  PROVE  SkipOK(y, d)
<1>1. /\ x.pc \notin {"idle", "announce", "verify", "launch", "return",
                      "check", "complete", "fail"}
      /\ y.pc \notin {"idle", "announce", "verify", "launch", "return",
                      "check", "complete"}
      /\ y.pc = "fail" => d.err
      /\ y.pc # "fail" => y.pc \in OnLine
  BY DEF OnALine, OnLine
<1>2. CASE x.frame # "real"
  BY <1>1, <1>2 DEF SkipOK, OnALine
<1>3. CASE x.frame = "real"
  <2>1. /\ ~ c.trial /\ Safe(x, c) /\ c.cur = x.line
        /\ Covers(Program[c.file], x.trace, x.line + 1)
    BY <1>3 DEF SkipOK, RealSkips, OnALine
  <2>2. Safe(y, d)
    BY <2>1 DEF Safe, OnALine
  <2>3. d.cur = y.line /\ Covers(Program[d.file], y.trace, y.line + 1)
    BY <2>1 DEF OnALine
  <2>4. RealSkips(y, d)
    BY <1>1, <2>1, <2>2, <2>3 DEF RealSkips, OnALine
  <2> QED
    BY <1>1, <1>3, <2>4 DEF SkipOK, OnALine
<1> QED
  BY <1>2, <1>3

\* The call, its line and the command on it.
LEMMA PlaceIs ==
  ASSUME NEW r \in Runs, InPlace(r), run[r].pc \in OnLine
  PROVE  /\ ctx \in Context /\ run \in Frames /\ run[r] \in RunRecords
         /\ run[r].line \in Int
         /\ Line(r) \in Command
         /\ CurrentOp(r) \notin Flow /\ Line(r).op \notin Flow
<1> DEFINE x == run[r]
           p == Program[x.file]
<1>1. ctx \in Context /\ run \in Frames /\ FrameOK(x) /\ Meant /\ Straight
  BY DEF InPlace, Before
<1>2. x \in RunRecords /\ x.line \in Int
  BY <1>1 DEF Frames, RunRecords
<1>3. x.file \in Files /\ x.line \in 0 .. Len(p) - 1
  BY <1>1 DEF FrameOK, OnLine
<1>4. p \in Seq(Command) /\ Structured(p)
      /\ \A i \in DOMAIN p : p[i].op \notin Flow
  BY <1>1, <1>3, ProgramAssumption DEF Meant, Straight
<1> HIDE DEF p
<1>5. x.line + 1 \in DOMAIN p /\ p[x.line + 1] \in Command
  BY <1>3, <1>4
<1>6. /\ p[x.line + 1].op \notin Flow /\ p[x.line + 1].child \notin Flow
  BY <1>4, <1>5 DEF Structured
<1>7. Line(r) = p[x.line + 1]
  BY DEF Line, p
<1> QED
  BY <1>1, <1>2, <1>5, <1>6, <1>7 DEF CurrentOp

\* The handlers of lines that do not branch move to the next line or stay.
Stays(c, d) ==
  /\ d \in Context
  /\ d.file = c.file /\ d.trial = c.trial /\ d.cur = c.cur
  /\ d.next \in {c.next, c.cur + 1} /\ d.resume = c.resume

\* MoveNextLine, G16 and G17, G90 and G91, and every handler that sends
\* nothing.
LEMMA HandlersStay ==
  ASSUME NEW c \in Context, NEW cmd \in Command
  PROVE  /\ Stays(c, c)
         /\ Stays(c, MoveNextLine(c))
         /\ Stays(c, DivideBegins(cmd, c)) /\ Stays(c, DivideEnds(c))
         /\ \A op : Stays(c, SetRunMode(op, c))
         /\ \A op : op \notin Flow => Stays(c, HandleSilently(cmd, op, c))
<1> DEFINE Same(d) == /\ d \in Context /\ d.file = c.file
                      /\ d.trial = c.trial /\ d.cur = c.cur
                      /\ d.next = c.next /\ d.resume = c.resume
<1>1. ASSUME NEW d, Same(d)
      PROVE  Stays(c, d) /\ Stays(c, MoveNextLine(d))
  <2>1. MoveNextLine(d) \in Context
    BY <1>1, MoveNextLineTyped
  <2>2. /\ MoveNextLine(d).file = d.file /\ MoveNextLine(d).trial = d.trial
        /\ MoveNextLine(d).cur = d.cur /\ MoveNextLine(d).resume = d.resume
        /\ MoveNextLine(d).next \in {d.next, d.cur + 1}
    BY <1>1 DEF MoveNextLine, Context
  <2> QED
    BY <1>1, <2>1, <2>2 DEF Stays
<1>2. Same(c)
  OBVIOUS
<1>3. ASSUME NEW d, Same(d)
      PROVE  /\ Same([d EXCEPT !.loop = 0, !.loopCtr = 0])
             /\ Same([d EXCEPT !.loop = cmd.n, !.loopCtr = 0])
             /\ \A v \in BOOLEAN : Same([d EXCEPT !.err = v])
  <2>1. cmd.n \in Int
    BY DEF Command
  <2>2. /\ [d EXCEPT !.loop = 0] \in Context
        /\ [d EXCEPT !.loop = cmd.n] \in Context
        /\ \A v \in BOOLEAN : [d EXCEPT !.err = v] \in Context
    BY <1>3, <2>1, PutContext
  <2>3. /\ [d EXCEPT !.loop = 0, !.loopCtr = 0] \in Context
        /\ [d EXCEPT !.loop = cmd.n, !.loopCtr = 0] \in Context
    BY <2>2, PutContext
  <2> QED
    BY <1>3, <2>2, <2>3 DEF Context
<1>4. ASSUME NEW d, Same(d)
      PROVE  Same(DivideBegins(cmd, d)) /\ Stays(c, DivideEnds(d))
  <2>1. Same(DivideBegins(cmd, d))
    BY <1>3, <1>4 DEF DivideBegins
  <2> DEFINE e == IF d.stop THEN d ELSE [d EXCEPT !.loop = 0, !.loopCtr = 0]
  <2>2. Same(e)
    BY <1>3, <1>4
  <2> HIDE DEF e
  <2>3. Stays(c, MoveNextLine(e))
    BY <1>1, <2>2
  <2> QED
    BY <2>1, <2>3 DEF DivideEnds, e
<1>5. ASSUME NEW op
      PROVE  Same(SetRunMode(op, c))
  BY SetRunModeTyped DEF SetRunMode, Context
<1>6. ASSUME NEW op, op \notin Flow
      PROVE  Stays(c, HandleSilently(cmd, op, c))
  <2> DEFINE d == HandleSilently(cmd, op, c)
             e(v) == [c EXCEPT !.err = v]
  <2>1. \/ d = e(TRUE) \/ d = c \/ d = MoveNextLine(e(FALSE))
        \/ d = MoveNextLine(e(TRUE)) \/ d = MoveNextLine(SetRunMode(op, c))
        \/ d = DivideEnds(DivideBegins(cmd, c))
    BY <1>6 DEF HandleSilently, Flow
  <2>2. Same(e(TRUE)) /\ Same(e(FALSE))
    BY <1>2, <1>3
  <2> HIDE DEF d, e, Same
  <2>3. Stays(c, DivideEnds(DivideBegins(cmd, c)))
    BY <1>2, <1>4
  <2>4. Stays(c, MoveNextLine(SetRunMode(op, c)))
    BY <1>1, <1>5
  <2>5. /\ Stays(c, e(TRUE)) /\ Stays(c, MoveNextLine(e(TRUE)))
        /\ Stays(c, MoveNextLine(e(FALSE))) /\ Stays(c, c)
    BY <1>1, <1>2, <2>2
  <2>6. Stays(c, d)
    BY <2>1, <2>3, <2>4, <2>5
  <2> QED
    BY <2>6 DEF d
<1> HIDE DEF Same
<1>7. Stays(c, c) /\ Stays(c, MoveNextLine(c))
  BY <1>1, <1>2
<1>8. Stays(c, DivideBegins(cmd, c)) /\ Stays(c, DivideEnds(c))
  BY <1>1, <1>2, <1>4
<1>9. \A op : Stays(c, SetRunMode(op, c))
  BY <1>1, <1>5
<1> QED
  BY <1>6, <1>7, <1>8, <1>9

\* A step on a line, of a handler or around it.
LEMMA StaysOnLine ==
  ASSUME NEW r \in Runs, InPlace(r), run[r].pc \in OnLine, Stays(ctx, ctx'),
         \/ run'[r].pc \in OnLine
         \/ run'[r].pc = "fail" /\ ctx'.err,
         run'[r].frame = run[r].frame, run'[r].file = run[r].file,
         run'[r].line = run[r].line, run'[r].trace = run[r].trace
  PROVE  SkipOK(run'[r], ctx')
<1>1. run[r].line \in Int /\ SkipOK(run[r], ctx)
  BY PlaceIs DEF InPlace
<1>2. OnALine(run[r], run'[r], ctx, ctx')
  BY DEF OnALine, Stays
<1> QED
  BY <1>1, <1>2, OnALineKeeps

\* HandleSilent: no line branches, and none but M99 clears the trace.
LEMMA HandleSilentSkips ==
  ASSUME NEW r \in Runs, InPlace(r), HandleSilent(r)
  PROVE  SkipOK(run'[r], ctx')
<1>1. run[r].pc = "handle" /\ run[r].pc \in OnLine
  BY DEF HandleSilent, At, OnLine
<1>2. /\ ctx \in Context /\ run \in Frames /\ run[r] \in RunRecords
      /\ Line(r) \in Command /\ CurrentOp(r) \notin Flow
  BY <1>1, PlaceIs
<1>3. Stays(ctx, ctx')
  BY <1>2, HandlersStay DEF HandleSilent
<1>4. CurrentOp(r) # "restart"
  BY <1>2 DEF Flow
<1>5. /\ run'[r].pc = "handled" /\ run'[r].frame = run[r].frame
      /\ run'[r].file = run[r].file /\ run'[r].line = run[r].line
      /\ run'[r].trace = run[r].trace
  BY <1>2, <1>4 DEF HandleSilent, Frames, RunRecords
<1> QED
  BY <1>1, <1>3, <1>5, StaysOnLine DEF OnLine

\* HandleRefused: the error is set, and nothing else.
LEMMA HandleRefusedSkips ==
  ASSUME NEW r \in Runs, InPlace(r), HandleRefused(r)
  PROVE  SkipOK(run'[r], ctx')
<1>1. run[r].pc = "handle" /\ run[r].pc \in OnLine
  BY DEF HandleRefused, At, OnLine
<1>2. /\ ctx \in Context /\ run \in Frames /\ run[r] \in RunRecords
  BY <1>1, PlaceIs
<1>3. Stays(ctx, ctx')
  BY <1>2 DEF HandleRefused, Stays, Context
<1>4. /\ run'[r].pc = "handled" /\ run'[r].frame = run[r].frame
      /\ run'[r].file = run[r].file /\ run'[r].line = run[r].line
      /\ run'[r].trace = run[r].trace
  BY <1>2 DEF HandleRefused, Goto, Frames, RunRecords
<1> QED
  BY <1>1, <1>3, <1>4, StaysOnLine DEF OnLine

\* HandleDivide, HandleSending and NextSegment prepare what is sent.
LEMMA HandleSendingSkips ==
  ASSUME NEW r \in Runs, InPlace(r), HandleDivide(r) \/ HandleSending(r)
  PROVE  SkipOK(run'[r], ctx')
<1>1. run[r].pc = "handle" /\ run[r].pc \in OnLine
  BY DEF HandleDivide, HandleSending, At, OnLine
<1>2. /\ ctx \in Context /\ run \in Frames /\ run[r] \in RunRecords
      /\ Line(r) \in Command
  BY <1>1, PlaceIs
<1>3. Stays(ctx, ctx')
  BY <1>2, HandlersStay DEF HandleDivide, HandleSending
<1>4. /\ run'[r].pc \in {"segment", "push"} /\ run'[r].frame = run[r].frame
      /\ run'[r].file = run[r].file /\ run'[r].line = run[r].line
      /\ run'[r].trace = run[r].trace
  <2>1. CASE HandleDivide(r)
    BY <1>2, <2>1 DEF HandleDivide, Frames, RunRecords
  <2>2. CASE HandleSending(r)
    BY <1>2, <2>2 DEF HandleSending, Frames, RunRecords
  <2> QED
    BY <2>1, <2>2
<1> QED
  BY <1>1, <1>3, <1>4, StaysOnLine DEF OnLine

\* NextSegment counts the segments.
LEMMA NextSegmentSkips ==
  ASSUME NEW r \in Runs, InPlace(r), NextSegment(r)
  PROVE  SkipOK(run'[r], ctx')
<1>1. run[r].pc = "segment" /\ run[r].pc \in OnLine
  BY DEF NextSegment, At, OnLine
<1>2. ctx \in Context /\ run \in Frames /\ run[r] \in RunRecords
  BY <1>1, PlaceIs
<1>3. Stays(ctx, ctx')
  <2>1. run[r].seg + 1 \in Nat
    BY <1>2 DEF RunRecords
  <2>2. ctx' = [ctx EXCEPT !.loopCtr = run[r].seg + 1]
    BY DEF NextSegment
  <2>3. ctx' \in Context
    BY <1>2, <2>1, <2>2, PutContext
  <2> QED
    BY <1>2, <2>2, <2>3 DEF Stays, Context
<1>4. /\ run'[r].pc = "push" /\ run'[r].frame = run[r].frame
      /\ run'[r].file = run[r].file /\ run'[r].line = run[r].line
      /\ run'[r].trace = run[r].trace
  BY <1>2 DEF NextSegment, Frames, RunRecords
<1> QED
  BY <1>1, <1>3, <1>4, StaysOnLine DEF OnLine

\* The steps that change the stage, and the context as a handler does.
LEMMA StageSkips ==
  ASSUME NEW r \in Runs, InPlace(r), run[r].pc \in OnLine,
         NEW v \in Stages, Goto(r, v) \/ WaitExecuteNextCommand(r, v),
         \/ v \in OnLine
         \/ v = "fail" /\ Goto(r, v) /\ ctx.err /\ ctx' = ctx,
         \/ ctx' = ctx \/ ctx' = MoveNextLine(ctx) \/ ctx' = DivideEnds(ctx)
  PROVE  SkipOK(run'[r], ctx')
<1>1. /\ ctx \in Context /\ run \in Frames /\ Line(r) \in Command
  BY PlaceIs
<1>2. Stays(ctx, ctx')
  BY <1>1, HandlersStay
<1>3. /\ run'[r].frame = run[r].frame
      /\ run'[r].file = run[r].file /\ run'[r].line = run[r].line
      /\ run'[r].trace = run[r].trace
      /\ run'[r].pc \in {"single", v}
      /\ Goto(r, v) => run'[r].pc = v
  BY <1>1, GotoIs, WaitIs
<1>4. run'[r].pc \in OnLine \/ (run'[r].pc = "fail" /\ ctx'.err)
  BY <1>3 DEF OnLine
<1> QED
  BY <1>2, <1>3, <1>4, StaysOnLine

\* NoMoreSegments, the three steps of WaitTillCmdComplete, Finished,
\* SegmentFinished, AfterSegment and HandlerFailed are such steps, ...
LEMMA StagesSkip ==
  ASSUME NEW r \in Runs, InPlace(r),
         \/ NoMoreSegments(r) \/ WaitTest(r) \/ WaitReceive(r) \/ WaitShut(r)
         \/ Finished(r) \/ SegmentFinished(r) \/ AfterSegment(r)
         \/ HandlerFailed(r)
  PROVE  SkipOK(run'[r], ctx')
<1>1. CASE NoMoreSegments(r)
  <2>1. run[r].pc \in OnLine /\ Goto(r, "handled") /\ ctx' = DivideEnds(ctx)
    BY <1>1 DEF NoMoreSegments, At, OnLine
  <2> QED
    BY <2>1, StageSkips DEF Stages, OnLine
<1>2. CASE WaitTest(r) \/ WaitReceive(r) \/ WaitShut(r)
  <2>1. /\ run[r].pc \in OnLine /\ ctx' = ctx
        /\ \E v \in {"receive", "shut", "acted"} : Goto(r, v)
    BY <1>2 DEF WaitTest, WaitReceive, WaitShut, At, OnLine
  <2> QED
    BY <2>1, StageSkips DEF Stages, OnLine
<1>3. CASE Finished(r)
  <2>1. /\ run[r].pc \in OnLine /\ Goto(r, "handled")
        /\ ctx' = ctx \/ ctx' = MoveNextLine(ctx)
    BY <1>3 DEF Finished, At, OnLine
  <2> QED
    BY <2>1, StageSkips DEF Stages, OnLine
<1>4. CASE SegmentFinished(r)
  <2>1. /\ run[r].pc \in OnLine /\ ctx' = ctx
        /\ \/ WaitExecuteNextCommand(r, "aftersegment")
           \/ Goto(r, "aftersegment")
    BY <1>4 DEF SegmentFinished, ContinueAt, At, OnLine
  <2> QED
    BY <2>1, StageSkips DEF Stages, OnLine
<1>5. CASE AfterSegment(r)
  <2>1. /\ run[r].pc \in OnLine
        /\ \/ Goto(r, "handled") /\ ctx' = DivideEnds(ctx)
           \/ Goto(r, "segment") /\ ctx' = ctx
    BY <1>5 DEF AfterSegment, At, OnLine
  <2> QED
    BY <2>1, StageSkips DEF Stages, OnLine
<1>6. CASE HandlerFailed(r)
  <2>1. /\ run[r].pc \in OnLine /\ Goto(r, "fail") /\ ctx.err /\ ctx' = ctx
    BY <1>6 DEF HandlerFailed, At, OnLine
  <2> QED
    BY <2>1, StageSkips DEF Stages
<1> QED
  BY <1>1, <1>2, <1>3, <1>4, <1>5, <1>6

\* ... and so are ChildCommand, SingleShut and PushAction.
LEMMA InlinesSkip ==
  ASSUME NEW r \in Runs, InPlace(r),
         ChildCommand(r) \/ SingleShut(r) \/ PushAction(r)
  PROVE  SkipOK(run'[r], ctx')
<1>1. run[r].pc \in OnLine /\ ctx' = ctx
  BY DEF ChildCommand, SingleShut, PushAction, At, OnLine
<1>2. /\ ctx \in Context /\ run \in Frames /\ run[r] \in RunRecords
      /\ Line(r) \in Command /\ FrameOK(run[r])
  BY <1>1, PlaceIs DEF InPlace, Before
<1>3. Stays(ctx, ctx')
  BY <1>1, <1>2, HandlersStay
<1>4. CASE ChildCommand(r)
  <2>1. CASE WaitExecuteNextCommand(r, "executed") \/ Goto(r, "executed")
    BY <1>1, <2>1, StageSkips DEF Stages, OnLine
  <2>2. CASE run' = [run EXCEPT ![r].pc = "handle", ![r].child = TRUE]
    <3>1. /\ run'[r].pc = "handle" /\ run'[r].frame = run[r].frame
          /\ run'[r].file = run[r].file /\ run'[r].line = run[r].line
          /\ run'[r].trace = run[r].trace
      BY <1>2, <2>2 DEF Frames, RunRecords
    <3> QED
      BY <1>1, <1>3, <3>1, StaysOnLine DEF OnLine
  <2> QED
    BY <1>4, <2>1, <2>2 DEF ChildCommand, ContinueAt
<1>5. CASE SingleShut(r)
  <2>1. /\ run[r].back \in {"aftersegment", "executed", "stopcheck"}
        /\ Goto(r, run[r].back)
    BY <1>2, <1>5 DEF SingleShut, At, FrameOK
  <2> QED
    BY <1>1, <2>1, StageSkips DEF Stages, OnLine
<1>6. CASE PushAction(r)
  <2>1. /\ run'[r].pc \in {"wait", "push"} /\ run'[r].frame = run[r].frame
        /\ run'[r].file = run[r].file /\ run'[r].line = run[r].line
        /\ run'[r].trace = run[r].trace
    BY <1>2, <1>6 DEF PushAction, Frames, RunRecords
  <2> QED
    BY <1>1, <1>3, <2>1, StaysOnLine DEF OnLine
<1> QED
  BY <1>4, <1>5, <1>6

\* BlockWait: once its block is executed a line is not the one to resume at.
LEMMA BlockWaitSkips ==
  ASSUME NEW r \in Runs, InPlace(r), BlockWait(r)
  PROVE  SkipOK(run'[r], ctx')
<1>1. run[r].pc \in OnLine
  BY DEF BlockWait, At, OnLine
<1>2. /\ ctx \in Context /\ run \in Frames /\ run[r].line \in Int
      /\ SkipOK(run[r], ctx)
  BY <1>1, PlaceIs DEF InPlace
<1>3. /\ WaitExecuteNextCommand(r, "stopcheck") \/ Goto(r, "stopcheck")
      /\ \/ ctx' = ctx
         \/ ~ ctx.trial /\ ctx' = [ctx EXCEPT !.resume = run[r].line + 1]
  BY DEF BlockWait, ContinueAt
<1>4. /\ run'[r].pc \in {"single", "stopcheck"}
      /\ run'[r].frame = run[r].frame
      /\ run'[r].file = run[r].file /\ run'[r].line = run[r].line
      /\ run'[r].trace = run[r].trace
  BY <1>2, <1>3, GotoIs, WaitIs DEF Stages
<1>5. /\ ctx'.file = ctx.file /\ ctx'.trial = ctx.trial
      /\ ctx'.cur = ctx.cur /\ ctx'.next = ctx.next
      /\ \/ ctx'.resume = ctx.resume
         \/ ~ ctx.trial /\ ctx'.resume = run[r].line + 1
  BY <1>2, <1>3 DEF Context
<1>6. OnALine(run[r], run'[r], ctx, ctx')
  BY <1>1, <1>4, <1>5 DEF OnALine, OnLine
<1> QED
  BY <1>2, <1>6, OnALineKeeps

----------------------------------------------------------------------------
\* The steps from line to line, and to and from the real run.

\* What is to be shown before and in the trial run, ...
LEMMA BeforeReal ==
  ASSUME NEW y, NEW d, y.frame # "real",
         y.pc \notin {"idle", "launch", "complete"},
         y.file = d.file, y.trace = << >>,
         y.frame = "trial" => d.trial /\ (y.pc # "return" => d.resume = 0)
  PROVE  SkipOK(y, d)
  BY DEF SkipOK

\* ... and in the real run.
LEMMA InReal ==
  ASSUME NEW y, NEW d, y.frame = "real", y.file = d.file, RealSkips(y, d)
  PROVE  SkipOK(y, d)
  BY DEF SkipOK, RealSkips

\* What comes before a line comes before the lines after it.
LEMMA CoversLess ==
  ASSUME NEW p, NEW t, NEW n, Covers(p, t, n), NEW m \in Nat, m <= n
  PROVE  Covers(p, t, m)
<1>1. n \in Nat
  BY DEF Covers
<1>2. \A k \in 0 .. Len(p) - 1 : k < m => k < n
  BY <1>1
<1> QED
  BY <1>2 DEF Covers

\* The frame of a call, and its program.
LEMMA FrameIs ==
  ASSUME NEW r \in Runs, InPlace(r), run[r].pc # "idle"
  PROVE  /\ ctx \in Context /\ run \in Frames /\ run[r] \in RunRecords
         /\ run[r].file = ctx.file /\ run[r].line \in Int
         /\ run[r].trace \in Seq(Int)
         /\ Program[ctx.file] \in Seq(Command)
         /\ Len(Program[ctx.file]) \in Nat
         /\ SkipOK(run[r], ctx)
<1>1. ctx \in Context /\ run \in Frames /\ FrameOK(run[r])
      /\ SkipOK(run[r], ctx)
  BY DEF InPlace, Before
<1>2. run[r] \in RunRecords
  BY <1>1 DEF Frames
<1>3. run[r].line \in Int /\ run[r].trace \in Seq(Int)
  BY <1>2 DEF RunRecords
<1>4. run[r].file = ctx.file /\ run[r].file \in Files
  BY <1>1 DEF SkipOK, FrameOK
<1>5. Program[ctx.file] \in Seq(Command)
  BY <1>4, ProgramAssumption
<1> QED
  BY <1>1, <1>2, <1>3, <1>4, <1>5

\* Announce: nothing is recorded yet.
LEMMA AnnounceSkips ==
  ASSUME NEW r \in Runs, InPlace(r), Announce(r)
  PROVE  SkipOK(run'[r], ctx')
<1>1. run[r].pc = "announce" /\ ctx' = ctx /\ Goto(r, "verify")
  BY DEF Announce, At
<1>2. run \in Frames /\ SkipOK(run[r], ctx)
  BY <1>1, FrameIs
<1>3. /\ run'[r].pc = "verify" /\ run'[r].frame = run[r].frame
      /\ run'[r].file = run[r].file /\ run'[r].trace = run[r].trace
  BY <1>1, <1>2, GotoIs DEF Stages
<1>4. /\ run[r].frame # "real" /\ run[r].trace = << >>
      /\ run[r].file = ctx.file
      /\ run[r].frame = "trial" => ctx.trial /\ ctx.resume = 0
  BY <1>1, <1>2 DEF SkipOK, RealSkips
<1> QED
  BY <1>1, <1>3, <1>4, BeforeReal

\* Verify: the trial run starts with no line to resume at.
LEMMA VerifySkips ==
  ASSUME NEW r \in Runs, InPlace(r), Verify(r)
  PROVE  SkipOK(run'[r], ctx')
<1>1. run[r].pc = "verify" /\ Execute(r, "trial", 0)
      /\ ctx' = [Reset(ctx) EXCEPT !.trial = TRUE]
  BY DEF Verify, At
<1>2. run \in Frames /\ SkipOK(run[r], ctx) /\ ctx \in Context
  BY <1>1, FrameIs
<1>3. /\ run'[r].pc = "check" /\ run'[r].frame = "trial"
      /\ run'[r].file = run[r].file /\ run'[r].trace = run[r].trace
  BY <1>1, <1>2, ExecuteIs
<1>4. run[r].trace = << >> /\ run[r].file = ctx.file
  BY <1>1, <1>2 DEF SkipOK, RealSkips
<1>5. ctx'.trial /\ ctx'.resume = 0 /\ ctx'.file = ctx.file
  BY <1>1, <1>2 DEF Reset, Context
<1> QED
  BY <1>3, <1>4, <1>5, BeforeReal

\* Launch: at the line to resume at, which passes over nothing.
LEMMA LaunchSkips ==
  ASSUME NEW r \in Runs, InPlace(r), Launch(r)
  PROVE  SkipOK(run'[r], ctx')
<1>1. run[r].pc = "launch" /\ Execute(r, "real", ctx.resume) /\ ctx' = ctx
  BY DEF Launch, At
<1>2. run \in Frames /\ SkipOK(run[r], ctx) /\ run[r].file = ctx.file
  BY <1>1, FrameIs
<1>3. /\ run'[r].pc = "check" /\ run'[r].frame = "real"
      /\ run'[r].line = ctx.resume
      /\ run'[r].file = run[r].file /\ run'[r].trace = run[r].trace
  BY <1>1, <1>2, ExecuteIs
<1>4. ~ ctx.trial /\ Safe(run[r], ctx)
  BY <1>1, <1>2 DEF SkipOK
<1>5. Safe(run'[r], ctx)
      /\ Covers(Program[ctx.file], run'[r].trace, ctx.resume)
  BY <1>3, <1>4 DEF Safe
<1>6. RealSkips(run'[r], ctx)
  BY <1>3, <1>4, <1>5 DEF RealSkips, OnLine
<1> QED
  BY <1>1, <1>2, <1>3, <1>6, InReal

\* Leave: behind the last line everything is executed.
LEMMA LeaveSkips ==
  ASSUME NEW r \in Runs, InPlace(r), Leave(r)
  PROVE  SkipOK(run'[r], ctx')
<1> DEFINE p == Program[ctx.file]
           t == run[r].trace
<1>1. /\ run[r].pc = "check" /\ ctx' = ctx /\ Goto(r, "return")
      /\ ctx.stop \/ ~ InRange(r)
  BY DEF Leave, At
<1>2. /\ run \in Frames /\ SkipOK(run[r], ctx) /\ run[r].file = ctx.file
      /\ Len(p) \in Nat /\ run[r].line \in Int
  BY <1>1, FrameIs
<1>3. /\ run'[r].pc = "return" /\ run'[r].frame = run[r].frame
      /\ run'[r].file = run[r].file /\ run'[r].trace = run[r].trace
  BY <1>1, <1>2, GotoIs DEF Stages
<1>4. CASE run[r].frame # "real"
  <2>1. /\ t = << >>
        /\ run[r].frame = "trial" => ctx.trial
    BY <1>1, <1>2, <1>4 DEF SkipOK
  <2> QED
    BY <1>1, <1>2, <1>3, <1>4, <2>1, BeforeReal
<1>5. CASE run[r].frame = "real"
  <2>1. ~ ctx.trial /\ Safe(run[r], ctx) /\ Covers(p, t, run[r].line)
    BY <1>1, <1>2, <1>5 DEF SkipOK, RealSkips
  <2>2. ctx.stop \/ Covers(p, t, Len(p))
    <3>1. CASE ~ InRange(r)
      <4>1. run[r].line \in Nat
        BY <2>1 DEF Covers
      <4>2. Len(p) <= run[r].line
        BY <1>2, <3>1, <4>1 DEF InRange
      <4> HIDE DEF p, t
      <4> QED
        BY <1>2, <2>1, <4>2, CoversLess
    <3> QED
      BY <1>1, <3>1
  <2>3. Safe(run'[r], ctx)
    BY <1>3, <2>1 DEF Safe
  <2>4. ctx.stop \/ CoversAll(run'[r], ctx)
    BY <1>3, <2>2 DEF CoversAll
  <2>5. RealSkips(run'[r], ctx)
    BY <1>3, <2>1, <2>3, <2>4 DEF RealSkips, OnLine
  <2> QED
    BY <1>1, <1>2, <1>3, <1>5, <2>5, InReal
<1> QED
  BY <1>4, <1>5

\* Check: the line is recorded, those before it were.
LEMMA CheckSkips ==
  ASSUME NEW r \in Runs, InPlace(r), Check(r)
  PROVE  SkipOK(run'[r], ctx')
<1> DEFINE p == Program[ctx.file]
           t == run[r].trace
           l == run[r].line
           u == IF Marked(p[l + 1]) THEN Append1(t, l) ELSE t
<1>1. /\ run[r].pc = "check" /\ InRange(r)
      /\ ctx' = [ctx EXCEPT !.cur = l]
      /\ run' = [run EXCEPT ![r].pc = "handle", ![r].child = FALSE,
               ![r].trace = IF run[r].frame = "real" /\ Marked(Line(r))
                            THEN Append1(@, run[r].line) ELSE @]
  BY DEF Check, At
<1>2. /\ run \in Frames /\ SkipOK(run[r], ctx) /\ run[r].file = ctx.file
      /\ p \in Seq(Command) /\ Len(p) \in Nat /\ l \in Int
      /\ t \in Seq(Int) /\ run[r] \in RunRecords /\ ctx \in Context
  BY <1>1, FrameIs
<1>3. Line(r) = p[l + 1]
  BY <1>2 DEF Line
<1>4. /\ run'[r].pc = "handle" /\ run'[r].frame = run[r].frame
      /\ run'[r].file = run[r].file /\ run'[r].line = l
      /\ run'[r].trace = IF run[r].frame = "real" THEN u ELSE t
  <2> HIDE DEF p
  <2> QED
    BY <1>1, <1>2, <1>3 DEF Frames, RunRecords
<1>5. /\ ctx'.file = ctx.file /\ ctx'.trial = ctx.trial /\ ctx'.cur = l
      /\ ctx'.next = ctx.next /\ ctx'.resume = ctx.resume
  BY <1>1, <1>2 DEF Context
<1>6. CASE run[r].frame # "real"
  <2>1. /\ t = << >>
        /\ run[r].frame = "trial" => ctx.trial /\ ctx.resume = 0
    BY <1>1, <1>2, <1>6 DEF SkipOK
  <2>2. run'[r].trace = << >>
    BY <1>4, <1>6, <2>1
  <2> QED
    BY <1>2, <1>4, <1>5, <1>6, <2>1, <2>2, BeforeReal
<1>7. CASE run[r].frame = "real"
  <2>1. /\ ~ ctx.trial /\ Sound(p, t) /\ Covers(p, t, l)
        /\ Covers(p, t, ctx.next) /\ Covers(p, t, ctx.resume)
    BY <1>1, <1>2, <1>7 DEF SkipOK, RealSkips, Safe
  <2>2. l \in 0 .. Len(p) - 1
    BY <1>1, <1>2 DEF InRange
  <2>3. run'[r].trace = u
    BY <1>4, <1>7
  <2>4. /\ Sound(p, u) /\ Covers(p, u, l + 1)
        /\ \A n : Covers(p, t, n) => Covers(p, u, n)
    <3> DEFINE v == u
    <3>1. v = IF Marked(p[l + 1]) THEN Append1(t, l) ELSE t
      OBVIOUS
    <3> HIDE DEF p, t, l, v
    <3>2. /\ Sound(p, v) /\ Covers(p, v, l + 1)
          /\ \A n : Covers(p, t, n) => Covers(p, v, n)
      BY <1>2, <2>1, <2>2, <3>1, CoversRecords
    <3> QED
      BY <3>2 DEF v
  <2> HIDE DEF u
  <2>5. Safe(run'[r], ctx')
    BY <1>5, <2>1, <2>3, <2>4 DEF Safe
  <2>6. RealSkips(run'[r], ctx')
    BY <1>4, <1>5, <2>1, <2>3, <2>4, <2>5 DEF RealSkips, OnLine
  <2> QED
    BY <1>2, <1>4, <1>5, <1>7, <2>6, InReal
<1> QED
  BY <1>6, <1>7

\* StopHere: the line to resume at is the first one, this one or the next.
LEMMA StopHereSkips ==
  ASSUME NEW r \in Runs, InPlace(r), StopHere(r)
  PROVE  SkipOK(run'[r], ctx')
<1> DEFINE p == Program[ctx.file]
           t == run[r].trace
           l == run[r].line
           n == ResumeLine(ctx, l)
<1>1. /\ run[r].pc = "stopcheck" /\ ctx.stop /\ Goto(r, "return")
      /\ ctx' = [ctx EXCEPT !.resume = n]
  BY DEF StopHere, At
<1>2. /\ run \in Frames /\ SkipOK(run[r], ctx) /\ run[r].file = ctx.file
      /\ l \in Int /\ ctx \in Context
  BY <1>1, FrameIs
<1>3. /\ run'[r].pc = "return" /\ run'[r].frame = run[r].frame
      /\ run'[r].file = run[r].file /\ run'[r].trace = run[r].trace
  BY <1>1, <1>2, GotoIs DEF Stages
<1>4. /\ ctx'.file = ctx.file /\ ctx'.trial = ctx.trial /\ ctx'.stop
      /\ ctx'.next = ctx.next /\ ctx'.resume = n
  BY <1>1, <1>2 DEF Context
<1>5. CASE run[r].frame # "real"
  <2>1. /\ t = << >>
        /\ run[r].frame = "trial" => ctx.trial
    BY <1>1, <1>2, <1>5 DEF SkipOK
  <2> QED
    BY <1>2, <1>3, <1>4, <1>5, <2>1, BeforeReal
<1>6. CASE run[r].frame = "real"
  <2>1. ~ ctx.trial /\ Safe(run[r], ctx) /\ Covers(p, t, l + 1)
    BY <1>1, <1>2, <1>6 DEF SkipOK, RealSkips, OnLine
  <2>2. l \in Nat
    <3>1. FrameOK(run[r])
      BY DEF InPlace, Before
    <3> QED
      BY <1>1, <1>2, <3>1 DEF FrameOK, OnLine
  <2>3. n \in {0, l, l + 1}
    BY DEF ResumeLine
  <2>4. n \in Nat /\ n <= l + 1
    BY <2>2, <2>3
  <2>5. Covers(p, t, n)
    <3> HIDE DEF p, t, n
    <3> QED
      BY <2>1, <2>2, <2>4, CoversLess
  <2> HIDE DEF n
  <2>6. Safe(run'[r], ctx')
    BY <1>3, <1>4, <2>1, <2>5 DEF Safe
  <2>7. RealSkips(run'[r], ctx')
    BY <1>3, <1>4, <2>1, <2>6 DEF RealSkips, OnLine
  <2> QED
    BY <1>2, <1>3, <1>4, <1>6, <2>7, InReal
<1> QED
  BY <1>5, <1>6

\* Recurse: neither does NextCmdLineToExec pass over a line.
LEMMA RecurseSkips ==
  ASSUME NEW r \in Runs, InPlace(r), Recurse(r)
  PROVE  SkipOK(run'[r], ctx')
<1>1. /\ run[r].pc = "stopcheck" /\ ctx' = ctx
      /\ Execute(r, run[r].frame, ctx.next)
  BY DEF Recurse, At
<1>2. run \in Frames /\ SkipOK(run[r], ctx) /\ run[r].file = ctx.file
  BY <1>1, FrameIs
<1>3. /\ run'[r].pc = "check" /\ run'[r].frame = run[r].frame
      /\ run'[r].line = ctx.next
      /\ run'[r].file = run[r].file /\ run'[r].trace = run[r].trace
  BY <1>1, <1>2, ExecuteIs
<1>4. CASE run[r].frame # "real"
  <2>1. /\ run[r].trace = << >>
        /\ run[r].frame = "trial" => ctx.trial /\ ctx.resume = 0
    BY <1>1, <1>2, <1>4 DEF SkipOK
  <2> QED
    BY <1>1, <1>2, <1>3, <1>4, <2>1, BeforeReal
<1>5. CASE run[r].frame = "real"
  <2>1. ~ ctx.trial /\ Safe(run[r], ctx)
    BY <1>1, <1>2, <1>5 DEF SkipOK, RealSkips
  <2>2. Safe(run'[r], ctx)
        /\ Covers(Program[ctx.file], run'[r].trace, ctx.next)
    BY <1>3, <2>1 DEF Safe
  <2>3. RealSkips(run'[r], ctx)
    BY <1>3, <2>1, <2>2 DEF RealSkips, OnLine
  <2> QED
    BY <1>1, <1>2, <1>3, <1>5, <2>3, InReal
<1> QED
  BY <1>4, <1>5

\* TrialReturns: the real run begins with the first line.
LEMMA TrialReturnsSkips ==
  ASSUME NEW r \in Runs, InPlace(r), TrialReturns(r)
  PROVE  SkipOK(run'[r], ctx')
<1>1. /\ run[r].pc = "return" /\ run[r].frame = "trial"
      /\ ctx' = Reset([ctx EXCEPT !.trial = FALSE]) /\ Goto(r, "launch")
  BY DEF TrialReturns, At
<1>2. /\ run \in Frames /\ SkipOK(run[r], ctx) /\ run[r].file = ctx.file
      /\ ctx \in Context
  BY <1>1, FrameIs
<1>3. /\ run'[r].pc = "launch" /\ run'[r].frame = "trial"
      /\ run'[r].file = run[r].file /\ run'[r].trace = run[r].trace
  BY <1>1, <1>2, GotoIs DEF Stages
<1>4. run[r].trace = << >>
  BY <1>1, <1>2 DEF SkipOK
<1>5. /\ ctx'.trial = FALSE /\ ctx'.resume = 0 /\ ctx'.next = 0
      /\ ctx'.file = ctx.file
  BY <1>1, <1>2 DEF Reset, Context
<1>6. Safe(run'[r], ctx')
  BY <1>3, <1>4, <1>5, CoversNothing DEF Safe
<1> QED
  BY <1>2, <1>3, <1>5, <1>6 DEF SkipOK

\* TrialFails, Stopped and Complete end the call: a program that was stopped
\* keeps what it executed.
LEMMA EndsSkip ==
  ASSUME NEW r \in Runs, InPlace(r),
         TrialFails(r) \/ Stopped(r) \/ Complete(r)
  PROVE  SkipOK(run'[r], ctx')
<1>1. run[r].pc # "idle"
  BY DEF TrialFails, Stopped, Complete, At
<1>2. /\ run \in Frames /\ SkipOK(run[r], ctx) /\ ctx \in Context
      /\ run[r] \in RunRecords
  BY <1>1, FrameIs
<1>3. CASE Stopped(r)
  <2>1. /\ run[r].frame = "real" /\ ctx' = ctx
        /\ run' = [run EXCEPT ![r] = [Idle EXCEPT !.trace = run[r].trace]]
    BY <1>3 DEF Stopped
  <2>2. /\ run'[r].pc = "idle" /\ run'[r].frame = "none"
        /\ run'[r].trace = run[r].trace
    BY <1>2, <2>1 DEF Idle, Frames
  <2>3. ~ ctx.trial /\ Safe(run[r], ctx)
    BY <1>2, <2>1 DEF SkipOK, RealSkips
  <2>4. Safe(run'[r], ctx)
    BY <2>2, <2>3 DEF Safe
  <2> QED
    BY <2>1, <2>2, <2>3, <2>4 DEF SkipOK
<1>4. CASE TrialFails(r) \/ Complete(r)
  <2>1. run' = [run EXCEPT ![r] = Idle]
    BY <1>4 DEF TrialFails, Complete
  <2>2. run'[r].pc = "idle" /\ run'[r].frame = "none"
    BY <1>2, <2>1 DEF Idle, Frames
  <2>3. ctx'.resume = 0
    <3>1. CASE TrialFails(r)
      BY <1>2, <3>1 DEF TrialFails, At, SkipOK
    <3>2. CASE Complete(r)
      BY <1>2, <3>2, ResetIs DEF Complete
    <3> QED
      BY <1>4, <3>1, <3>2
  <2> QED
    BY <2>2, <2>3 DEF SkipOK
<1> QED
  BY <1>3, <1>4

\* Completes: everything is executed, or a line failed.
LEMMA CompletesSkips ==
  ASSUME NEW r \in Runs, InPlace(r), Completes(r)
  PROVE  SkipOK(run'[r], ctx')
<1>1. /\ run[r].pc \in {"return", "fail"} /\ run[r].frame = "real"
      /\ ctx' = ctx /\ ~ ctx.stop /\ Goto(r, "complete")
  BY DEF Completes, At
<1>2. run \in Frames /\ SkipOK(run[r], ctx) /\ run[r].file = ctx.file
  BY <1>1, FrameIs
<1>3. /\ run'[r].pc = "complete" /\ run'[r].frame = run[r].frame
      /\ run'[r].file = run[r].file /\ run'[r].trace = run[r].trace
  BY <1>1, <1>2, GotoIs DEF Stages
<1>4. /\ ~ ctx.trial /\ Safe(run[r], ctx)
      /\ ctx.err \/ CoversAll(run[r], ctx)
  BY <1>1, <1>2 DEF SkipOK, RealSkips
<1>5. /\ Safe(run'[r], ctx)
      /\ ctx.err \/ CoversAll(run'[r], ctx)
  BY <1>3, <1>4 DEF Safe, CoversAll
<1>6. RealSkips(run'[r], ctx)
  BY <1>3, <1>4, <1>5 DEF RealSkips, OnLine
<1> QED
  BY <1>1, <1>2, <1>3, <1>6, InReal

\* No step of a call passes over a line.
LEMMA ExecutorSkips ==
  ASSUME NEW r \in Runs, InPlace(r), ExecutorStep(r)
  PROVE  SkipOK(run'[r], ctx')
BY AnnounceSkips, VerifySkips, LaunchSkips, LeaveSkips, CheckSkips,
   HandleSilentSkips, HandleRefusedSkips, HandleSendingSkips,
   NextSegmentSkips, StagesSkip, InlinesSkip, BlockWaitSkips, StopHereSkips, RecurseSkips,
   TrialReturnsSkips, EndsSkip, CompletesSkips
DEF ExecutorStep

----------------------------------------------------------------------------
\* The invariant: nothing is passed over and no reset is on its way.

AllSkip == \A r \in Runs : SkipOK(run[r], ctx)
SkipInv == AllSkip /\ Undisturbed

\* What is assumed of the operator: programs run one after the other.
Lone == \A r, s \in Runs : r = s

\* At first nothing runs and there is no line to resume at.
LEMMA SkipInit == Init => SkipInv
<1> SUFFICES ASSUME Init PROVE SkipInv
  OBVIOUS
<1>1. \A r \in Runs : run[r].pc = "idle" /\ run[r].frame = "none"
  BY DEF Init, ExecInit, Idle
<1>2. ctx.resume = 0
  BY DEF Init, ExecInit, Fresh
<1>3. AllSkip
  BY <1>1, <1>2 DEF AllSkip, SkipOK
<1>4. Undisturbed
  BY DEF Init, ChannelsInit, MotorInit, Undisturbed, Free
<1> QED
  BY <1>3, <1>4 DEF SkipInv

\* What is known of every call.
LEMMA AllInPlace ==
  ASSUME IInv, Meant, Straight, AllSkip, NEW r \in Runs
  PROVE  InPlace(r)
  BY DEF IInv, TypeOK, StackOK, Frames, Before, InPlace, AllSkip

\* A step of the call in progress.
LEMMA ExecutingSkips ==
  ASSUME IInv, Meant, Straight, Lone, SkipInv, NEW r \in Runs, Executing(r)
  PROVE  SkipInv'
<1>1. InPlace(r) /\ ExecutorStep(r)
  BY AllInPlace DEF SkipInv, Executing
<1>2. SkipOK(run'[r], ctx')
  BY <1>1, ExecutorSkips
<1>3. \A s \in Runs : SkipOK(run'[s], ctx')
  BY <1>2 DEF Lone
<1>4. Undisturbed'
  BY ExecutorUndisturbed DEF SkipInv
<1> QED
  BY <1>3, <1>4 DEF SkipInv, AllSkip

\* A change of neither the place of a call nor what the context says of it.
LEMMA SamePlace ==
  ASSUME NEW x, NEW y, NEW c, NEW d, SkipOK(x, c),
         y.pc = x.pc, y.frame = x.frame, y.file = x.file, y.line = x.line,
         y.trace = x.trace,
         d.file = c.file, d.trial = c.trial, d.cur = c.cur, d.next = c.next,
         d.resume = c.resume, d.err = c.err, c.stop => d.stop
  PROVE  SkipOK(y, d)
<1>1. Safe(x, c) => Safe(y, d)
  BY DEF Safe
<1>2. CoversAll(x, c) => CoversAll(y, d)
  BY DEF CoversAll
<1>3. RealSkips(x, c) => RealSkips(y, d)
  BY <1>1, <1>2 DEF RealSkips
<1> QED
  BY <1>1, <1>3 DEF SkipOK

\* A message of the input listener.
LEMMA ListenerSkips ==
  ASSUME IInv, Meant, Straight, Lone, AllSkip, Listener, ~ HearReset
  PROVE  AllSkip'
<1>0. ctx \in Context /\ run \in Frames
  BY DEF IInv, TypeOK, Frames
<1>1. SUFFICES \A r \in Runs : SkipOK(run'[r], ctx')
  BY DEF AllSkip
<1>2. CASE HearMode \/ HearECS
  <2>1. run' = run
    BY <1>2 DEF HearMode, HearECS
  <2>2. /\ ctx'.file = ctx.file /\ ctx'.trial = ctx.trial
        /\ ctx'.cur = ctx.cur /\ ctx'.next = ctx.next
        /\ ctx'.resume = ctx.resume /\ ctx'.err = ctx.err
        /\ ctx'.stop = ctx.stop
    BY <1>0, <1>2 DEF HearMode, HearECS, Context
  <2> QED
    BY <2>1, <2>2, SamePlace DEF AllSkip
<1>3. CASE HearNextLine \/ PushStop
  BY <1>3 DEF HearNextLine, PushStop, execVars, AllSkip
<1>4. CASE HearStop
  <2>1. /\ ctx'.file = ctx.file /\ ctx'.trial = ctx.trial
        /\ ctx'.cur = ctx.cur /\ ctx'.next = ctx.next
        /\ ctx'.resume = ctx.resume /\ ctx'.err = ctx.err
        /\ ctx'.stop
    BY <1>0, <1>4 DEF HearStop, Context
  <2>2. ASSUME NEW r \in Runs
        PROVE  SkipOK(run'[r], ctx')
    <3>1. run[r] \in RunRecords /\ SkipOK(run[r], ctx)
      BY <1>0 DEF Frames, AllSkip
    <3>2. \/ run'[r] = run[r]
          \/ run'[r] = [run[r] EXCEPT !.late = [@ EXCEPT !["stop"] = 0]]
      BY <1>4 DEF HearStop, MarkLate
    <3>3. /\ run'[r].pc = run[r].pc /\ run'[r].frame = run[r].frame
          /\ run'[r].file = run[r].file /\ run'[r].line = run[r].line
          /\ run'[r].trace = run[r].trace
      BY <3>1, <3>2 DEF RunRecords
    <3> QED
      BY <2>1, <3>1, <3>3, SamePlace
  <2> QED
    BY <2>2
<1>5. ASSUME NEW r \in Runs, SingleRendezvous(r)
      PROVE  \A s \in Runs : SkipOK(run'[s], ctx')
  <2>1. InPlace(r)
    BY AllInPlace
  <2>2. run[r].pc \in OnLine /\ Goto(r, "singleshut") /\ ctx' = ctx
    BY <1>5 DEF SingleRendezvous, At, OnLine
  <2>3. SkipOK(run'[r], ctx')
    BY <2>1, <2>2, StageSkips DEF Stages, OnLine
  <2> QED
    BY <2>3 DEF Lone
<1> QED
  BY <1>2, <1>3, <1>4, <1>5 DEF Listener, AllSkip

\* A program that is begun, or resumed where it was stopped: then the trace
\* is that of the calls before.
LEMMA StartSkips ==
  ASSUME IInv, Lone, AllSkip, NEW r \in Runs, NEW f \in Files, Start(r, f)
  PROVE  AllSkip'
<1> DEFINE c == PrepareExecutingFile(ctx, f)
           e == [ctx EXCEPT !.stop = FALSE, !.hasReset = FALSE]
<1>0. ctx \in Context /\ run \in Frames /\ run[r] \in RunRecords
      /\ SkipOK(run[r], ctx) /\ run[r].pc = "idle"
  BY DEF IInv, TypeOK, Frames, AllSkip, Start, At
<1>1. /\ ctx' = c
      /\ run' = [run EXCEPT ![r] =
           [Idle EXCEPT !.pc = IF c.resume > 0 THEN "launch" ELSE "announce",
                        !.file = f,
                        !.trace = IF c.resume > 0 THEN run[r].trace
                                                  ELSE << >>]]
  BY DEF Start
<1>2. /\ c.file = f /\ c.trial = ctx.trial
      /\ \/ c.resume = 0
         \/ ctx.file = f /\ c.resume = ctx.resume /\ c.next = ctx.next
  <2>1. e \in Context
    <3>1. [ctx EXCEPT !.stop = FALSE] \in Context
      BY <1>0, PutContext
    <3> QED
      BY <3>1, PutContext
  <2>2. /\ e.file = ctx.file /\ e.trial = ctx.trial
        /\ e.resume = ctx.resume /\ e.next = ctx.next
    BY <1>0 DEF Context
  <2> HIDE DEF e
  <2>3. CASE ctx.file = f
    <3>1. c = e
      BY <2>3 DEF PrepareExecutingFile, e
    <3> QED
      BY <2>2, <2>3, <3>1
  <2>4. CASE ctx.file # f
    <3>1. c = [Reset(e) EXCEPT !.file = f]
      BY <2>4 DEF PrepareExecutingFile, e
    <3>2. Reset(e) \in Context /\ Reset(e).trial = e.trial
          /\ Reset(e).resume = 0
      BY <2>1, ResetTyped, ResetIs
    <3> QED
      BY <2>2, <3>1, <3>2 DEF Context
  <2> QED
    BY <2>3, <2>4
<1> HIDE DEF c
<1>3. /\ run'[r].pc = IF c.resume > 0 THEN "launch" ELSE "announce"
      /\ run'[r].file = f /\ run'[r].frame = "none"
      /\ run'[r].trace = IF c.resume > 0 THEN run[r].trace ELSE << >>
  BY <1>0, <1>1 DEF Frames, Idle
<1>4. SkipOK(run'[r], ctx')
  <2>1. CASE c.resume > 0
    <3>1. ctx.file = f /\ c.resume = ctx.resume /\ c.next = ctx.next
      BY <1>2, <2>1
    <3>2. ~ ctx.trial /\ Safe(run[r], ctx)
      BY <1>0, <2>1, <3>1 DEF SkipOK
    <3>3. Safe(run'[r], c)
      BY <1>2, <1>3, <2>1, <3>1, <3>2 DEF Safe
    <3>4. /\ run'[r].pc = "launch" /\ run'[r].frame = "none"
          /\ run'[r].file = ctx'.file /\ ctx'.trial = ctx.trial /\ ctx' = c
      BY <1>1, <1>2, <1>3, <2>1
    <3> QED
      BY <3>2, <3>3, <3>4 DEF SkipOK
  <2>2. CASE ~ (c.resume > 0)
    <3>1. /\ run'[r].pc = "announce" /\ run'[r].frame = "none"
          /\ run'[r].file = ctx'.file /\ run'[r].trace = << >>
      BY <1>1, <1>2, <1>3, <2>2
    <3> QED
      BY <3>1, BeforeReal
  <2> QED
    BY <2>1, <2>2
<1>5. \A s \in Runs : SkipOK(run'[s], ctx')
  BY <1>4 DEF Lone
<1> QED
  BY <1>5 DEF AllSkip

\* Every step of the system passes over no line.
LEMMA SkipKeeps ==
  ASSUME Gentle, Meant, Straight, Lone, IInv, SkipInv, [Next]_vars
  PROVE  SkipInv'
<1>0. AllSkip /\ Undisturbed
  BY DEF SkipInv
<1>a. ASSUME run' = run, ctx' = ctx
      PROVE  AllSkip'
  BY <1>0, <1>a DEF AllSkip
<1>1. ASSUME NEW r \in Runs, Executing(r)
      PROVE  SkipInv'
  BY <1>1, ExecutingSkips
<1>2. ASSUME NEW n \in Notifiers, Notifying(n)
      PROVE  SkipInv'
  <2>1. Undisturbed'
    BY <1>0, <1>2 DEF Notifying, NotifyCmdComplete, Undisturbed, Free,
       motorVars, listenVars
  <2>2. AllSkip'
    BY <1>a, <1>2 DEF Notifying, execVars
  <2> QED
    BY <2>1, <2>2 DEF SkipInv
<1>3. CASE Motor
  <2>1. AllSkip'
    BY <1>a, <1>3 DEF Motor, execVars
  <2> QED
    BY <1>0, <1>3, <2>1, MotorUndisturbed DEF SkipInv
<1>4. CASE Listener
  <2>1. Undisturbed' /\ ~ HearReset
    BY <1>0, <1>4, OthersUndisturbed
  <2>2. AllSkip'
    BY <1>0, <1>4, <2>1, ListenerSkips
  <2> QED
    BY <2>1, <2>2 DEF SkipInv
<1>5. CASE SendAlarm \/ StopMovesNextLine
  <2>1. Undisturbed'
    BY <1>0, <1>5, OthersUndisturbed
  <2>2. AllSkip'
    BY <1>a, <1>5 DEF SendAlarm, StopMovesNextLine, execVars
  <2> QED
    BY <2>1, <2>2 DEF SkipInv
<1>6. CASE Operator
  <2>1. Undisturbed' /\ ~ PressReset /\ ~ PressSaveLine
    BY <1>0, <1>6, OthersUndisturbed
  <2>2. CASE PressStop \/ PressInput \/ (PressExecute /\ Refuse)
    <3>1. AllSkip'
      BY <1>a, <2>2 DEF PressStop, PressInput, Refuse, execVars
    <3> QED
      BY <2>1, <3>1 DEF SkipInv
  <2>3. ASSUME NEW r \in Runs, NEW f \in Files, Start(r, f)
        PROVE  SkipInv'
    <3>1. AllSkip'
      BY <1>0, <2>3, StartSkips
    <3> QED
      BY <2>1, <3>1 DEF SkipInv
  <2> QED
    BY <1>6, <2>1, <2>2, <2>3 DEF Operator, PressExecute
<1>7. CASE UNCHANGED vars
  <2>1. AllSkip'
    BY <1>a, <1>7 DEF vars, execVars
  <2>2. Undisturbed'
    BY <1>0, <1>7 DEF vars, channelVars, motorVars, listenVars, Undisturbed,
       Free
  <2> QED
    BY <2>1, <2>2 DEF SkipInv
<1> QED
  BY <1>1, <1>2, <1>3, <1>4, <1>5, <1>6, <1>7 DEF Next

\* What the invariant says of the lines that are executed.
LEMMA NonePassedOver ==
  ASSUME IInv, Meant, Straight, AllSkip
  PROVE  NothingSkipped
<1> SUFFICES ASSUME NEW r \in Runs
             PROVE  LET t == run[r].trace
                        all == Lines(run[r].file)
                    IN
      /\ run[r].frame = "real" =>
           \A i \in DOMAIN t, j \in DOMAIN all :
             all[j] < t[i] => \E k \in 1 .. i : t[k] = all[j]
      /\ Ending(r) => \/ Executed(r) = {all[j] : j \in DOMAIN all}
                      \/ EndedByError(r)
  BY DEF NothingSkipped
<1> DEFINE t == run[r].trace
           p == Program[ctx.file]
           all == Whole(p)
<1>0. InPlace(r) /\ SkipOK(run[r], ctx)
  BY AllInPlace DEF AllSkip
<1>1. Ending(r) => At(r, "complete")
  <2>1. ASSUME At(r, "handle")
        PROVE  CurrentOp(r) # "restart"
    <3>1. run[r].pc \in OnLine
      BY <2>1 DEF At, OnLine
    <3> QED
      BY <1>0, <3>1, PlaceIs DEF Flow
  <2> QED
    BY <2>1 DEF Ending
<1>2. At(r, "complete") => run[r].frame = "real"
  BY <1>0 DEF At, SkipOK
<1>3. ASSUME run[r].frame = "real"
      PROVE  /\ Lines(run[r].file) = all /\ Sound(p, t)
             /\ At(r, "complete") /\ ~ ctx.err => Covers(p, t, Len(p))
             /\ \A l : (\E j \in DOMAIN all : all[j] = l)
                       <=> l \in 0 .. Len(p) - 1 /\ Marked(p[l + 1])
             /\ Len(p) \in Nat
  <2>1. RealSkips(run[r], ctx)
    BY <1>0, <1>3 DEF SkipOK
  <2>2. run[r].pc # "idle"
    BY <2>1 DEF RealSkips
  <2>3. run[r].file = ctx.file /\ run[r].file \in Files
    BY <1>0, <2>2 DEF SkipOK, InPlace, Before, FrameOK
  <2>4. Lines(run[r].file) = all
    BY <2>3 DEF Lines, Whole
  <2>5. /\ Sound(p, t)
        /\ At(r, "complete") /\ ~ ctx.err => Covers(p, t, Len(p))
    BY <1>3, <2>1 DEF RealSkips, Safe, CoversAll, At
  <2>6. /\ p \in Seq(Command) /\ Structured(p) /\ Len(p) \in Nat
        /\ \A i \in DOMAIN p : p[i].op \notin Flow
    BY <2>3, ProgramAssumption DEF Meant, Straight
  <2> HIDE DEF p, t
  <2>7. \A l : (\E j \in DOMAIN all : all[j] = l)
               <=> l \in 0 .. Len(p) - 1 /\ Marked(p[l + 1])
    BY <2>6, StraightLines
  <2> QED
    BY <2>4, <2>5, <2>6, <2>7
<1> HIDE DEF p, all
<1>4. ASSUME run[r].frame = "real", NEW i \in DOMAIN t, NEW j \in DOMAIN all,
             all[j] < t[i]
      PROVE  \E k \in 1 .. i : t[k] = all[j]
  <2>1. all[j] \in 0 .. Len(p) - 1 /\ Marked(p[all[j] + 1])
    BY <1>3, <1>4
  <2> QED
    BY <1>3, <1>4, <2>1 DEF Sound
<1>5. ASSUME Ending(r), ~ EndedByError(r)
      PROVE  Executed(r) = {all[j] : j \in DOMAIN all}
  <2>1. run[r].frame = "real" /\ At(r, "complete") /\ ~ ctx.err
    BY <1>1, <1>2, <1>5 DEF EndedByError
  <2>2. ASSUME NEW i \in DOMAIN t
        PROVE  t[i] \in {all[j] : j \in DOMAIN all}
    BY <1>3, <2>1, <2>2 DEF Sound
  <2>3. ASSUME NEW j \in DOMAIN all
        PROVE  \E k \in DOMAIN t : t[k] = all[j]
    <3>1. all[j] \in 0 .. Len(p) - 1 /\ Marked(p[all[j] + 1])
      BY <1>3, <2>1, <2>3
    <3>2. all[j] < Len(p)
      BY <1>3, <2>1, <3>1
    <3> QED
      BY <1>3, <2>1, <3>1, <3>2 DEF Covers
  <2>4. Executed(r) = {t[i] : i \in DOMAIN t}
    BY DEF Executed
  <2> HIDE DEF t
  <2> QED
    BY <2>2, <2>3, <2>4
<1>6. Ending(r) => Lines(run[r].file) = all
  BY <1>1, <1>2, <1>3
<1> QED
  BY <1>3, <1>4, <1>5, <1>6

\* NothingSkipped: across stops and resumes, in single block mode or not, the
\* lines of a program without R, G10, M30 and M99 are executed with none
\* passed over, and PROGRAM_EXEC_COMPLETED is announced only when all were,
\* unless one failed.
THEOREM NothingSkippedHolds ==
  ASSUME Gentle, Meant, Straight, Lone
  PROVE  Spec => []NothingSkipped
<1>1. IInv /\ SkipInv /\ [Next]_vars => SkipInv'
  BY SkipKeeps
<1>2. IInv /\ SkipInv => NothingSkipped
  BY NonePassedOver DEF SkipInv
<1> QED
  BY <1>1, <1>2, SkipInit, InvariantHolds, PTL DEF Spec
=============================================================================
