--------------------------- MODULE ConsoleProofs ---------------------------
(***************************************************************************)
(* Proofs about Console, for every size of the terminal's arrays and of a  *)
(* byte, every mode, every length of a line and every bound.               *)
(*                                                                         *)
(* The text of the shell goes through folds over sequences: term_puts over *)
(* the characters, parse_args over the bytes of the line and join_args     *)
(* over its words.  A fold is what FoldLeft chooses among the functions on *)
(* sets of positions; Induction, on the set of the numbers for which a     *)
(* statement holds, shows that there is such a function and that its       *)
(* values on the first k positions are a chain (PutsChain, ParseChain,     *)
(* JoinChain).  What a step of the fold keeps is then kept by the fold.    *)
(*                                                                         *)
(* For parse_args that is Parsed, which relates the words found so far to  *)
(* the bytes read so far.  For term_puts it is Sound: the cursor is on the *)
(* grid (OnGrid), every cell but the cursor's shows its byte (Shows), and  *)
(* nothing has been written at the cursor or after it (Ahead).  Without    *)
(* Ahead the property is not inductive: term_putc blanks the cursor's cell *)
(* on the screen before it moves on, and leaves its byte in term_buffer.   *)
(***************************************************************************)
EXTENDS Console, FiniteSetTheorems, SequenceTheorems, WellFoundedInduction, TLAPS

-----------------------------------------------------------------------------
(* Folds.  A fold over a sequence passes through the values h[0], h[1], ... *)

\* A set of natural numbers that has 0 and is closed under successor.
LEMMA Induction ==
  ASSUME NEW T, T \subseteq Nat, 0 \in T, \A n \in T : n + 1 \in T
  PROVE  T = Nat
<1> DEFINE R == OpToRel(<, Nat)
<1> DEFINE U == Nat \ T
<1>1. IsWellFoundedOn(R, Nat)
  BY NatLessThanWellFounded
<1>2. \A x, y \in Nat : <<y, x>> \in R <=> y < x
  BY DEF OpToRel
<1> HIDE DEF R
<1>3. ASSUME U # {} PROVE FALSE
  <2>1. PICK x \in U : \A y \in U : ~(<<y, x>> \in R)
    BY <1>1, <1>3, WFMin
  <2>2. x \in Nat /\ x # 0
    OBVIOUS
  <2>3. x - 1 \in Nat /\ x - 1 < x
    BY <2>2
  <2>4. x - 1 \in T
    BY <1>2, <2>1, <2>2, <2>3
  <2>5. (x - 1) + 1 = x
    BY <2>2
  <2>6. QED
    BY <2>4, <2>5
<1>4. QED
  BY <1>3

\* The step of FoldLeft at the set s of positions, for the operation g.
FoldStep(g, base, f, s) == IF s = {} THEN base ELSE g[<<f[s \ {Max(s)}], Max(s)>>]

\* The last of a set of positions.
LEMMA MaxOfPositions ==
  ASSUME NEW n \in Nat, NEW s \in SUBSET (1..n + 1)
  PROVE  n + 1 \in s => Max(s) = n + 1
<1> SUFFICES ASSUME n + 1 \in s PROVE Max(s) = n + 1
  OBVIOUS
<1>1. \A y \in s : n + 1 >= y
  OBVIOUS
<1>2. \A x \in s : (\A y \in s : x >= y) => x = n + 1
  OBVIOUS
<1>3. QED
  BY <1>1, <1>2 DEF Max

\* A function that FoldLeft may choose, on the first n positions.
Folds(g, base, S, f, n) ==
  /\ f \in [SUBSET (1..n) -> S]
  /\ \A s \in SUBSET (1..n) : f[s] = FoldStep(g, base, f, s)

\* A non-empty set of positions has a last one.
LEMMA MaxIsMember ==
  ASSUME NEW n \in Nat, NEW s \in SUBSET (1..n), s # {}
  PROVE  Max(s) \in s
<1> DEFINE T == {m \in Nat : \A r \in SUBSET (1..m) : r # {} => Max(r) \in r}
<1>1. 0 \in T
  <2>1. 1..0 = {}
    OBVIOUS
  <2>2. QED
    BY <2>1
<1>2. ASSUME NEW m \in T PROVE m + 1 \in T
  <2> SUFFICES ASSUME NEW r \in SUBSET (1..m + 1), r # {} PROVE Max(r) \in r
    OBVIOUS
  <2>1. CASE m + 1 \in r
    BY <2>1, MaxOfPositions
  <2>2. CASE m + 1 \notin r
    <3>1. r \in SUBSET (1..m)
      BY <2>2
    <3>2. QED
      BY <3>1
  <2>3. QED
    BY <2>1, <2>2
<1> HIDE DEF T
<1>3. T = Nat
  <2>1. T \subseteq Nat
    BY DEF T
  <2>2. QED
    BY <1>1, <1>2, <2>1, Induction
<1>4. QED
  BY <1>3 DEF T

\* There is a function that FoldLeft may choose.
LEMMA FoldExists ==
  ASSUME NEW S, NEW base \in S, NEW n \in Nat, NEW g \in [S \X (1..n) -> S]
  PROVE  \E f : Folds(g, base, S, f, n)
<1> DEFINE T == {m \in Nat : m <= n => \E f : Folds(g, base, S, f, m)}
<1>1. 0 \in T
  <2> DEFINE c == [s \in SUBSET (1..0) |-> base]
  <2>1. 1..0 = {}
    OBVIOUS
  <2>2. Folds(g, base, S, c, 0)
    BY <2>1 DEF Folds, FoldStep
  <2>3. \E h : Folds(g, base, S, h, 0)
    BY <2>2
  <2>4. QED
    BY <2>3
<1>2. ASSUME NEW m \in T PROVE m + 1 \in T
  <2> SUFFICES ASSUME m + 1 <= n PROVE \E f : Folds(g, base, S, f, m + 1)
    OBVIOUS
  <2>1. PICK f : Folds(g, base, S, f, m)
    OBVIOUS
  <2> DEFINE k == m + 1
  <2> DEFINE e == [s \in SUBSET (1..k) |-> IF k \in s THEN g[<<f[s \ {k}], k>>] ELSE f[s]]
  <2>2. m \in Nat /\ k \in 1..n
    OBVIOUS
  <2>3. ASSUME NEW s \in SUBSET (1..k), k \notin s PROVE s \in SUBSET (1..m)
    BY <2>2, <2>3
  <2>4. ASSUME NEW s \in SUBSET (1..k), k \in s
        PROVE  /\ s \ {k} \in SUBSET (1..m) /\ s \ {k} \in SUBSET (1..k) /\ k \notin s \ {k}
               /\ Max(s) = k /\ s # {}
    BY <2>2, <2>4, MaxOfPositions
  <2> HIDE DEF k
  <2>5. ASSUME NEW s \in SUBSET (1..k) PROVE e[s] \in S /\ e[s] = FoldStep(g, base, e, s)
    <3>1. CASE k \in s
      <4>1. e[s] = g[<<f[s \ {k}], k>>] /\ f[s \ {k}] \in S
        BY <2>1, <2>4, <3>1 DEF Folds
      <4>2. e[s \ {k}] = f[s \ {k}]
        BY <2>4, <3>1
      <4>3. FoldStep(g, base, e, s) = g[<<e[s \ {k}], k>>]
        BY <2>4, <3>1 DEF FoldStep
      <4>4. QED
        BY <2>2, <4>1, <4>2, <4>3
    <3>2. CASE k \notin s
      <4>1. s \in SUBSET (1..m) /\ e[s] = f[s]
        BY <2>3, <3>2
      <4>2. f[s] \in S /\ f[s] = FoldStep(g, base, f, s)
        BY <2>1, <4>1 DEF Folds
      <4>3. CASE s = {}
        BY <4>1, <4>2, <4>3 DEF FoldStep
      <4>4. CASE s # {}
        <5>1. s \ {Max(s)} \in SUBSET (1..k) /\ k \notin s \ {Max(s)}
          BY <3>2
        <5>2. e[s \ {Max(s)}] = f[s \ {Max(s)}]
          BY <5>1
        <5>3. QED
          BY <4>1, <4>2, <4>4, <5>2 DEF FoldStep
      <4>5. QED
        BY <4>3, <4>4
    <3>3. QED
      BY <3>1, <3>2
  <2>6. Folds(g, base, S, e, k)
    BY <2>5 DEF Folds
  <2>7. QED
    BY <2>6 DEF k
<1> HIDE DEF T
<1>3. T = Nat
  <2>1. T \subseteq Nat
    BY DEF T
  <2>2. QED
    BY <1>1, <1>2, <2>1, Induction
<1>4. QED
  BY <1>3 DEF T

\* On the first k positions, r has g's values.
FoldsBy(g, S, r, n) ==
  \A k \in 1..n : r[1..(k - 1)] \in S => r[1..k] = g[<<r[1..(k - 1)], k>>]

\* h goes from base to r's value on all positions.
IsChain(h, g, S, base, r, n) ==
  /\ h \in [0..n -> S] /\ h[0] = base /\ h[n] = r[1..n]
  /\ \A k \in 1..n : h[k] = g[<<h[k - 1], k>>]

\* r is what FoldLeft chooses: its values on the first k positions make a chain.
LEMMA FoldSteps ==
  ASSUME NEW S, NEW base \in S, NEW n \in Nat, NEW g \in [S \X (1..n) -> S],
         NEW r, r[{}] = base, FoldsBy(g, S, r, n)
  PROVE  \E h : IsChain(h, g, S, base, r, n)
<1> DEFINE h == [k \in 0..n |-> r[1..k]]
<1>1. h[0] = base
  <2>1. 1..0 = {} /\ 0 \in 0..n
    OBVIOUS
  <2>2. QED
    BY <2>1
<1>2. ASSUME NEW k \in 1..n, h[k - 1] \in S PROVE h[k] = g[<<h[k - 1], k>>] /\ h[k] \in S
  <2>1. k \in 0..n /\ k - 1 \in 0..n
    OBVIOUS
  <2>2. h[k] = r[1..k] /\ h[k - 1] = r[1..(k - 1)]
    BY <2>1
  <2>3. h[k] = g[<<h[k - 1], k>>]
    BY <1>2, <2>2 DEF FoldsBy
  <2>4. QED
    BY <1>2, <2>3
<1>3. h[n] = r[1..n] /\ DOMAIN h = 0..n /\ h = [k \in 0..n |-> h[k]]
  OBVIOUS
<1> HIDE DEF h
<1>4. \A k \in 0..n : h[k] \in S
  <2> DEFINE T == {m \in Nat : m <= n => h[m] \in S}
  <2>1. 0 \in T
    BY <1>1
  <2>2. ASSUME NEW m \in T PROVE m + 1 \in T
    <3> SUFFICES ASSUME m + 1 <= n PROVE h[m + 1] \in S
      OBVIOUS
    <3>1. m + 1 \in 1..n /\ (m + 1) - 1 = m
      OBVIOUS
    <3>2. h[m] \in S
      OBVIOUS
    <3>3. QED
      BY <1>2, <3>1, <3>2
  <2> HIDE DEF T
  <2>3. T = Nat
    <3>1. T \subseteq Nat
      BY DEF T
    <3>2. QED
      BY <2>1, <2>2, <3>1, Induction
  <2>4. QED
    BY <2>3 DEF T
<1>5. \A k \in 1..n : h[k] = g[<<h[k - 1], k>>]
  <2> SUFFICES ASSUME NEW k \in 1..n PROVE h[k] = g[<<h[k - 1], k>>]
    OBVIOUS
  <2>1. h[k - 1] \in S
    BY <1>4
  <2>2. QED
    BY <1>2, <2>1
<1>6. h \in [0..n -> S]
  BY <1>3, <1>4
<1>7. IsChain(h, g, S, base, r, n)
  BY <1>1, <1>3, <1>5, <1>6 DEF IsChain
<1>8. QED
  BY <1>7

\* The step of a fold on the non-empty sets of positions.
LEMMA FoldStepsOn ==
  ASSUME NEW S, NEW base \in S, NEW n \in Nat, NEW g \in [S \X (1..n) -> S],
         NEW f, Folds(g, base, S, f, n), NEW s \in SUBSET (1..n), s # {}
  PROVE  /\ f[s] = g[<<f[s \ {Max(s)}], Max(s)>>]
         /\ f[s \ {Max(s)}] \in S /\ Max(s) \in 1..n
<1>1. Max(s) \in 1..n
  BY MaxIsMember
<1>2. s \ {Max(s)} \in SUBSET (1..n)
  OBVIOUS
<1>3. QED
  BY <1>1, <1>2 DEF Folds, FoldStep

\* The sets of positions that a chain goes through.
LEMMA PositionSets ==
  ASSUME NEW n \in Nat, NEW k \in 1..n
  PROVE  /\ 1..k \in SUBSET (1..n) /\ 1..k # {} /\ Max(1..k) = k
         /\ (1..k) \ {k} = 1..(k - 1)
<1>1. 1..k \in SUBSET (1..n) /\ k \in 1..k
  OBVIOUS
<1>2. Max(1..k) = k
  BY DEF Max
<1>3. (1..k) \ {k} = 1..(k - 1)
  OBVIOUS
<1>4. 1..k # {}
  BY <1>1
<1>5. QED
  BY <1>1, <1>2, <1>3, <1>4

\* h passes through the values of the fold of term_putc over str.
Chain(h, t, str, S) ==
  /\ h \in [0..Len(str) -> S] /\ h[0] = t
  /\ \A k \in 1..Len(str) : h[k] = term_putc(h[k - 1], str[k])

\* term_puts sends the characters one by one.
LEMMA PutsChain ==
  ASSUME NEW S, NEW C, NEW str \in Seq(C), NEW t, t \in S,
         \A u \in S : \A ch \in C : term_putc(u, ch) \in S
  PROVE  \E h : Chain(h, t, str, S) /\ term_puts(t, str) = h[Len(str)]
<1> DEFINE n == Len(str)
<1> DEFINE D == SUBSET (DOMAIN str)
<1> DEFINE g == [p \in S \X (1..n) |-> term_putc(p[1], str[p[2]])]
<1> DEFINE Folded(f) ==
      f = [s \in D |-> IF s = {} THEN t ELSE term_putc(f[s \ {Max(s)}], str[Max(s)])]
<1> DEFINE r == CHOOSE f : Folded(f)
<1>1. n \in Nat /\ DOMAIN str = 1..n /\ \A k \in 1..n : str[k] \in C
  OBVIOUS
<1>2. g \in [S \X (1..n) -> S]
  BY <1>1
<1>3. \A u \in S : \A k \in 1..n : g[<<u, k>>] = term_putc(u, str[k])
  OBVIOUS
<1>4. term_puts(t, str) = r[DOMAIN str]
  BY DEF term_puts, FoldLeft, MapThenFoldSet
<1> HIDE DEF g, n
<1>5. \E f : Folded(f)
  <2>1. PICK f : Folds(g, t, S, f, n)
    BY <1>1, <1>2, FoldExists
  <2>2. ASSUME NEW s \in D
        PROVE  f[s] = IF s = {} THEN t ELSE term_putc(f[s \ {Max(s)}], str[Max(s)])
    <3>1. s \in SUBSET (1..n) /\ f[s] = FoldStep(g, t, f, s)
      BY <1>1, <2>1 DEF Folds
    <3>2. CASE s = {}
      BY <3>1, <3>2 DEF FoldStep
    <3>3. CASE s # {}
      <4>1. /\ f[s] = g[<<f[s \ {Max(s)}], Max(s)>>]
            /\ f[s \ {Max(s)}] \in S /\ Max(s) \in 1..n
        BY <1>1, <1>2, <2>1, <3>1, <3>3, FoldStepsOn
      <4>2. QED
        BY <1>3, <3>3, <4>1
    <3>4. QED
      BY <3>2, <3>3
  <2>3. f = [s \in D |-> f[s]]
    BY <1>1, <2>1 DEF Folds
  <2>4. Folded(f)
    BY <2>2, <2>3
  <2>5. QED
    BY <2>4
<1>6. Folded(r)
  BY <1>5
<1> HIDE DEF r
<1>7. \A s \in D : r[s] = IF s = {} THEN t ELSE term_putc(r[s \ {Max(s)}], str[Max(s)])
  BY <1>6
<1>8. r[{}] = t
  BY <1>7
<1>9. ASSUME NEW k \in 1..n, r[1..(k - 1)] \in S PROVE r[1..k] = g[<<r[1..(k - 1)], k>>]
  <2>1. 1..k \in D /\ 1..k # {} /\ Max(1..k) = k /\ (1..k) \ {k} = 1..(k - 1)
    BY <1>1, PositionSets
  <2>2. r[1..k] = term_putc(r[1..(k - 1)], str[k])
    BY <1>7, <2>1
  <2>3. QED
    BY <1>3, <1>9, <2>2
<1>10. PICK h : IsChain(h, g, S, t, r, n)
  <2>1. n \in Nat
    BY <1>1
  <2>2. FoldsBy(g, S, r, n)
    BY <1>9 DEF FoldsBy
  <2>3. QED
    BY <1>2, <1>8, <2>1, <2>2, FoldSteps
<1>11. \A k \in 1..n : h[k] = term_putc(h[k - 1], str[k])
  <2> SUFFICES ASSUME NEW k \in 1..n PROVE h[k] = term_putc(h[k - 1], str[k])
    OBVIOUS
  <2>1. h[k - 1] \in S
    BY <1>1, <1>10 DEF IsChain
  <2>2. QED
    BY <1>3, <1>10, <2>1 DEF IsChain
<1>12. Chain(h, t, str, S)
  BY <1>10, <1>11 DEF Chain, IsChain, n
<1>13. h[n] = term_puts(t, str)
  BY <1>1, <1>4, <1>10 DEF IsChain
<1>14. QED
  BY <1>12, <1>13 DEF n

\* parse_args begins with these.
NoWords == [words |-> <<>>, inWord |-> FALSE, full |-> FALSE]

\* h passes through the values of the fold of ParseByte over l.
Parsing(h, l, S) ==
  /\ h \in [0..Len(l) -> S] /\ h[0] = NoWords
  /\ \A k \in 1..Len(l) : h[k] = ParseByte(h[k - 1], l[k])

\* parse_args looks at the bytes one by one.
LEMMA ParseChain ==
  ASSUME NEW S, NEW C, NEW l \in Seq(C), NoWords \in S,
         \A u \in S : \A ch \in C : ParseByte(u, ch) \in S
  PROVE  \E h : Parsing(h, l, S) /\ parse_args(l) = h[Len(l)].words
<1> DEFINE n == Len(l)
<1> DEFINE D == SUBSET (DOMAIN l)
<1> DEFINE g == [p \in S \X (1..n) |-> ParseByte(p[1], l[p[2]])]
<1> DEFINE Folded(f) ==
      f = [s \in D |-> IF s = {} THEN NoWords ELSE ParseByte(f[s \ {Max(s)}], l[Max(s)])]
<1> DEFINE r == CHOOSE f : Folded(f)
<1>1. n \in Nat /\ DOMAIN l = 1..n /\ \A k \in 1..n : l[k] \in C
  OBVIOUS
<1>2. g \in [S \X (1..n) -> S]
  BY <1>1
<1>3. \A u \in S : \A k \in 1..n : g[<<u, k>>] = ParseByte(u, l[k])
  OBVIOUS
<1>4. parse_args(l) = r[DOMAIN l].words
  BY DEF parse_args, NoWords, FoldLeft, MapThenFoldSet
<1> HIDE DEF g, n
<1>5. \E f : Folded(f)
  <2>1. PICK f : Folds(g, NoWords, S, f, n)
    BY <1>1, <1>2, FoldExists
  <2>2. ASSUME NEW s \in D
        PROVE  f[s] = IF s = {} THEN NoWords ELSE ParseByte(f[s \ {Max(s)}], l[Max(s)])
    <3>1. s \in SUBSET (1..n) /\ f[s] = FoldStep(g, NoWords, f, s)
      BY <1>1, <2>1 DEF Folds
    <3>2. CASE s = {}
      BY <3>1, <3>2 DEF FoldStep
    <3>3. CASE s # {}
      <4>1. /\ f[s] = g[<<f[s \ {Max(s)}], Max(s)>>]
            /\ f[s \ {Max(s)}] \in S /\ Max(s) \in 1..n
        BY <1>1, <1>2, <2>1, <3>1, <3>3, FoldStepsOn
      <4>2. QED
        BY <1>3, <3>3, <4>1
    <3>4. QED
      BY <3>2, <3>3
  <2>3. f = [s \in D |-> f[s]]
    BY <1>1, <2>1 DEF Folds
  <2>4. Folded(f)
    BY <2>2, <2>3
  <2>5. QED
    BY <2>4
<1>6. Folded(r)
  BY <1>5
<1> HIDE DEF r
<1>7. \A s \in D : r[s] = IF s = {} THEN NoWords ELSE ParseByte(r[s \ {Max(s)}], l[Max(s)])
  BY <1>6
<1>8. r[{}] = NoWords
  BY <1>7
<1>9. ASSUME NEW k \in 1..n, r[1..(k - 1)] \in S PROVE r[1..k] = g[<<r[1..(k - 1)], k>>]
  <2>1. 1..k \in D /\ 1..k # {} /\ Max(1..k) = k /\ (1..k) \ {k} = 1..(k - 1)
    BY <1>1, PositionSets
  <2>2. r[1..k] = ParseByte(r[1..(k - 1)], l[k])
    BY <1>7, <2>1
  <2>3. QED
    BY <1>3, <1>9, <2>2
<1>10. PICK h : IsChain(h, g, S, NoWords, r, n)
  <2>1. n \in Nat
    BY <1>1
  <2>2. FoldsBy(g, S, r, n)
    BY <1>9 DEF FoldsBy
  <2>3. QED
    BY <1>2, <1>8, <2>1, <2>2, FoldSteps
<1>11. \A k \in 1..n : h[k] = ParseByte(h[k - 1], l[k])
  <2> SUFFICES ASSUME NEW k \in 1..n PROVE h[k] = ParseByte(h[k - 1], l[k])
    OBVIOUS
  <2>1. h[k - 1] \in S
    BY <1>1, <1>10 DEF IsChain
  <2>2. QED
    BY <1>3, <1>10, <2>1 DEF IsChain
<1>12. Parsing(h, l, S)
  BY <1>10, <1>11 DEF Parsing, IsChain, n
<1>13. h[n].words = parse_args(l)
  BY <1>1, <1>4, <1>10 DEF IsChain
<1>14. QED
  BY <1>12, <1>13 DEF n

\* join_args appends a word.
Joined(text, w) == IF text = <<>> THEN w ELSE text \o <<Blank>> \o w

\* h passes through the values of the fold of Joined over the words.
Joining(h, l, S) ==
  /\ h \in [0..Len(l) -> S] /\ h[0] = <<>>
  /\ \A k \in 1..Len(l) : h[k] = Joined(h[k - 1], l[k])

\* join_args appends the words one by one.
LEMMA JoinChain ==
  ASSUME NEW S, NEW C, NEW l \in Seq(C), <<>> \in S,
         \A u \in S : \A ch \in C : Joined(u, ch) \in S
  PROVE  \E h : Joining(h, l, S) /\ join_args(l, 1) = h[Len(l)]
<1> DEFINE n == Len(l)
<1> DEFINE D == SUBSET (DOMAIN l)
<1> DEFINE g == [p \in S \X (1..n) |-> Joined(p[1], l[p[2]])]
<1> DEFINE Folded(f) ==
      f = [s \in D |-> IF s = {} THEN <<>> ELSE Joined(f[s \ {Max(s)}], l[Max(s)])]
<1> DEFINE r == CHOOSE f : Folded(f)
<1>1. n \in Nat /\ DOMAIN l = 1..n /\ \A k \in 1..n : l[k] \in C
  OBVIOUS
<1>2. g \in [S \X (1..n) -> S]
  BY <1>1
<1>3. \A u \in S : \A k \in 1..n : g[<<u, k>>] = Joined(u, l[k])
  OBVIOUS
<1>4. join_args(l, 1) = r[DOMAIN l]
  <2>1. SubSeq(l, 1, Len(l)) = l
    OBVIOUS
  <2>2. join_args(l, 1) = FoldLeft(Joined, <<>>, l)
    BY <2>1 DEF join_args, Joined
  <2>3. FoldLeft(Joined, <<>>, l) = r[DOMAIN l]
    BY DEF FoldLeft, MapThenFoldSet
  <2>4. QED
    BY <2>2, <2>3
<1> HIDE DEF g, n
<1>5. \E f : Folded(f)
  <2>1. PICK f : Folds(g, <<>>, S, f, n)
    BY <1>1, <1>2, FoldExists
  <2>2. ASSUME NEW s \in D
        PROVE  f[s] = IF s = {} THEN <<>> ELSE Joined(f[s \ {Max(s)}], l[Max(s)])
    <3>1. s \in SUBSET (1..n) /\ f[s] = FoldStep(g, <<>>, f, s)
      BY <1>1, <2>1 DEF Folds
    <3>2. CASE s = {}
      BY <3>1, <3>2 DEF FoldStep
    <3>3. CASE s # {}
      <4>1. /\ f[s] = g[<<f[s \ {Max(s)}], Max(s)>>]
            /\ f[s \ {Max(s)}] \in S /\ Max(s) \in 1..n
        BY <1>1, <1>2, <2>1, <3>1, <3>3, FoldStepsOn
      <4>2. QED
        BY <1>3, <3>3, <4>1
    <3>4. QED
      BY <3>2, <3>3
  <2>3. f = [s \in D |-> f[s]]
    BY <1>1, <2>1 DEF Folds
  <2>4. Folded(f)
    BY <2>2, <2>3
  <2>5. QED
    BY <2>4
<1>6. Folded(r)
  BY <1>5
<1> HIDE DEF r
<1>7. \A s \in D : r[s] = IF s = {} THEN <<>> ELSE Joined(r[s \ {Max(s)}], l[Max(s)])
  BY <1>6
<1>8. r[{}] = <<>>
  BY <1>7
<1>9. ASSUME NEW k \in 1..n, r[1..(k - 1)] \in S PROVE r[1..k] = g[<<r[1..(k - 1)], k>>]
  <2>1. 1..k \in D /\ 1..k # {} /\ Max(1..k) = k /\ (1..k) \ {k} = 1..(k - 1)
    BY <1>1, PositionSets
  <2>2. r[1..k] = Joined(r[1..(k - 1)], l[k])
    BY <1>7, <2>1
  <2>3. QED
    BY <1>3, <1>9, <2>2
<1>10. PICK h : IsChain(h, g, S, <<>>, r, n)
  <2>1. n \in Nat
    BY <1>1
  <2>2. FoldsBy(g, S, r, n)
    BY <1>9 DEF FoldsBy
  <2>3. QED
    BY <1>2, <1>8, <2>1, <2>2, FoldSteps
<1>11. \A k \in 1..n : h[k] = Joined(h[k - 1], l[k])
  <2> SUFFICES ASSUME NEW k \in 1..n PROVE h[k] = Joined(h[k - 1], l[k])
    OBVIOUS
  <2>1. h[k - 1] \in S
    BY <1>1, <1>10 DEF IsChain
  <2>2. QED
    BY <1>3, <1>10, <2>1 DEF IsChain
<1>12. Joining(h, l, S)
  BY <1>10, <1>11 DEF Joining, IsChain, n
<1>13. h[n] = join_args(l, 1)
  BY <1>1, <1>4, <1>10 DEF IsChain
<1>14. QED
  BY <1>12, <1>13 DEF n

-----------------------------------------------------------------------------
(* The parser.                                                              *)

\* Where words begin is counted one by one.
LEMMA OrdinalIs ==
  ASSUME NEW l \in Seq(Chars), NEW k \in Nat
  PROVE  /\ Ordinal(l, 0) = 0
         /\ Ordinal(l, k) \in Nat
         /\ k + 1 \in Begins(l) => Ordinal(l, k + 1) = Ordinal(l, k) + 1
         /\ k + 1 \notin Begins(l) => Ordinal(l, k + 1) = Ordinal(l, k)
<1> DEFINE B(m) == {b \in Begins(l) : b <= m}
<1>1. Begins(l) \subseteq 1..Len(l) /\ Len(l) \in Nat
  BY DEF Begins
<1>2. IsFiniteSet(1..Len(l))
  BY <1>1, FS_Interval
<1>3. B(0) = {}
  BY <1>1
<1>4. IsFiniteSet(B(k))
  <2>1. B(k) \in SUBSET (1..Len(l))
    BY <1>1
  <2>2. QED
    BY <1>2, <2>1, FS_Subset
<1>5. k + 1 \in Begins(l) => B(k + 1) = B(k) \cup {k + 1}
  BY <1>1
<1>6. k + 1 \notin Begins(l) => B(k + 1) = B(k)
  BY <1>1
<1>7. k + 1 \notin B(k)
  OBVIOUS
<1>8. \A m : Ordinal(l, m) = Cardinality(B(m))
  BY DEF Ordinal
<1> HIDE DEF B
<1>9. Cardinality(B(k)) \in Nat
  BY <1>4, FS_CardinalityType
<1>10. Cardinality(B(k) \cup {k + 1}) = Cardinality(B(k)) + 1
  BY <1>4, <1>7, FS_AddElement
<1>11. Cardinality(B(0)) = 0
  BY <1>3, FS_EmptySet
<1>12. QED
  BY <1>5, <1>6, <1>8, <1>9, <1>10, <1>11

\* The later word has the higher ordinal.
LEMMA OrdinalGrows ==
  ASSUME NEW l \in Seq(Chars), NEW k \in Nat, NEW m \in Nat, k <= m
  PROVE  Ordinal(l, k) <= Ordinal(l, m)
<1> DEFINE T == {d \in Nat : Ordinal(l, k) <= Ordinal(l, k + d)}
<1>1. 0 \in T
  BY OrdinalIs
<1>2. ASSUME NEW d \in T PROVE d + 1 \in T
  <2>1. k + d \in Nat /\ (k + d) + 1 = k + (d + 1)
    OBVIOUS
  <2>2. Ordinal(l, k) \in Nat /\ Ordinal(l, k + d) \in Nat
    BY <2>1, OrdinalIs
  <2>3. Ordinal(l, (k + d) + 1) = Ordinal(l, k + d) \/ Ordinal(l, (k + d) + 1) = Ordinal(l, k + d) + 1
    BY <2>1, OrdinalIs
  <2>4. QED
    BY <2>1, <2>2, <2>3
<1> HIDE DEF T
<1>3. T = Nat
  <2>1. T \subseteq Nat
    BY DEF T
  <2>2. QED
    BY <1>1, <1>2, <2>1, Induction
<1>4. m - k \in T /\ k + (m - k) = m
  BY <1>3
<1>5. QED
  BY <1>4 DEF T

\* A word has a higher ordinal than every byte before it.
LEMMA OrdinalOfWord ==
  ASSUME NEW l \in Seq(Chars), NEW b \in Begins(l)
  PROVE  /\ b \in 1..Len(l) /\ Ordinal(l, b) \in Nat /\ Ordinal(l, b) >= 1
         /\ \A k \in Nat : k < b => Ordinal(l, k) < Ordinal(l, b)
<1>1. b \in 1..Len(l) /\ b - 1 \in Nat /\ (b - 1) + 1 = b
  BY DEF Begins
<1>2. Ordinal(l, b) = Ordinal(l, b - 1) + 1 /\ Ordinal(l, b - 1) \in Nat
  <2> DEFINE k == b - 1
  <2>1. k \in Nat /\ k + 1 = b
    BY <1>1
  <2> HIDE DEF k
  <2>2. Ordinal(l, k + 1) = Ordinal(l, k) + 1 /\ Ordinal(l, k) \in Nat
    BY <2>1, OrdinalIs
  <2>3. QED
    BY <2>1, <2>2 DEF k
<1>3. ASSUME NEW k \in Nat, k < b PROVE Ordinal(l, k) < Ordinal(l, b)
  <2>1. k <= b - 1 /\ Ordinal(l, k) \in Nat
    BY <1>1, <1>3, OrdinalIs
  <2>2. Ordinal(l, k) <= Ordinal(l, b - 1)
    BY <1>1, <2>1, OrdinalGrows
  <2>3. QED
    BY <1>2, <2>1, <2>2
<1>4. QED
  BY <1>1, <1>2, <1>3

\* w is what the first k bytes hold of the word that begins at b.
WordUpTo(w, l, b, k) ==
  /\ w \in Seq(Chars) /\ Len(w) >= 1 /\ b + Len(w) - 1 <= k
  /\ \A i \in 1..Len(w) : w[i] = l[b + i - 1] /\ w[i] # Blank
  /\ b + Len(w) <= k => l[b + Len(w)] = Blank

Parsers == [words : Seq(Seq(Chars)), inWord : BOOLEAN, full : BOOLEAN]

\* What parse_args knows after the first k bytes.
Parsed(l, p, k) ==
  /\ p \in Parsers
  /\ Len(p.words) = IF Ordinal(l, k) < MaxArgs THEN Ordinal(l, k) ELSE MaxArgs
  /\ p.full <=> Ordinal(l, k) > MaxArgs
  /\ Ordinal(l, k) <= MaxArgs => (p.inWord <=> k >= 1 /\ l[k] # Blank)
  /\ p.inWord => /\ Ordinal(l, k) >= 1 /\ ~p.full
                 /\ \A b \in Begins(l) : b <= k /\ Ordinal(l, b) = Ordinal(l, k) =>
                      b + Len(p.words[Ordinal(l, k)]) - 1 = k
  /\ \A b \in Begins(l) : b <= k /\ Ordinal(l, b) <= MaxArgs => WordUpTo(p.words[Ordinal(l, b)], l, b, k)
  /\ \A j \in 1..Len(p.words) : \E b \in Begins(l) : b <= k /\ Ordinal(l, b) = j

\* A word that reaches the k-th byte is the last one.
LEMMA LastWord ==
  ASSUME NEW l \in Seq(Chars), NEW k \in Nat, NEW b \in Begins(l), NEW w, WordUpTo(w, l, b, k)
  PROVE  \A c \in Begins(l) : c > b => c > b + Len(w)
<1> SUFFICES ASSUME NEW c \in Begins(l), c > b, ~(c > b + Len(w)) PROVE FALSE
  OBVIOUS
<1>1. b \in Nat /\ c \in Nat /\ b >= 1 /\ Len(w) \in Nat /\ Len(w) >= 1 /\ l[c - 1] = Blank
  BY DEF Begins, WordUpTo
<1> DEFINE i == c - b
<1>2. i \in 1..Len(w) /\ b + i - 1 = c - 1
  BY <1>1
<1> HIDE DEF i
<1>3. w[i] = l[c - 1] /\ w[i] # Blank
  BY <1>2 DEF WordUpTo
<1>4. QED
  BY <1>1, <1>3

\* A byte leaves the parser's state well typed.
LEMMA ByteIs ==
  ASSUME NEW p \in Parsers, NEW ch \in Chars
  PROVE  /\ ParseByte(p, ch) \in Parsers
         /\ ch = Blank =>
              /\ ParseByte(p, ch).words = p.words /\ ~ParseByte(p, ch).inWord
              /\ ParseByte(p, ch).full = p.full
         /\ ch # Blank /\ p.inWord =>
              /\ ParseByte(p, ch).words = [p.words EXCEPT ![Len(p.words)] = Append(@, ch)]
              /\ ParseByte(p, ch).inWord /\ ParseByte(p, ch).full = p.full
         /\ ch # Blank /\ ~p.inWord /\ Len(p.words) < MaxArgs /\ ~p.full =>
              /\ ParseByte(p, ch).words = Append(p.words, <<ch>>)
              /\ ParseByte(p, ch).inWord /\ ParseByte(p, ch).full = p.full
         /\ ch # Blank /\ ~p.inWord /\ ~(Len(p.words) < MaxArgs /\ ~p.full) =>
              /\ ParseByte(p, ch).words = p.words /\ ~ParseByte(p, ch).inWord
              /\ ParseByte(p, ch).full
<1> DEFINE u == ParseByte(p, ch)
<1> DEFINE q == p.words
<1> DEFINE n == Len(q)
<1>1. /\ p \in [words : Seq(Seq(Chars)), inWord : BOOLEAN, full : BOOLEAN]
      /\ q \in Seq(Seq(Chars)) /\ p.inWord \in BOOLEAN /\ p.full \in BOOLEAN /\ n \in Nat
  BY DEF Parsers
<1>2. CASE ch = Blank
  <2>1. u = [p EXCEPT !.inWord = FALSE]
    BY <1>2 DEF ParseByte
  <2>2. QED
    BY <1>1, <1>2, <2>1 DEF Parsers
<1>3. CASE ch # Blank /\ p.inWord
  <2>1. u = [p EXCEPT !.words[Len(p.words)] = Append(@, ch)]
    BY <1>3 DEF ParseByte
  <2> DEFINE e == [q EXCEPT ![n] = Append(@, ch)]
  <2>2. u.words = e /\ u.inWord = p.inWord /\ u.full = p.full /\ u = [p EXCEPT !.words = e]
    BY <1>1, <2>1
  <2>3. e \in Seq(Seq(Chars))
    <3>1. CASE n \in DOMAIN q
      <4> DEFINE w == Append(q[n], ch)
      <4>1. w \in Seq(Chars)
        BY <1>1, <3>1
      <4>2. e = [q EXCEPT ![n] = w]
        BY <3>1
      <4> HIDE DEF w, n, e
      <4>3. q \in [1..Len(q) -> Seq(Chars)] /\ Len(q) \in Nat
        BY <1>1
      <4>4. e \in [1..Len(q) -> Seq(Chars)]
        BY <4>1, <4>2, <4>3
      <4>5. QED
        BY <4>3, <4>4
    <3>2. CASE n \notin DOMAIN q
      <4>1. e = q
        BY <1>1, <3>2
      <4>2. QED
        BY <1>1, <4>1
    <3>3. QED
      BY <3>1, <3>2
  <2> HIDE DEF e, u
  <2>4. u \in Parsers
    BY <1>1, <2>2, <2>3 DEF Parsers
  <2>5. QED
    BY <1>3, <2>2, <2>4 DEF e, u
<1>4. CASE ch # Blank /\ ~p.inWord /\ Len(p.words) < MaxArgs /\ ~p.full
  <2>1. u = [p EXCEPT !.words = Append(@, <<ch>>), !.inWord = TRUE]
    BY <1>4 DEF ParseByte
  <2>2. Append(q, <<ch>>) \in Seq(Seq(Chars))
    BY <1>1
  <2>3. u.words = Append(q, <<ch>>) /\ u.inWord = TRUE /\ u.full = p.full
    BY <1>1, <2>1
  <2>4. u \in Parsers
    BY <1>1, <2>1, <2>2 DEF Parsers
  <2>5. QED
    BY <1>4, <2>3, <2>4
<1>5. CASE ch # Blank /\ ~p.inWord /\ ~(Len(p.words) < MaxArgs /\ ~p.full)
  <2>1. u = [p EXCEPT !.full = TRUE]
    BY <1>5 DEF ParseByte
  <2>2. QED
    BY <1>1, <1>5, <2>1 DEF Parsers
<1>6. QED
  BY <1>1, <1>2, <1>3, <1>4, <1>5

\* A word that does not reach the k-th byte, or that a blank follows, stays what it is.
LEMMA WordStays ==
  ASSUME NEW l \in Seq(Chars), NEW k \in Nat, NEW b \in Begins(l), NEW w, WordUpTo(w, l, b, k),
         b + Len(w) - 1 = k => l[k + 1] = Blank
  PROVE  WordUpTo(w, l, b, k + 1)
<1>1. b \in Nat /\ Len(w) \in Nat
  BY DEF Begins, WordUpTo
<1>2. CASE b + Len(w) - 1 = k
  <2>1. b + Len(w) = k + 1
    BY <1>1, <1>2
  <2>2. QED
    BY <1>1, <1>2, <2>1 DEF WordUpTo
<1>3. CASE b + Len(w) - 1 # k
  <2>1. b + Len(w) <= k /\ ~(b + Len(w) = k + 1)
    <3>1. b + Len(w) - 1 <= k
      BY DEF WordUpTo
    <3>2. QED
      BY <1>1, <1>3, <3>1
  <2>2. QED
    BY <1>1, <2>1 DEF WordUpTo
<1>4. QED
  BY <1>2, <1>3

\* The end of a word is not blank.
LEMMA WordEnd ==
  ASSUME NEW l \in Seq(Chars), NEW k \in Nat, NEW b \in Begins(l), NEW w, WordUpTo(w, l, b, k),
         b + Len(w) - 1 = k
  PROVE  k >= 1 /\ l[k] # Blank /\ Ordinal(l, b) = Ordinal(l, k)
<1>1. b \in Nat /\ b >= 1 /\ Len(w) \in Nat /\ Len(w) >= 1 /\ Len(w) \in 1..Len(w)
  BY DEF Begins, WordUpTo
<1>2. w[Len(w)] = l[b + Len(w) - 1] /\ w[Len(w)] # Blank
  BY <1>1 DEF WordUpTo
<1>3. \A c \in Begins(l) : c <= k <=> c <= b
  <2> SUFFICES ASSUME NEW c \in Begins(l) PROVE c <= k <=> c <= b
    OBVIOUS
  <2>1. c \in Nat
    BY DEF Begins
  <2>2. c > b => c > b + Len(w)
    BY LastWord
  <2>3. QED
    BY <1>1, <2>1, <2>2
<1>4. {c \in Begins(l) : c <= k} = {c \in Begins(l) : c <= b}
  BY <1>3
<1>5. Ordinal(l, b) = Ordinal(l, k)
  BY <1>4 DEF Ordinal
<1>6. k >= 1 /\ l[k] # Blank
  BY <1>1, <1>2
<1>7. QED
  BY <1>5, <1>6

\* Where a word begins.
LEMMA BeginsAt ==
  ASSUME NEW l \in Seq(Chars), NEW k \in 0..(Len(l) - 1)
  PROVE  k + 1 \in Begins(l) <=> l[k + 1] # Blank /\ (k >= 1 => l[k] = Blank)
<1>1. k + 1 \in 1..Len(l) /\ (k + 1) - 1 = k /\ (k + 1 > 1 <=> k >= 1)
  OBVIOUS
<1> DEFINE m == k + 1
<1>2. m \in Begins(l) <=> l[m] # Blank /\ (m > 1 => l[m - 1] = Blank)
  BY <1>1 DEF Begins
<1>3. m - 1 = k
  BY <1>1
<1>4. QED
  BY <1>1, <1>2, <1>3

\* The words before the next byte, for which no word is open.
LEMMA WordsStay ==
  ASSUME NEW l \in Seq(Chars), NEW k \in Nat, NEW p, Parsed(l, p, k),
         NEW b \in Begins(l), b <= k, Ordinal(l, b) <= MaxArgs,
         l[k + 1] = Blank \/ ~p.inWord \/ Ordinal(l, b) # Ordinal(l, k)
  PROVE  WordUpTo(p.words[Ordinal(l, b)], l, b, k + 1)
<1> DEFINE w == p.words[Ordinal(l, b)]
<1>1. WordUpTo(w, l, b, k)
  BY DEF Parsed
<1> HIDE DEF w
<1>2. ASSUME b + Len(w) - 1 = k PROVE l[k + 1] = Blank
  <2>1. k >= 1 /\ l[k] # Blank /\ Ordinal(l, b) = Ordinal(l, k)
    BY <1>1, <1>2, WordEnd
  <2>2. p.inWord
    BY <2>1 DEF Parsed
  <2>3. QED
    BY <2>1, <2>2
<1>3. WordUpTo(w, l, b, k + 1)
  BY <1>1, <1>2, WordStays
<1>4. QED
  BY <1>3 DEF w

\* A blank ends the word that is open.
LEMMA ParsedBlank ==
  ASSUME NEW l \in Seq(Chars), NEW k \in 0..(Len(l) - 1), NEW p, Parsed(l, p, k), l[k + 1] = Blank
  PROVE  Parsed(l, ParseByte(p, Blank), k + 1)
<1> DEFINE u == ParseByte(p, Blank)
<1> DEFINE m == k + 1
<1>0. k \in Nat /\ m \in Nat /\ m >= 1 /\ p \in Parsers /\ MaxArgs \in Nat
  BY InputAssumption DEF Parsed
<1>1. Blank \in Chars
  BY DEF Chars
<1>2. u \in Parsers /\ u.words = p.words /\ ~u.inWord /\ u.full = p.full
  BY <1>0, <1>1, ByteIs
<1>3. Ordinal(l, m) = Ordinal(l, k) /\ Ordinal(l, k) \in Nat /\ m \notin Begins(l)
  BY <1>0, BeginsAt, OrdinalIs
<1>4. \A b \in Begins(l) : b <= m => b <= k
  BY <1>0, <1>3 DEF Begins
<1>5. ASSUME NEW b \in Begins(l), b <= m, Ordinal(l, b) <= MaxArgs
      PROVE  WordUpTo(p.words[Ordinal(l, b)], l, b, m)
  BY <1>0, <1>4, <1>5, WordsStay
<1>6. \A j \in 1..Len(p.words) : \E b \in Begins(l) : b <= m /\ Ordinal(l, b) = j
  <2> SUFFICES ASSUME NEW j \in 1..Len(p.words) PROVE \E b \in Begins(l) : b <= m /\ Ordinal(l, b) = j
    OBVIOUS
  <2>1. PICK b \in Begins(l) : b <= k /\ Ordinal(l, b) = j
    BY DEF Parsed
  <2>2. b <= m
    BY <1>0, <2>1 DEF Begins
  <2>3. QED
    BY <2>1, <2>2
<1>7. /\ Len(p.words) = IF Ordinal(l, k) < MaxArgs THEN Ordinal(l, k) ELSE MaxArgs
      /\ p.full <=> Ordinal(l, k) > MaxArgs
  BY DEF Parsed
<1>8. l[m] = Blank
  OBVIOUS
<1> HIDE DEF u, m
<1>9. Parsed(l, u, m)
  BY <1>0, <1>2, <1>3, <1>5, <1>6, <1>7, <1>8 DEF Parsed
<1>10. QED
  BY <1>9 DEF u, m

\* A byte extends the word that is open.
LEMMA ParsedExtends ==
  ASSUME NEW l \in Seq(Chars), NEW k \in 0..(Len(l) - 1), NEW p, Parsed(l, p, k),
         l[k + 1] # Blank, p.inWord
  PROVE  Parsed(l, ParseByte(p, l[k + 1]), k + 1)
<1> DEFINE ch == l[k + 1]
<1> DEFINE u == ParseByte(p, ch)
<1> DEFINE m == k + 1
<1> DEFINE n == Ordinal(l, k)
<1> DEFINE q == p.words
<1>0. k \in Nat /\ m \in Nat /\ m >= 1 /\ m = k + 1 /\ p \in Parsers /\ MaxArgs \in Nat /\ ch \in Chars
      /\ q \in Seq(Seq(Chars))
  BY InputAssumption DEF Parsed, Parsers
<1>1. n \in Nat /\ n >= 1 /\ ~p.full /\ ~(n > MaxArgs) /\ Len(q) = n /\ k >= 1 /\ l[k] # Blank
  <2>1. n \in Nat
    BY <1>0, OrdinalIs
  <2>2. n >= 1 /\ ~p.full /\ (p.full <=> n > MaxArgs)
    BY DEF Parsed
  <2>3. Len(q) = IF n < MaxArgs THEN n ELSE MaxArgs
    BY DEF Parsed
  <2>4. n <= MaxArgs => (p.inWord <=> k >= 1 /\ l[k] # Blank)
    BY DEF Parsed
  <2> HIDE DEF n, q
  <2>5. n <= MaxArgs
    BY <1>0, <2>1, <2>2
  <2>6. QED
    BY <1>0, <2>1, <2>2, <2>3, <2>4, <2>5
<1>2. u \in Parsers /\ u.words = [q EXCEPT ![n] = Append(@, ch)] /\ u.inWord /\ u.full = p.full
  <2>1. /\ u \in Parsers /\ u.inWord /\ u.full = p.full
        /\ u.words = [p.words EXCEPT ![Len(p.words)] = Append(@, ch)]
    <3> HIDE DEF ch
    <3>1. ch # Blank
      BY DEF ch
    <3>2. QED
      BY <1>0, <3>1, ByteIs
  <2>2. QED
    BY <1>1, <2>1
<1>3. m \notin Begins(l)
  BY <1>1, BeginsAt
<1>4. Ordinal(l, m) = n
  BY <1>0, <1>3, OrdinalIs
<1>5. \A b \in Begins(l) : b <= m => b <= k
  BY <1>0, <1>3 DEF Begins
<1>6. DOMAIN q = 1..n /\ n \in 1..n /\ q[n] \in Seq(Chars)
  BY <1>0, <1>1
<1>7. Len(u.words) = n
  BY <1>0, <1>1, <1>2
<1>8. u.words[n] = Append(q[n], ch) /\ \A j \in 1..n : j # n => u.words[j] = q[j]
  BY <1>2, <1>6
<1>9. ASSUME NEW b \in Begins(l), b <= m, Ordinal(l, b) = n
      PROVE  /\ b + Len(u.words[n]) - 1 = m
             /\ WordUpTo(u.words[n], l, b, m)
  <2> DEFINE w == q[n]
  <2> DEFINE x == u.words[n]
  <2>1. b \in Nat /\ b >= 1 /\ b <= k
    BY <1>5, <1>9 DEF Begins
  <2>2. WordUpTo(w, l, b, k)
    <3>1. Ordinal(l, b) <= MaxArgs
      BY <1>0, <1>1, <1>9
    <3>2. WordUpTo(p.words[Ordinal(l, b)], l, b, k)
      BY <2>1, <3>1 DEF Parsed
    <3>3. QED
      BY <1>9, <3>2
  <2>3. b + Len(w) - 1 = k
    BY <1>1, <1>9, <2>1 DEF Parsed
  <2>4. x = Append(w, ch) /\ w \in Seq(Chars)
    BY <1>6, <1>8
  <2> HIDE DEF w, x
  <2>5. Len(x) = Len(w) + 1 /\ Len(w) \in Nat /\ x \in Seq(Chars) /\ x[Len(w) + 1] = ch
        /\ \A i \in 1..Len(w) : x[i] = w[i]
    BY <1>0, <2>4
  <2>6. b + Len(x) - 1 = m
    BY <1>0, <2>1, <2>3, <2>5
  <2>7. ASSUME NEW i \in 1..Len(x) PROVE x[i] = l[b + i - 1] /\ x[i] # Blank
    <3>1. CASE i = Len(w) + 1
      <4>1. b + i - 1 = m
        BY <2>5, <2>6, <3>1
      <4>2. QED
        BY <2>5, <3>1, <4>1
    <3>2. CASE i # Len(w) + 1
      <4>1. i \in 1..Len(w)
        BY <2>5, <3>2
      <4>2. QED
        BY <2>2, <2>5, <4>1 DEF WordUpTo
    <3>3. QED
      BY <3>1, <3>2
  <2>8. WordUpTo(x, l, b, m)
    <3>1. Len(x) >= 1 /\ b + Len(x) - 1 <= m /\ ~(b + Len(x) <= m)
      BY <1>0, <2>1, <2>5, <2>6
    <3>2. QED
      BY <2>5, <2>7, <3>1 DEF WordUpTo
  <2>9. QED
    BY <2>6, <2>8 DEF x
<1>10. ASSUME NEW b \in Begins(l), b <= m, Ordinal(l, b) <= MaxArgs
       PROVE  WordUpTo(u.words[Ordinal(l, b)], l, b, m)
  <2>1. CASE Ordinal(l, b) = n
    BY <1>9, <1>10, <2>1
  <2>2. CASE Ordinal(l, b) # n
    <3>1. b <= k /\ b \in Nat
      BY <1>5, <1>10 DEF Begins
    <3>2. WordUpTo(q[Ordinal(l, b)], l, b, m)
      BY <1>0, <1>10, <2>2, <3>1, WordsStay
    <3>3. Ordinal(l, b) \in 1..n
      <4>1. Ordinal(l, b) \in Nat /\ Ordinal(l, b) >= 1
        BY OrdinalOfWord
      <4>2. Ordinal(l, b) <= n
        BY <1>0, <3>1, OrdinalGrows
      <4>3. QED
        BY <1>1, <4>1, <4>2
    <3>4. QED
      BY <1>8, <2>2, <3>2, <3>3
  <2>3. QED
    BY <2>1, <2>2
<1>11. \A j \in 1..n : \E b \in Begins(l) : b <= m /\ Ordinal(l, b) = j
  <2> SUFFICES ASSUME NEW j \in 1..n PROVE \E b \in Begins(l) : b <= m /\ Ordinal(l, b) = j
    OBVIOUS
  <2>1. PICK b \in Begins(l) : b <= k /\ Ordinal(l, b) = j
    BY <1>1 DEF Parsed
  <2>2. b <= m
    BY <1>0, <2>1 DEF Begins
  <2>3. QED
    BY <2>1, <2>2
<1>12. l[m] # Blank
  OBVIOUS
<1>13. n = (IF n < MaxArgs THEN n ELSE MaxArgs) /\ (p.full <=> n > MaxArgs)
  BY <1>0, <1>1
<1> HIDE DEF u, m, n, ch, q
<1>14. \A b \in Begins(l) : b <= m /\ Ordinal(l, b) = n => b + Len(u.words[n]) - 1 = m
  BY <1>9
<1>15. \A b \in Begins(l) : b <= m /\ Ordinal(l, b) <= MaxArgs => WordUpTo(u.words[Ordinal(l, b)], l, b, m)
  BY <1>10
<1>16. Parsed(l, u, m)
  BY <1>0, <1>1, <1>2, <1>4, <1>7, <1>11, <1>12, <1>13, <1>14, <1>15 DEF Parsed
<1>17. QED
  BY <1>16 DEF u, m, ch

\* A byte that follows no word begins one, if there is a slot for it.
LEMMA ParsedBegins ==
  ASSUME NEW l \in Seq(Chars), NEW k \in 0..(Len(l) - 1), NEW p, Parsed(l, p, k),
         l[k + 1] # Blank, ~p.inWord, Len(p.words) < MaxArgs, ~p.full
  PROVE  Parsed(l, ParseByte(p, l[k + 1]), k + 1)
<1> DEFINE ch == l[k + 1]
<1> DEFINE u == ParseByte(p, ch)
<1> DEFINE m == k + 1
<1> DEFINE n == Ordinal(l, k)
<1> DEFINE q == p.words
<1>0. k \in Nat /\ m \in Nat /\ m >= 1 /\ m = k + 1 /\ p \in Parsers /\ MaxArgs \in Nat /\ ch \in Chars
      /\ q \in Seq(Seq(Chars)) /\ ch # Blank
  BY InputAssumption DEF Parsed, Parsers
<1>1. n \in Nat /\ n < MaxArgs /\ Len(q) = n /\ (k >= 1 => l[k] = Blank)
  <2>1. n \in Nat
    BY <1>0, OrdinalIs
  <2>2. p.full <=> n > MaxArgs
    BY DEF Parsed
  <2>3. Len(q) = IF n < MaxArgs THEN n ELSE MaxArgs
    BY DEF Parsed
  <2>4. n <= MaxArgs => (p.inWord <=> k >= 1 /\ l[k] # Blank)
    BY DEF Parsed
  <2>5. Len(q) < MaxArgs
    OBVIOUS
  <2> HIDE DEF n, q
  <2>6. n < MaxArgs
    BY <1>0, <2>1, <2>3, <2>5
  <2>7. QED
    BY <1>0, <2>1, <2>3, <2>4, <2>6
<1>2. u \in Parsers /\ u.words = Append(q, <<ch>>) /\ u.inWord /\ u.full = p.full
  <2> HIDE DEF ch
  <2>1. QED
    BY <1>0, ByteIs
<1>3. m \in Begins(l)
  BY <1>1, BeginsAt
<1>4. Ordinal(l, m) = n + 1
  BY <1>0, <1>3, OrdinalIs
<1>5. Len(u.words) = n + 1 /\ u.words[n + 1] = <<ch>> /\ \A j \in 1..n : u.words[j] = q[j]
  BY <1>0, <1>1, <1>2
<1>6. ASSUME NEW b \in Begins(l), b <= m, b # m PROVE b <= k /\ b \in Nat /\ Ordinal(l, b) \in 1..n
  <2>1. b <= k /\ b \in Nat
    BY <1>0, <1>6 DEF Begins
  <2>2. Ordinal(l, b) \in Nat /\ Ordinal(l, b) >= 1
    BY OrdinalOfWord
  <2>3. Ordinal(l, b) <= n
    BY <1>0, <2>1, OrdinalGrows
  <2>4. QED
    BY <1>1, <2>1, <2>2, <2>3
<1>7. WordUpTo(<<ch>>, l, m, m)
  <2> DEFINE w == <<ch>>
  <2>1. w \in Seq(Chars) /\ Len(w) = 1 /\ w[1] = l[m] /\ w[1] # Blank
    BY <1>0
  <2> HIDE DEF w
  <2>2. m + Len(w) - 1 = m /\ ~(m + Len(w) <= m)
    BY <1>0, <2>1
  <2>3. \A i \in 1..Len(w) : w[i] = l[m + i - 1] /\ w[i] # Blank
    <3>1. m + 1 - 1 = m
      BY <1>0
    <3>2. \A i \in 1..Len(w) : i = 1
      BY <2>1
    <3>3. QED
      BY <2>1, <3>1, <3>2
  <2>4. WordUpTo(w, l, m, m)
    BY <1>0, <2>1, <2>2, <2>3 DEF WordUpTo
  <2>5. QED
    BY <2>4 DEF w
<1>8. ASSUME NEW b \in Begins(l), b <= m, Ordinal(l, b) <= MaxArgs
      PROVE  WordUpTo(u.words[Ordinal(l, b)], l, b, m)
  <2>1. CASE b = m
    BY <1>4, <1>5, <1>7, <2>1
  <2>2. CASE b # m
    <3>1. b <= k /\ Ordinal(l, b) \in 1..n
      BY <1>6, <1>8, <2>2
    <3>2. WordUpTo(q[Ordinal(l, b)], l, b, m)
      BY <1>0, <1>8, <3>1, WordsStay
    <3>3. QED
      BY <1>5, <3>1, <3>2
  <2>3. QED
    BY <2>1, <2>2
<1>9. ASSUME NEW b \in Begins(l), b <= m, Ordinal(l, b) = n + 1
      PROVE  b + Len(u.words[n + 1]) - 1 = m
  <2>1. b = m
    BY <1>1, <1>6, <1>9
  <2>2. Len(<<ch>>) = 1
    OBVIOUS
  <2>3. m + 1 - 1 = m
    BY <1>0
  <2>4. QED
    BY <1>5, <2>1, <2>2, <2>3
<1>10. \A j \in 1..(n + 1) : \E b \in Begins(l) : b <= m /\ Ordinal(l, b) = j
  <2> SUFFICES ASSUME NEW j \in 1..(n + 1) PROVE \E b \in Begins(l) : b <= m /\ Ordinal(l, b) = j
    OBVIOUS
  <2>1. CASE j = n + 1
    BY <1>0, <1>3, <1>4, <2>1
  <2>2. CASE j # n + 1
    <3>1. j \in 1..n
      BY <1>1, <2>2
    <3>2. PICK b \in Begins(l) : b <= k /\ Ordinal(l, b) = j
      BY <1>1, <3>1 DEF Parsed
    <3>3. b <= m
      BY <1>0, <3>2 DEF Begins
    <3>4. QED
      BY <3>2, <3>3
  <2>3. QED
    BY <2>1, <2>2
<1>11. l[m] # Blank
  OBVIOUS
<1>12. /\ n + 1 = (IF n + 1 < MaxArgs THEN n + 1 ELSE MaxArgs) /\ ~(n + 1 > MaxArgs)
       /\ n + 1 \in Nat /\ n + 1 >= 1
  BY <1>0, <1>1
<1> HIDE DEF u, m, n, ch, q
<1>13. Parsed(l, u, m)
  <2>1. \A b \in Begins(l) : b <= m /\ Ordinal(l, b) = n + 1 => b + Len(u.words[n + 1]) - 1 = m
    BY <1>9
  <2>2. \A b \in Begins(l) : b <= m /\ Ordinal(l, b) <= MaxArgs => WordUpTo(u.words[Ordinal(l, b)], l, b, m)
    BY <1>8
  <2>3. ~u.full
    BY <1>2
  <2>4. QED
    BY <1>0, <1>2, <1>4, <1>5, <1>10, <1>11, <1>12, <2>1, <2>2, <2>3 DEF Parsed
<1>14. QED
  BY <1>13 DEF u, m, ch

\* A byte that follows no word is dropped if there is none.
LEMMA ParsedDrops ==
  ASSUME NEW l \in Seq(Chars), NEW k \in 0..(Len(l) - 1), NEW p, Parsed(l, p, k),
         l[k + 1] # Blank, ~p.inWord, ~(Len(p.words) < MaxArgs /\ ~p.full)
  PROVE  Parsed(l, ParseByte(p, l[k + 1]), k + 1)
<1> DEFINE ch == l[k + 1]
<1> DEFINE u == ParseByte(p, ch)
<1> DEFINE m == k + 1
<1> DEFINE n == Ordinal(l, k)
<1> DEFINE o == Ordinal(l, m)
<1> DEFINE q == p.words
<1>0. k \in Nat /\ m \in Nat /\ m >= 1 /\ m = k + 1 /\ p \in Parsers /\ MaxArgs \in Nat /\ ch \in Chars
      /\ q \in Seq(Seq(Chars)) /\ ch # Blank
  BY InputAssumption DEF Parsed, Parsers
<1>1. u \in Parsers /\ u.words = q /\ ~u.inWord /\ u.full
  <2> HIDE DEF ch
  <2>1. QED
    BY <1>0, ByteIs
<1>2. n \in Nat /\ o \in Nat /\ n <= o
  <2>1. n \in Nat /\ o \in Nat
    BY <1>0, OrdinalIs
  <2>2. k <= m
    BY <1>0
  <2>3. n <= o
    BY <1>0, <2>2, OrdinalGrows
  <2>4. QED
    BY <2>1, <2>3
<1>3. o > MaxArgs /\ Len(q) = MaxArgs
  <2>1. p.full <=> n > MaxArgs
    BY DEF Parsed
  <2>2. Len(q) = IF n < MaxArgs THEN n ELSE MaxArgs
    BY DEF Parsed
  <2>3. n <= MaxArgs => (p.inWord <=> k >= 1 /\ l[k] # Blank)
    BY DEF Parsed
  <2>4. ~(Len(q) < MaxArgs /\ ~p.full)
    OBVIOUS
  <2>5. n <= MaxArgs => m \in Begins(l)
    BY <2>3, BeginsAt
  <2>6. m \in Begins(l) => o = n + 1
    BY <1>0, OrdinalIs
  <2> HIDE DEF n, o, q
  <2>7. n >= MaxArgs /\ Len(q) = MaxArgs
    BY <1>0, <1>2, <2>1, <2>2, <2>4
  <2>8. QED
    BY <1>0, <1>2, <2>5, <2>6, <2>7
<1>4. ASSUME NEW b \in Begins(l), b <= m, Ordinal(l, b) <= MaxArgs
      PROVE  WordUpTo(q[Ordinal(l, b)], l, b, m)
  <2>1. b # m
    BY <1>0, <1>2, <1>3, <1>4
  <2>2. b <= k
    BY <1>0, <1>4, <2>1 DEF Begins
  <2>3. QED
    BY <1>0, <1>4, <2>2, WordsStay
<1>5. \A j \in 1..Len(q) : \E b \in Begins(l) : b <= m /\ Ordinal(l, b) = j
  <2> SUFFICES ASSUME NEW j \in 1..Len(q) PROVE \E b \in Begins(l) : b <= m /\ Ordinal(l, b) = j
    OBVIOUS
  <2>1. PICK b \in Begins(l) : b <= k /\ Ordinal(l, b) = j
    BY DEF Parsed
  <2>2. b <= m
    BY <1>0, <2>1 DEF Begins
  <2>3. QED
    BY <2>1, <2>2
<1>6. ~(o < MaxArgs) /\ ~(o <= MaxArgs)
  BY <1>0, <1>2, <1>3
<1> HIDE DEF u, m, n, ch, q
<1>7. Parsed(l, u, m)
  BY <1>0, <1>1, <1>3, <1>4, <1>5, <1>6 DEF Parsed
<1>8. QED
  BY <1>7 DEF u, m, ch

\* What parse_args knows at first.
LEMMA ParsedNothing ==
  ASSUME NEW l \in Seq(Chars)
  PROVE  Parsed(l, NoWords, 0)
<1>1. Ordinal(l, 0) = 0 /\ MaxArgs \in Nat
  BY OrdinalIs, InputAssumption
<1>2. NoWords \in Parsers /\ NoWords.words = <<>> /\ ~NoWords.inWord /\ ~NoWords.full
  BY DEF NoWords, Parsers
<1>3. \A b \in Begins(l) : ~(b <= 0)
  BY DEF Begins
<1>4. Len(NoWords.words) = 0 /\ 1..0 = {}
  BY <1>2
<1>5. ~(0 >= 1) /\ ~(0 > MaxArgs) /\ 0 = IF 0 < MaxArgs THEN 0 ELSE MaxArgs
  BY <1>1
<1>6. \A j \in 1..Len(NoWords.words) : FALSE
  BY <1>4
<1>7. QED
  BY <1>1, <1>2, <1>3, <1>4, <1>5, <1>6 DEF Parsed

\* What parse_args returns.
LEMMA ParseIs ==
  ASSUME NEW l \in Seq(Chars)
  PROVE  \E p : Parsed(l, p, Len(l)) /\ parse_args(l) = p.words
<1>1. \A p \in Parsers : \A ch \in Chars : ParseByte(p, ch) \in Parsers
  BY ByteIs
<1>2. NoWords \in Parsers
  BY DEF NoWords, Parsers
<1>3. PICK h : Parsing(h, l, Parsers) /\ parse_args(l) = h[Len(l)].words
  BY <1>1, <1>2, ParseChain
<1> DEFINE T == {k \in Nat : k <= Len(l) => Parsed(l, h[k], k)}
<1>4. 0 \in T
  BY <1>3, ParsedNothing DEF Parsing
<1>5. ASSUME NEW k \in T PROVE k + 1 \in T
  <2> SUFFICES ASSUME k + 1 <= Len(l) PROVE Parsed(l, h[k + 1], k + 1)
    OBVIOUS
  <2>1. k \in 0..(Len(l) - 1) /\ k + 1 \in 1..Len(l) /\ (k + 1) - 1 = k
    OBVIOUS
  <2>2. h[k + 1] = ParseByte(h[k], l[k + 1])
    BY <1>3, <2>1 DEF Parsing
  <2>3. Parsed(l, h[k], k)
    BY <2>1
  <2> DEFINE p == h[k]
  <2>4. Parsed(l, p, k)
    BY <2>3
  <2> HIDE DEF p
  <2>5. CASE l[k + 1] = Blank
    <3>1. Parsed(l, ParseByte(p, Blank), k + 1)
      BY <2>1, <2>4, <2>5, ParsedBlank
    <3>2. QED
      BY <2>2, <2>5, <3>1 DEF p
  <2>6. CASE l[k + 1] # Blank
    <3>1. Parsed(l, ParseByte(p, l[k + 1]), k + 1)
      BY <2>1, <2>4, <2>6, ParsedExtends, ParsedBegins, ParsedDrops
    <3>2. QED
      BY <2>2, <3>1 DEF p
  <2>7. QED
    BY <2>5, <2>6
<1> HIDE DEF T
<1>6. T = Nat
  <2>1. T \subseteq Nat
    BY DEF T
  <2>2. QED
    BY <1>4, <1>5, <2>1, Induction
<1>7. Len(l) \in T
  BY <1>6
<1>8. Parsed(l, h[Len(l)], Len(l))
  BY <1>7 DEF T
<1>9. QED
  BY <1>3, <1>8

\* join_args of the words takes no more room than the line.
LEMMA JoinFits ==
  ASSUME NEW l \in Seq(Chars), NEW p, Parsed(l, p, Len(l))
  PROVE  Len(join_args(p.words, 1)) <= Len(l)
<1> DEFINE q == p.words
<1> DEFINE S == Seq(Chars)
<1>1. q \in Seq(S) /\ <<>> \in S /\ Len(q) \in Nat /\ Len(l) \in Nat
  BY DEF Parsed, Parsers
<1>2. ASSUME NEW x \in S, NEW w \in S
      PROVE  /\ Joined(x, w) \in S
             /\ Len(x) \in Nat /\ Len(w) \in Nat /\ Len(Joined(x, w)) \in Nat
             /\ x = <<>> => Len(Joined(x, w)) = Len(w)
             /\ Len(Joined(x, w)) <= Len(x) + 1 + Len(w)
  <2>1. Len(x) \in Nat /\ Len(w) \in Nat
    OBVIOUS
  <2>2. CASE x = <<>>
    BY <2>1, <2>2 DEF Joined
  <2>3. CASE x # <<>>
    <3> DEFINE y == x \o <<Blank>>
    <3>1. <<Blank>> \in S /\ Len(<<Blank>>) = 1
      BY DEF Chars
    <3>2. y \in S /\ Len(y) = Len(x) + 1
      BY <3>1
    <3>3. Joined(x, w) = y \o w
      BY <2>3 DEF Joined
    <3> HIDE DEF y
    <3>4. y \o w \in S /\ Len(y \o w) = Len(y) + Len(w)
      <4>1. y \in Seq(Chars) /\ w \in Seq(Chars)
        BY <3>2
      <4>2. y \o w \in Seq(Chars)
        BY <4>1
      <4>3. Len(y \o w) = Len(y) + Len(w)
        BY <4>1
      <4>4. QED
        BY <4>2, <4>3
    <3>5. QED
      BY <2>1, <2>3, <3>2, <3>3, <3>4
  <2>4. QED
    BY <2>2, <2>3
<1>3. \A x \in S : \A w \in S : Joined(x, w) \in S
  BY <1>2
<1> HIDE DEF q, S
<1>4. PICK h : Joining(h, q, S) /\ join_args(q, 1) = h[Len(q)]
  BY <1>1, <1>3, JoinChain
<1> DEFINE Ends(j) == \A b \in Begins(l) : Ordinal(l, b) = j => Len(h[j]) <= b + Len(q[j]) - 1
<1> DEFINE T == {j \in Nat : j <= Len(q) => (j = 0 \/ Ends(j))}
<1>5. ASSUME NEW j \in 1..Len(q)
      PROVE  /\ q[j] \in S /\ h[j] \in S /\ h[j - 1] \in S /\ h[j] = Joined(h[j - 1], q[j])
             /\ \E b \in Begins(l) : Ordinal(l, b) = j
             /\ \A b \in Begins(l) : Ordinal(l, b) = j => WordUpTo(q[j], l, b, Len(l))
  <2>1. j \in 0..Len(q) /\ j - 1 \in 0..Len(q)
    BY <1>1
  <2>2. q[j] \in S /\ h[j] \in S /\ h[j - 1] \in S /\ h[j] = Joined(h[j - 1], q[j])
    BY <1>1, <1>4, <2>1 DEF Joining
  <2>3. \E b \in Begins(l) : Ordinal(l, b) = j
    BY DEF Parsed, q
  <2>4. j <= MaxArgs
    <3>1. Len(q) = IF Ordinal(l, Len(l)) < MaxArgs THEN Ordinal(l, Len(l)) ELSE MaxArgs
      BY DEF Parsed, q
    <3>2. Ordinal(l, Len(l)) \in Nat /\ MaxArgs \in Nat
      BY <1>1, OrdinalIs, InputAssumption
    <3>3. QED
      BY <1>1, <3>1, <3>2
  <2>5. ASSUME NEW b \in Begins(l), Ordinal(l, b) = j PROVE WordUpTo(q[j], l, b, Len(l))
    <3>1. b <= Len(l)
      BY <1>1 DEF Begins
    <3>2. QED
      BY <2>4, <2>5, <3>1 DEF Parsed, q
  <2>6. QED
    BY <2>2, <2>3, <2>5
<1>6. 0 \in T
  OBVIOUS
<1>7. ASSUME NEW j \in T PROVE j + 1 \in T
  <2> SUFFICES ASSUME j + 1 <= Len(q) PROVE Ends(j + 1)
    OBVIOUS
  <2> DEFINE i == j + 1
  <2>1. i \in 1..Len(q) /\ i - 1 = j /\ j \in Nat /\ i = j + 1
    BY <1>1
  <2> HIDE DEF i
  <2> SUFFICES ASSUME NEW c \in Begins(l), Ordinal(l, c) = i PROVE Len(h[i]) <= c + Len(q[i]) - 1
    BY DEF i
  <2>2. h[i] = Joined(h[j], q[i]) /\ q[i] \in S /\ h[j] \in S
    BY <1>5, <2>1
  <2>3. Len(h[j]) \in Nat /\ Len(q[i]) \in Nat /\ c \in Nat /\ c >= 1 /\ Len(h[i]) \in Nat
    BY <1>2, <2>2 DEF Begins
  <2>4. CASE j = 0
    <3>1. h[j] = <<>>
      BY <1>4, <2>4 DEF Joining
    <3>2. Len(h[i]) = Len(q[i])
      BY <1>2, <2>2, <3>1
    <3>3. QED
      BY <2>3, <3>2
  <2>5. CASE j # 0
    <3>1. j \in 1..Len(q)
      BY <1>1, <2>1, <2>5
    <3>2. PICK b \in Begins(l) : Ordinal(l, b) = j
      BY <1>5, <3>1
    <3>3. WordUpTo(q[j], l, b, Len(l)) /\ Len(h[j]) <= b + Len(q[j]) - 1
      <4>1. Ends(j)
        BY <2>1, <2>5, <3>1
      <4>2. QED
        BY <1>5, <3>1, <3>2, <4>1
    <3>4. b \in Nat /\ b < c
      <4>1. b \in Nat
        BY DEF Begins
      <4>2. ~(c <= b)
        <5>1. SUFFICES ASSUME c <= b PROVE FALSE
          OBVIOUS
        <5>2. Ordinal(l, c) <= Ordinal(l, b)
          BY <2>3, <4>1, <5>1, OrdinalGrows
        <5>3. QED
          BY <2>1, <3>2, <5>2
      <4>3. QED
        BY <2>3, <4>1, <4>2
    <3>5. c > b + Len(q[j])
      BY <1>1, <3>3, <3>4, LastWord
    <3>6. Len(q[j]) \in Nat
      BY <3>3 DEF S, WordUpTo
    <3>7. Len(h[i]) <= Len(h[j]) + 1 + Len(q[i])
      BY <1>2, <2>2
    <3>8. Len(h[j]) <= b + Len(q[j]) - 1
      BY <3>3
    <3> DEFINE x == Len(h[i])
    <3> DEFINE y == Len(h[j])
    <3> DEFINE v == Len(q[i])
    <3> DEFINE w == Len(q[j])
    <3>9. /\ x <= y + 1 + v /\ y <= b + w - 1 /\ c > b + w
          /\ x \in Nat /\ y \in Nat /\ v \in Nat /\ w \in Nat /\ c \in Nat /\ b \in Nat
      BY <2>3, <3>4, <3>5, <3>6, <3>7, <3>8
    <3> HIDE DEF x, y, v, w
    <3>10. x <= c + v - 1
      BY <3>9
    <3>11. QED
      BY <3>10 DEF x, v
  <2>6. QED
    BY <2>4, <2>5
<1> HIDE DEF T
<1>8. T = Nat
  <2>1. T \subseteq Nat
    BY DEF T
  <2>2. QED
    BY <1>6, <1>7, <2>1, Induction
<1>9. Len(h[Len(q)]) <= Len(l)
  <2> DEFINE n == Len(q)
  <2>1. n \in T /\ n \in Nat
    BY <1>1, <1>8
  <2>2. CASE n = 0
    <3>1. h[n] = <<>>
      BY <1>4, <2>2 DEF Joining
    <3>2. QED
      BY <1>1, <3>1
  <2>3. CASE n # 0
    <3>1. n \in 1..Len(q) /\ Ends(n)
      BY <1>1, <2>1, <2>3 DEF T
    <3>2. PICK b \in Begins(l) : Ordinal(l, b) = n
      BY <1>5, <3>1
    <3>3. WordUpTo(q[n], l, b, Len(l)) /\ Len(h[n]) <= b + Len(q[n]) - 1 /\ h[n] \in S
      BY <1>5, <3>1, <3>2
    <3>4. b + Len(q[n]) - 1 <= Len(l) /\ b \in Nat /\ Len(q[n]) \in Nat /\ Len(h[n]) \in Nat
      BY <3>3 DEF WordUpTo, Begins, S
    <3>5. QED
      BY <1>1, <3>3, <3>4
  <2>4. QED
    BY <2>2, <2>3
<1>10. QED
  BY <1>4, <1>9 DEF q

\* A whole word, as the reference has it.
LEMMA WholeWord ==
  ASSUME NEW l \in Seq(Chars), NEW b \in Begins(l), NEW w, WordUpTo(w, l, b, Len(l))
  PROVE  IsWordAt(w, l, b)
<1> DEFINE e == b + Len(w) - 1
<1>1. /\ w \in Seq(Chars) /\ Len(w) \in Nat /\ b \in Nat /\ b >= 1 /\ Len(w) >= 1
      /\ e \in Nat /\ e <= Len(l) /\ e - b + 1 = Len(w) /\ b <= e
  BY DEF WordUpTo, Begins
<1>2. \A i \in 1..Len(w) : w[i] = l[b + i - 1] /\ w[i] # Blank
  BY DEF WordUpTo
<1> HIDE DEF e
<1>3. SubSeq(l, b, e) = w
  <2> DEFINE s == SubSeq(l, b, e)
  <2>1. \A i \in b..e : l[i] \in Chars
    BY <1>1
  <2>2. s \in Seq(Chars) /\ Len(s) = e - b + 1 /\ \A i \in 1..(e - b + 1) : s[i] = l[b + i - 1]
    BY <1>1, <2>1, SubSeqProperties
  <2>3. s \in [1..Len(w) -> Chars] /\ w \in [1..Len(w) -> Chars]
    <3>1. s \in Seq(Chars) /\ Len(s) = Len(w)
      BY <1>1, <2>2
    <3> HIDE DEF s
    <3>2. s \in [1..Len(s) -> Chars] /\ w \in [1..Len(w) -> Chars]
      BY <1>1, <3>1
    <3>3. QED
      BY <3>1, <3>2
  <2>4. \A i \in 1..Len(w) : s[i] = w[i]
    BY <1>1, <1>2, <2>2
  <2> HIDE DEF s
  <2>5. s = w
    BY <2>3, <2>4
  <2>6. QED
    BY <2>5 DEF s
<1>4. Blank \notin {w[n] : n \in 1..Len(w)}
  BY <1>2
<1>5. b + Len(w) <= Len(l) => l[b + Len(w)] = Blank
  BY DEF WordUpTo
<1>6. QED
  BY <1>3, <1>4, <1>5 DEF IsWordAt, e

\* parse_args is what its reference says, for every line.
LEMMA WordsOfLine ==
  ASSUME NEW l \in Seq(Chars)
  PROVE  /\ parse_args(l) \in Seq(Seq(Chars))
         /\ Len(parse_args(l)) = IF Ordinal(l, Len(l)) < MaxArgs THEN Ordinal(l, Len(l)) ELSE MaxArgs
         /\ \A b \in Begins(l) :
              Ordinal(l, b) <= MaxArgs => IsWordAt(parse_args(l)[Ordinal(l, b)], l, b)
         /\ Len(join_args(parse_args(l), 1)) <= Len(l)
<1>1. PICK p : Parsed(l, p, Len(l)) /\ parse_args(l) = p.words
  BY ParseIs
<1>2. \A b \in Begins(l) : Ordinal(l, b) <= MaxArgs => IsWordAt(p.words[Ordinal(l, b)], l, b)
  <2> SUFFICES ASSUME NEW b \in Begins(l), Ordinal(l, b) <= MaxArgs
               PROVE  IsWordAt(p.words[Ordinal(l, b)], l, b)
    OBVIOUS
  <2>1. b <= Len(l)
    BY DEF Begins
  <2>2. WordUpTo(p.words[Ordinal(l, b)], l, b, Len(l))
    BY <1>1, <2>1 DEF Parsed
  <2>3. QED
    BY <2>2, WholeWord
<1>3. Len(join_args(p.words, 1)) <= Len(l)
  BY <1>1, JoinFits
<1>4. /\ p.words \in Seq(Seq(Chars))
      /\ Len(p.words) = IF Ordinal(l, Len(l)) < MaxArgs THEN Ordinal(l, Len(l)) ELSE MaxArgs
  BY <1>1 DEF Parsed, Parsers
<1>5. QED
  BY <1>1, <1>2, <1>3, <1>4

-----------------------------------------------------------------------------
(* The terminal's types.                                                    *)

Bytes == 0..(Byte - 1)
Glyphs == Chars \cup {"box", Block, Unknown}
Screen(h, w) == [0..(h - 1) -> [0..(w - 1) -> Glyphs]]
Screens == UNION {Screen(h, w) : h \in Nat, w \in Nat}
Buffers == [0..(Cells - 1) -> Chars \ {"cr", "lf"}]
Terminals == [rows : Bytes, cols : Bytes, row : Int, col : Int,
              buf : Buffers, scr : Screens, stray : BOOLEAN]

\* The screens of t and u have the same cells, for the same grid.
SameGrid(t, u) ==
  /\ u.rows = t.rows /\ u.cols = t.cols
  /\ DOMAIN u.scr = DOMAIN t.scr /\ \A r \in DOMAIN t.scr : DOMAIN u.scr[r] = DOMAIN t.scr[r]

\* A screen with its glyphs drawn anew.
LEMMA ScreenTyped ==
  ASSUME NEW s \in Screens, NEW z, DOMAIN z = DOMAIN s, z = [r \in DOMAIN z |-> z[r]],
         \A r \in DOMAIN s : z[r] \in [DOMAIN s[r] -> Glyphs]
  PROVE  z \in Screens
<1>1. PICK h \in Nat, w \in Nat : s \in [0..(h - 1) -> [0..(w - 1) -> Glyphs]]
  <2>1. \E h \in Nat, w \in Nat : s \in Screen(h, w)
    BY DEF Screens
  <2>2. QED
    BY <2>1 DEF Screen
<1>2. z \in [0..(h - 1) -> [0..(w - 1) -> Glyphs]]
  <2>1. \A r \in 0..(h - 1) : DOMAIN s[r] = 0..(w - 1)
    BY <1>1
  <2>2. DOMAIN s = 0..(h - 1)
    BY <1>1
  <2>3. \A r \in 0..(h - 1) : z[r] \in [0..(w - 1) -> Glyphs]
    BY <2>1, <2>2
  <2>4. QED
    BY <2>2, <2>3
<1>3. z \in Screen(h, w)
  BY <1>2 DEF Screen
<1>4. QED
  BY <1>3 DEF Screens

\* The rows of a screen.
LEMMA ScreenRows ==
  ASSUME NEW s \in Screens
  PROVE  /\ s = [r \in DOMAIN s |-> s[r]]
         /\ \A r \in DOMAIN s : s[r] \in [DOMAIN s[r] -> Glyphs]
         /\ \E h \in Nat : DOMAIN s = 0..(h - 1)
         /\ \A r \in DOMAIN s : \A q \in DOMAIN s : DOMAIN s[q] = DOMAIN s[r]
<1>1. PICK h \in Nat, w \in Nat : s \in [0..(h - 1) -> [0..(w - 1) -> Glyphs]]
  <2>1. \E h \in Nat, w \in Nat : s \in Screen(h, w)
    BY DEF Screens
  <2>2. QED
    BY <2>1 DEF Screen
<1>2. DOMAIN s = 0..(h - 1) /\ s = [r \in DOMAIN s |-> s[r]]
  BY <1>1
<1>3. \A r \in DOMAIN s : s[r] \in [0..(w - 1) -> Glyphs] /\ DOMAIN s[r] = 0..(w - 1)
  BY <1>1, <1>2
<1>4. QED
  BY <1>2, <1>3

\* The components of a terminal.
LEMMA TerminalTyped ==
  ASSUME NEW t \in Terminals
  PROVE  /\ t.rows \in Bytes /\ t.cols \in Bytes /\ t.row \in Int /\ t.col \in Int
         /\ t.buf \in Buffers /\ t.scr \in Screens /\ t.stray \in BOOLEAN
         /\ DOMAIN t = {"rows", "cols", "row", "col", "buf", "scr", "stray"}
         /\ t = [f \in DOMAIN t |-> t[f]]
BY DEF Terminals

\* A record with these components is a terminal.
LEMMA TerminalFrom ==
  ASSUME NEW t, t = [f \in DOMAIN t |-> t[f]],
         DOMAIN t = {"rows", "cols", "row", "col", "buf", "scr", "stray"},
         t.rows \in Bytes, t.cols \in Bytes, t.row \in Int, t.col \in Int,
         t.buf \in Buffers, t.scr \in Screens, t.stray \in BOOLEAN
  PROVE  t \in Terminals
<1>1. t = [rows |-> t.rows, cols |-> t.cols, row |-> t.row, col |-> t.col,
           buf |-> t.buf, scr |-> t.scr, stray |-> t.stray]
  OBVIOUS
<1>2. QED
  BY <1>1 DEF Terminals

\* draw_char changes one cell of the screen, or is out of range.
LEMMA DrawIs ==
  ASSUME NEW t \in Terminals, NEW r, NEW c, NEW glyph \in Glyphs
  PROVE  /\ draw_char(t, r, c, glyph) \in Terminals
         /\ SameGrid(t, draw_char(t, r, c, glyph))
         /\ draw_char(t, r, c, glyph).row = t.row /\ draw_char(t, r, c, glyph).col = t.col
         /\ draw_char(t, r, c, glyph).buf = t.buf
         /\ r \in DOMAIN t.scr /\ c \in DOMAIN t.scr[r] =>
              /\ draw_char(t, r, c, glyph).stray = t.stray
              /\ \A i \in DOMAIN t.scr : \A j \in DOMAIN t.scr[i] :
                   draw_char(t, r, c, glyph).scr[i][j] = IF i = r /\ j = c THEN glyph ELSE t.scr[i][j]
<1> DEFINE u == draw_char(t, r, c, glyph)
<1>1. /\ t.rows \in Bytes /\ t.cols \in Bytes /\ t.row \in Int /\ t.col \in Int
      /\ t.buf \in Buffers /\ t.scr \in Screens /\ t.stray \in BOOLEAN
      /\ DOMAIN t = {"rows", "cols", "row", "col", "buf", "scr", "stray"}
      /\ t = [f \in DOMAIN t |-> t[f]]
  BY TerminalTyped
<1>2. CASE r \in DOMAIN t.scr /\ c \in DOMAIN t.scr[r]
  <2> DEFINE s == t.scr
  <2> DEFINE z == [s EXCEPT ![r] = [s[r] EXCEPT ![c] = glyph]]
  <2>1. u = [t EXCEPT !.scr = z]
    BY <1>1, <1>2 DEF draw_char
  <2>2. /\ s = [i \in DOMAIN s |-> s[i]]
        /\ \A i \in DOMAIN s : s[i] \in [DOMAIN s[i] -> Glyphs]
    BY <1>1, ScreenRows
  <2>3. DOMAIN z = DOMAIN s /\ z = [i \in DOMAIN z |-> z[i]]
    OBVIOUS
  <2>4. \A i \in DOMAIN s : z[i] = IF i = r THEN [s[r] EXCEPT ![c] = glyph] ELSE s[i]
    BY <2>2
  <2>5. ASSUME NEW i \in DOMAIN s
        PROVE  /\ z[i] \in [DOMAIN s[i] -> Glyphs]
               /\ \A j \in DOMAIN s[i] : z[i][j] = IF i = r /\ j = c THEN glyph ELSE s[i][j]
    BY <1>2, <2>2, <2>4
  <2> HIDE DEF s, z
  <2>6. s \in Screens
    BY <1>1 DEF s
  <2>7. z \in Screens
    BY <2>3, <2>5, <2>6, ScreenTyped
  <2>8. /\ u.rows = t.rows /\ u.cols = t.cols /\ u.row = t.row /\ u.col = t.col
        /\ u.buf = t.buf /\ u.stray = t.stray /\ u.scr = z
        /\ DOMAIN u = {"rows", "cols", "row", "col", "buf", "scr", "stray"}
        /\ u = [f \in DOMAIN u |-> u[f]]
    BY <1>1, <2>1
  <2> HIDE DEF u
  <2>9. u \in Terminals
    BY <1>1, <2>7, <2>8, TerminalFrom
  <2>10. SameGrid(t, u)
    BY <2>3, <2>5, <2>8 DEF SameGrid, s
  <2>11. \A i \in DOMAIN t.scr : \A j \in DOMAIN t.scr[i] :
           u.scr[i][j] = IF i = r /\ j = c THEN glyph ELSE t.scr[i][j]
    BY <2>5, <2>8 DEF s
  <2>12. QED
    BY <2>8, <2>9, <2>10, <2>11 DEF u
<1>3. CASE ~(r \in DOMAIN t.scr /\ c \in DOMAIN t.scr[r])
  <2>1. u = [t EXCEPT !.stray = TRUE]
    BY <1>3 DEF draw_char
  <2>2. /\ u.rows = t.rows /\ u.cols = t.cols /\ u.row = t.row /\ u.col = t.col
        /\ u.buf = t.buf /\ u.stray = TRUE /\ u.scr = t.scr
        /\ DOMAIN u = {"rows", "cols", "row", "col", "buf", "scr", "stray"}
        /\ u = [f \in DOMAIN u |-> u[f]]
    BY <1>1, <2>1
  <2> HIDE DEF u
  <2>3. u \in Terminals
    BY <1>1, <2>2, TerminalFrom
  <2>4. SameGrid(t, u)
    BY <2>2 DEF SameGrid
  <2>5. QED
    BY <1>3, <2>2, <2>3, <2>4 DEF u
<1>4. QED
  BY <1>2, <1>3

\* Store changes one byte of the buffer, or is out of range.
LEMMA StoreIs ==
  ASSUME NEW t \in Terminals, NEW r, NEW c, NEW ch \in Chars \ {"cr", "lf"}
  PROVE  /\ Store(t, r, c, ch) \in Terminals
         /\ SameGrid(t, Store(t, r, c, ch)) /\ Store(t, r, c, ch).scr = t.scr
         /\ Store(t, r, c, ch).row = t.row /\ Store(t, r, c, ch).col = t.col
         /\ Index(r, c) \in 0..(Cells - 1) =>
              /\ Store(t, r, c, ch).stray = t.stray
              /\ Store(t, r, c, ch).buf = [t.buf EXCEPT ![Index(r, c)] = ch]
<1> DEFINE u == Store(t, r, c, ch)
<1> DEFINE i == Index(r, c)
<1>1. /\ t.rows \in Bytes /\ t.cols \in Bytes /\ t.row \in Int /\ t.col \in Int
      /\ t.buf \in Buffers /\ t.scr \in Screens /\ t.stray \in BOOLEAN
      /\ DOMAIN t = {"rows", "cols", "row", "col", "buf", "scr", "stray"}
      /\ t = [f \in DOMAIN t |-> t[f]]
  BY TerminalTyped
<1>2. DOMAIN t.buf = 0..(Cells - 1)
  BY <1>1 DEF Buffers
<1>3. CASE i \in 0..(Cells - 1)
  <2> DEFINE z == [t.buf EXCEPT ![i] = ch]
  <2>1. u = [t EXCEPT !.buf = z]
    BY <1>1, <1>2, <1>3 DEF Store
  <2>2. z \in Buffers
    BY <1>1 DEF Buffers
  <2> HIDE DEF z
  <2>3. /\ u.rows = t.rows /\ u.cols = t.cols /\ u.row = t.row /\ u.col = t.col
        /\ u.buf = z /\ u.stray = t.stray /\ u.scr = t.scr
        /\ DOMAIN u = {"rows", "cols", "row", "col", "buf", "scr", "stray"}
        /\ u = [f \in DOMAIN u |-> u[f]]
    BY <1>1, <2>1
  <2> HIDE DEF u
  <2>4. u \in Terminals
    BY <1>1, <2>2, <2>3, TerminalFrom
  <2>5. SameGrid(t, u)
    BY <2>3 DEF SameGrid
  <2>6. QED
    BY <2>3, <2>4, <2>5 DEF u, z
<1>4. CASE ~(i \in 0..(Cells - 1))
  <2>1. u = [t EXCEPT !.stray = TRUE]
    BY <1>2, <1>4 DEF Store
  <2>2. /\ u.rows = t.rows /\ u.cols = t.cols /\ u.row = t.row /\ u.col = t.col
        /\ u.buf = t.buf /\ u.stray = TRUE /\ u.scr = t.scr
        /\ DOMAIN u = {"rows", "cols", "row", "col", "buf", "scr", "stray"}
        /\ u = [f \in DOMAIN u |-> u[f]]
    BY <1>1, <2>1
  <2> HIDE DEF u
  <2>3. u \in Terminals
    BY <1>1, <2>2, TerminalFrom
  <2>4. SameGrid(t, u)
    BY <2>2 DEF SameGrid
  <2>5. QED
    BY <1>4, <2>2, <2>3, <2>4 DEF u
<1>5. QED
  BY <1>3, <1>4

\* Positions in the buffer.
LEMMA Positions ==
  ASSUME NEW r \in Int, NEW c \in Int
  PROVE  /\ Index(r, c) = r * MaxCols + c /\ Index(r, c) \in Int
         /\ Index(r + 1, c) = Index(r, c) + MaxCols
         /\ Index(r, c) = Index(r, 0) + c
         /\ MaxRows \in Nat /\ MaxCols \in Nat /\ MaxRows >= 1 /\ MaxCols >= 1
         /\ Byte \in Nat /\ MaxRows < Byte /\ MaxCols < Byte
         /\ Cells = Index(MaxRows, 0) /\ Cells \in Nat
<1>1. MaxRows \in Nat /\ MaxCols \in Nat /\ MaxRows >= 1 /\ MaxCols >= 1 /\ Byte \in Nat
  BY GridAssumption
<1>2. Index(r, c) = r * MaxCols + c /\ Index(r + 1, c) = (r + 1) * MaxCols + c /\ Index(r, 0) = r * MaxCols + 0
  BY DEF Index
<1>3. (r + 1) * MaxCols = r * MaxCols + MaxCols /\ r * MaxCols \in Int
  BY <1>1
<1>4. Cells = MaxRows * MaxCols /\ Index(MaxRows, 0) = MaxRows * MaxCols + 0 /\ MaxRows * MaxCols \in Nat
  BY <1>1 DEF Cells, Index
<1>5. QED
  BY <1>1, <1>2, <1>3, <1>4, GridAssumption

\* Rows that end before another one begins.
LEMMA RowsApart ==
  ASSUME NEW r \in Int, NEW q \in Int, r < q
  PROVE  Index(r, 0) + MaxCols <= Index(q, 0)
<1>1. MaxCols \in Nat
  BY GridAssumption
<1>2. (q - r - 1) * MaxCols >= 0
  <2>1. q - r - 1 \in Nat
    OBVIOUS
  <2>2. QED
    BY <1>1, <2>1
<1>3. (q - r - 1) * MaxCols = q * MaxCols - r * MaxCols - MaxCols
  BY <1>1
<1>4. Index(r, 0) = r * MaxCols + 0 /\ Index(q, 0) = q * MaxCols + 0
  BY DEF Index
<1>5. r * MaxCols \in Int /\ q * MaxCols \in Int
  BY <1>1
<1>6. QED
  BY <1>1, <1>2, <1>3, <1>4, <1>5

\* _term_scroll moves every row up by one, and blanks the last one.
LEMMA ScrollIs ==
  ASSUME NEW t \in Terminals
  PROVE  /\ _term_scroll(t) \in Terminals /\ SameGrid(t, _term_scroll(t))
         /\ _term_scroll(t).row = t.row /\ _term_scroll(t).col = t.col
         /\ CanScroll(t) =>
              /\ _term_scroll(t).stray = t.stray
              /\ \A i \in 0..(Cells - 1) :
                   _term_scroll(t).buf[i] = IF i < Index(t.rows - 1, 0) THEN t.buf[i + MaxCols]
                                            ELSE IF i < Index(t.rows - 1, 0) + t.cols THEN Blank ELSE t.buf[i]
              /\ \A r \in DOMAIN t.scr : \A c \in DOMAIN t.scr[r] :
                   _term_scroll(t).scr[r][c] = IF r < t.rows - 1 THEN t.scr[r + 1][c]
                                               ELSE IF r = t.rows - 1 THEN Blank ELSE t.scr[r][c]
<1> DEFINE u == _term_scroll(t)
<1> DEFINE last == Index(t.rows - 1, 0)
<1> DEFINE s == t.scr
<1>1. /\ t.rows \in Bytes /\ t.cols \in Bytes /\ t.row \in Int /\ t.col \in Int
      /\ t.buf \in Buffers /\ t.scr \in Screens /\ t.stray \in BOOLEAN
      /\ DOMAIN t = {"rows", "cols", "row", "col", "buf", "scr", "stray"}
      /\ t = [f \in DOMAIN t |-> t[f]]
  BY TerminalTyped
<1>2. CASE CanScroll(t)
  <2> DEFINE b == [i \in DOMAIN t.buf |->
                     IF i < last THEN t.buf[i + MaxCols]
                     ELSE IF i < last + t.cols THEN Blank ELSE t.buf[i]]
  <2> DEFINE z == [r \in DOMAIN s |->
                     IF r < t.rows - 1 THEN s[r + 1]
                     ELSE IF r = t.rows - 1 THEN [c \in DOMAIN s[r] |-> Blank] ELSE s[r]]
  <2>1. u = [t EXCEPT !.buf = b, !.scr = z]
    BY <1>1, <1>2 DEF _term_scroll, Scrolled
  <2>2. t.rows \in Nat /\ t.cols \in Nat /\ last \in Int /\ t.rows - 1 \in Int
    BY <1>1, Positions, GridAssumption DEF Bytes
  <2>3. Index(t.rows, 0) <= Cells /\ last + MaxCols = Index(t.rows, 0) /\ t.rows - 1 \in DOMAIN s
    <3> DEFINE q == t.rows - 1
    <3>1. q \in Int /\ t.rows = q + 1 /\ last = Index(q, 0)
      BY <2>2
    <3> HIDE DEF q, last
    <3>2. Index(q + 1, 0) = Index(q, 0) + MaxCols
      BY <3>1, Positions
    <3>3. QED
      BY <1>2, <3>1, <3>2 DEF CanScroll
  <2>4. b \in Buffers
    <3> SUFFICES ASSUME NEW i \in 0..(Cells - 1) PROVE b[i] \in Chars \ {"cr", "lf"}
      BY <1>1 DEF Buffers
    <3>1. MaxCols \in Nat /\ Cells \in Nat
      BY Positions
    <3>2. t.buf \in [0..(Cells - 1) -> Chars \ {"cr", "lf"}] /\ Blank \in Chars \ {"cr", "lf"}
      BY <1>1 DEF Buffers, Chars, Blank
    <3> HIDE DEF last
    <3>3. i < last => i + MaxCols \in 0..(Cells - 1)
      BY <2>2, <2>3, <3>1
    <3>4. b[i] = IF i < last THEN t.buf[i + MaxCols]
                 ELSE IF i < last + t.cols THEN Blank ELSE t.buf[i]
      BY <3>2
    <3> HIDE DEF b
    <3>5. QED
      BY <3>2, <3>3, <3>4
  <2>5. /\ \A r \in DOMAIN s : s[r] \in [DOMAIN s[r] -> Glyphs]
        /\ \E h \in Nat : DOMAIN s = 0..(h - 1)
        /\ \A r \in DOMAIN s : \A q \in DOMAIN s : DOMAIN s[q] = DOMAIN s[r]
    BY <1>1, ScreenRows
  <2>6. \A r \in DOMAIN s : r \in Int /\ (r < t.rows - 1 => r + 1 \in DOMAIN s)
    BY <2>2, <2>3, <2>5
  <2>7. ASSUME NEW r \in DOMAIN s
        PROVE  /\ z[r] \in [DOMAIN s[r] -> Glyphs]
               /\ \A c \in DOMAIN s[r] : z[r][c] = IF r < t.rows - 1 THEN s[r + 1][c]
                                                   ELSE IF r = t.rows - 1 THEN Blank ELSE s[r][c]
    <3>1. z[r] = IF r < t.rows - 1 THEN s[r + 1]
                 ELSE IF r = t.rows - 1 THEN [c \in DOMAIN s[r] |-> Blank] ELSE s[r]
      OBVIOUS
    <3>2. Blank \in Glyphs
      BY DEF Glyphs, Chars, Blank
    <3>3. r < t.rows - 1 => s[r + 1] \in [DOMAIN s[r] -> Glyphs]
      BY <2>5, <2>6
    <3>4. s[r] \in [DOMAIN s[r] -> Glyphs]
      BY <2>5
    <3> HIDE DEF z, s
    <3>5. QED
      BY <3>1, <3>2, <3>3, <3>4
  <2>8. DOMAIN z = DOMAIN s /\ z = [r \in DOMAIN z |-> z[r]]
    OBVIOUS
  <2>9. \A i \in 0..(Cells - 1) : b[i] = IF i < last THEN t.buf[i + MaxCols]
                                         ELSE IF i < last + t.cols THEN Blank ELSE t.buf[i]
    BY <1>1 DEF Buffers
  <2> HIDE DEF z, b, s, last
  <2>10. s \in Screens
    BY <1>1 DEF s
  <2>11. z \in Screens
    BY <2>7, <2>8, <2>10, ScreenTyped
  <2>12. /\ u.rows = t.rows /\ u.cols = t.cols /\ u.row = t.row /\ u.col = t.col
         /\ u.buf = b /\ u.stray = t.stray /\ u.scr = z
         /\ DOMAIN u = {"rows", "cols", "row", "col", "buf", "scr", "stray"}
         /\ u = [f \in DOMAIN u |-> u[f]]
    BY <1>1, <2>1
  <2> HIDE DEF u
  <2>13. u \in Terminals
    BY <1>1, <2>4, <2>11, <2>12, TerminalFrom
  <2>14. SameGrid(t, u)
    BY <2>7, <2>8, <2>12 DEF SameGrid, s
  <2>15. QED
    BY <2>7, <2>9, <2>12, <2>13, <2>14 DEF u, s, last
<1>3. CASE ~CanScroll(t)
  <2>1. u = [t EXCEPT !.stray = TRUE]
    BY <1>3 DEF _term_scroll
  <2>2. /\ u.rows = t.rows /\ u.cols = t.cols /\ u.row = t.row /\ u.col = t.col
        /\ u.buf = t.buf /\ u.stray = TRUE /\ u.scr = t.scr
        /\ DOMAIN u = {"rows", "cols", "row", "col", "buf", "scr", "stray"}
        /\ u = [f \in DOMAIN u |-> u[f]]
    BY <1>1, <2>1
  <2> HIDE DEF u
  <2>3. u \in Terminals
    BY <1>1, <2>2, TerminalFrom
  <2>4. SameGrid(t, u)
    BY <2>2 DEF SameGrid
  <2>5. QED
    BY <1>3, <2>2, <2>3, <2>4 DEF u
<1>4. QED
  BY <1>2, <1>3

\* The cursor moves to another column.
LEMMA ColumnIs ==
  ASSUME NEW t \in Terminals, NEW n \in Int
  PROVE  /\ [t EXCEPT !.col = n] \in Terminals /\ SameGrid(t, [t EXCEPT !.col = n])
         /\ [t EXCEPT !.col = n].row = t.row /\ [t EXCEPT !.col = n].col = n
         /\ [t EXCEPT !.col = n].buf = t.buf /\ [t EXCEPT !.col = n].scr = t.scr
         /\ [t EXCEPT !.col = n].stray = t.stray
<1> DEFINE u == [t EXCEPT !.col = n]
<1>1. /\ t.rows \in Bytes /\ t.cols \in Bytes /\ t.row \in Int /\ t.col \in Int
      /\ t.buf \in Buffers /\ t.scr \in Screens /\ t.stray \in BOOLEAN
      /\ DOMAIN t = {"rows", "cols", "row", "col", "buf", "scr", "stray"}
      /\ t = [f \in DOMAIN t |-> t[f]]
  BY TerminalTyped
<1>2. /\ u.rows = t.rows /\ u.cols = t.cols /\ u.row = t.row /\ u.col = n
      /\ u.buf = t.buf /\ u.stray = t.stray /\ u.scr = t.scr
      /\ DOMAIN u = {"rows", "cols", "row", "col", "buf", "scr", "stray"}
      /\ u = [f \in DOMAIN u |-> u[f]]
  BY <1>1
<1> HIDE DEF u
<1>3. u \in Terminals
  BY <1>1, <1>2, TerminalFrom
<1>4. SameGrid(t, u)
  BY <1>2 DEF SameGrid
<1>5. QED
  BY <1>2, <1>3, <1>4 DEF u

\* The rows move up by one.
RowsUp(t, u) ==
  /\ u.stray = t.stray
  /\ \A i \in 0..(Cells - 1) :
       u.buf[i] = IF i < Index(t.rows - 1, 0) THEN t.buf[i + MaxCols]
                  ELSE IF i < Index(t.rows - 1, 0) + t.cols THEN Blank ELSE t.buf[i]
  /\ \A r \in DOMAIN t.scr : \A c \in DOMAIN t.scr[r] :
       u.scr[r][c] = IF r < t.rows - 1 THEN t.scr[r + 1][c]
                     ELSE IF r = t.rows - 1 THEN Blank ELSE t.scr[r][c]

\* The cursor goes to the next row: the last one is scrolled.
LEMMA NextRowIs ==
  ASSUME NEW t \in Terminals
  PROVE  /\ NextRow(t) \in Terminals /\ SameGrid(t, NextRow(t)) /\ NextRow(t).col = 0
         /\ t.row + 1 >= t.rows =>
              NextRow(t).row = t.rows - 1 /\ (CanScroll(t) => RowsUp(t, NextRow(t)))
         /\ ~(t.row + 1 >= t.rows) =>
              /\ NextRow(t).row = t.row + 1 /\ NextRow(t).buf = t.buf
              /\ NextRow(t).scr = t.scr /\ NextRow(t).stray = t.stray
<1> DEFINE u == NextRow(t)
<1> DEFINE d == [t EXCEPT !.row = @ + 1, !.col = 0]
<1> DEFINE s == _term_scroll(d)
<1>1. /\ t.rows \in Bytes /\ t.cols \in Bytes /\ t.row \in Int /\ t.col \in Int
      /\ t.buf \in Buffers /\ t.scr \in Screens /\ t.stray \in BOOLEAN
      /\ DOMAIN t = {"rows", "cols", "row", "col", "buf", "scr", "stray"}
      /\ t = [f \in DOMAIN t |-> t[f]]
  BY TerminalTyped
<1>2. /\ d.rows = t.rows /\ d.cols = t.cols /\ d.row = t.row + 1 /\ d.col = 0
      /\ d.buf = t.buf /\ d.stray = t.stray /\ d.scr = t.scr
      /\ DOMAIN d = {"rows", "cols", "row", "col", "buf", "scr", "stray"}
      /\ d = [f \in DOMAIN d |-> d[f]]
  BY <1>1
<1>3. u = IF d.row >= t.rows THEN [s EXCEPT !.row = t.rows - 1] ELSE d
  BY DEF NextRow
<1> HIDE DEF d
<1>4. d \in Terminals
  BY <1>1, <1>2, TerminalFrom
<1>5. SameGrid(t, d) /\ (CanScroll(d) <=> CanScroll(t))
  BY <1>2 DEF SameGrid, CanScroll
<1>6. /\ s \in Terminals /\ SameGrid(d, s) /\ s.row = d.row /\ s.col = d.col
      /\ CanScroll(d) => RowsUp(d, s)
  BY <1>4, ScrollIs DEF RowsUp
<1>7. CanScroll(t) => RowsUp(t, s)
  BY <1>2, <1>5, <1>6 DEF RowsUp
<1> HIDE DEF s, u
<1>8. CASE t.row + 1 >= t.rows
  <2>1. u = [s EXCEPT !.row = t.rows - 1]
    BY <1>2, <1>3, <1>8
  <2>2. /\ s.rows \in Bytes /\ s.cols \in Bytes /\ s.row \in Int /\ s.col \in Int
        /\ s.buf \in Buffers /\ s.scr \in Screens /\ s.stray \in BOOLEAN
        /\ DOMAIN s = {"rows", "cols", "row", "col", "buf", "scr", "stray"}
        /\ s = [f \in DOMAIN s |-> s[f]]
    BY <1>6, TerminalTyped
  <2>3. /\ u.rows = s.rows /\ u.cols = s.cols /\ u.row = t.rows - 1 /\ u.col = s.col
        /\ u.buf = s.buf /\ u.stray = s.stray /\ u.scr = s.scr
        /\ DOMAIN u = {"rows", "cols", "row", "col", "buf", "scr", "stray"}
        /\ u = [f \in DOMAIN u |-> u[f]]
    BY <2>1, <2>2
  <2>4. t.rows - 1 \in Int
    BY <1>1, GridAssumption DEF Bytes
  <2>5. u \in Terminals
    BY <2>2, <2>3, <2>4, TerminalFrom
  <2>6. SameGrid(t, u) /\ u.col = 0
    BY <1>2, <1>5, <1>6, <2>3 DEF SameGrid
  <2>7. CanScroll(t) => RowsUp(t, u)
    BY <1>7, <2>3 DEF RowsUp
  <2>8. QED
    BY <1>8, <2>3, <2>5, <2>6, <2>7 DEF u
<1>9. CASE ~(t.row + 1 >= t.rows)
  <2>1. u = d
    BY <1>2, <1>3, <1>9
  <2>2. QED
    BY <1>2, <1>4, <1>5, <1>9, <2>1 DEF u
<1>10. QED
  BY <1>8, <1>9

\* SameGrid goes through several steps.
LEMMA SameGridOn ==
  ASSUME NEW t, NEW u, NEW v, SameGrid(t, u), SameGrid(u, v)
  PROVE  SameGrid(t, v)
BY DEF SameGrid

\* What term_putc draws over the cursor, and what it leaves before the cursor is
\* drawn again, for the three kinds of characters.
Bare(t) == draw_char(t, t.row, t.col, Blank)
Erased(t) == Store([Bare(t) EXCEPT !.col = @ - 1], t.row, t.col - 1, Blank)
Put(t, ch) == [draw_char(Store(Bare(t), t.row, t.col, ch), t.row, t.col, Glyph(ch)) EXCEPT !.col = @ + 1]
MovedOn(t, ch) ==
  IF ch \in {"cr", "lf"} THEN NextRow(Bare(t))
  ELSE IF Erases(t, ch) THEN Erased(t)
  ELSE IF Put(t, ch).col >= t.cols THEN NextRow(Put(t, ch)) ELSE Put(t, ch)

\* term_putc in terms of these.
LEMMA PutcIs ==
  ASSUME NEW t, NEW ch
  PROVE  term_putc(t, ch) = IF t.stray THEN t ELSE DrawCursor(MovedOn(t, ch))
BY DEF term_putc, MovedOn, Bare, Erased, Put

\* The cursor's cell without the cursor.
LEMMA BareIs ==
  ASSUME NEW t \in Terminals
  PROVE  /\ Bare(t) \in Terminals /\ SameGrid(t, Bare(t)) /\ Bare(t).buf = t.buf
         /\ Bare(t).row = t.row /\ Bare(t).col = t.col
         /\ t.row \in DOMAIN t.scr /\ t.col \in DOMAIN t.scr[t.row] =>
              /\ Bare(t).stray = t.stray
              /\ \A i \in DOMAIN t.scr : \A j \in DOMAIN t.scr[i] :
                   Bare(t).scr[i][j] = IF i = t.row /\ j = t.col THEN Blank ELSE t.scr[i][j]
<1>1. Blank \in Glyphs
  BY DEF Glyphs, Chars, Blank
<1>2. QED
  BY <1>1, DrawIs DEF Bare

\* An erasure: the cursor goes back and a blank is stored there.
LEMMA ErasedIs ==
  ASSUME NEW t \in Terminals
  PROVE  /\ Erased(t) \in Terminals /\ SameGrid(t, Erased(t)) /\ Erased(t).scr = Bare(t).scr
         /\ Erased(t).row = t.row /\ Erased(t).col = t.col - 1
         /\ Index(t.row, t.col - 1) \in 0..(Cells - 1) =>
              /\ Erased(t).stray = Bare(t).stray
              /\ Erased(t).buf = [t.buf EXCEPT ![Index(t.row, t.col - 1)] = Blank]
<1> DEFINE b == Bare(t)
<1> DEFINE c == [b EXCEPT !.col = @ - 1]
<1> DEFINE n == t.col - 1
<1>1. b \in Terminals /\ SameGrid(t, b) /\ b.buf = t.buf /\ b.row = t.row /\ b.col = t.col
  BY BareIs
<1>2. n \in Int
  BY TerminalTyped
<1> HIDE DEF b
<1>3. c = [b EXCEPT !.col = n]
  BY <1>1
<1> HIDE DEF c, n
<1>4. /\ c \in Terminals /\ SameGrid(b, c) /\ c.row = b.row /\ c.col = n
      /\ c.buf = b.buf /\ c.scr = b.scr /\ c.stray = b.stray
  BY <1>1, <1>2, <1>3, ColumnIs
<1> DEFINE e == Store(c, t.row, n, Blank)
<1>5. /\ e \in Terminals /\ SameGrid(c, e) /\ e.scr = c.scr /\ e.row = c.row /\ e.col = c.col
      /\ Index(t.row, n) \in 0..(Cells - 1) =>
           e.stray = c.stray /\ e.buf = [c.buf EXCEPT ![Index(t.row, n)] = Blank]
  <2>1. Blank \in Chars \ {"cr", "lf"}
    BY DEF Chars, Blank
  <2>2. QED
    BY <1>4, <2>1, StoreIs
<1>6. Erased(t) = e
  BY DEF Erased, b, c, n
<1> HIDE DEF e
<1>7. SameGrid(t, e)
  BY <1>1, <1>4, <1>5 DEF SameGrid
<1>8. QED
  BY <1>1, <1>4, <1>5, <1>6, <1>7 DEF n, b

\* A character stored and drawn: the cursor goes on.
LEMMA PutIs ==
  ASSUME NEW t \in Terminals, NEW ch \in Chars \ {"cr", "lf"}
  PROVE  /\ Put(t, ch) \in Terminals /\ SameGrid(t, Put(t, ch))
         /\ Put(t, ch).row = t.row /\ Put(t, ch).col = t.col + 1
         /\ /\ t.row \in DOMAIN t.scr /\ t.col \in DOMAIN t.scr[t.row]
            /\ Index(t.row, t.col) \in 0..(Cells - 1)
            => /\ Put(t, ch).stray = t.stray
               /\ Put(t, ch).buf = [t.buf EXCEPT ![Index(t.row, t.col)] = ch]
               /\ \A i \in DOMAIN t.scr : \A j \in DOMAIN t.scr[i] :
                    Put(t, ch).scr[i][j] = IF i = t.row /\ j = t.col THEN Glyph(ch) ELSE t.scr[i][j]
<1> DEFINE b == Bare(t)
<1> DEFINE s == Store(b, t.row, t.col, ch)
<1> DEFINE d == draw_char(s, t.row, t.col, Glyph(ch))
<1> DEFINE n == t.col + 1
<1> DEFINE p == [d EXCEPT !.col = n]
<1>1. /\ b \in Terminals /\ SameGrid(t, b) /\ b.buf = t.buf /\ b.row = t.row /\ b.col = t.col
      /\ t.row \in DOMAIN t.scr /\ t.col \in DOMAIN t.scr[t.row] =>
           /\ b.stray = t.stray
           /\ \A i \in DOMAIN t.scr : \A j \in DOMAIN t.scr[i] :
                b.scr[i][j] = IF i = t.row /\ j = t.col THEN Blank ELSE t.scr[i][j]
  BY BareIs
<1>2. n \in Int
  BY TerminalTyped
<1> HIDE DEF b
<1>3. /\ s \in Terminals /\ SameGrid(b, s) /\ s.scr = b.scr /\ s.row = b.row /\ s.col = b.col
      /\ Index(t.row, t.col) \in 0..(Cells - 1) =>
           s.stray = b.stray /\ s.buf = [b.buf EXCEPT ![Index(t.row, t.col)] = ch]
  BY <1>1, StoreIs
<1> HIDE DEF s
<1>4. Glyph(ch) \in Glyphs
  BY DEF Glyph, Glyphs
<1>5. /\ d \in Terminals /\ SameGrid(s, d) /\ d.row = s.row /\ d.col = s.col /\ d.buf = s.buf
      /\ t.row \in DOMAIN s.scr /\ t.col \in DOMAIN s.scr[t.row] =>
           /\ d.stray = s.stray
           /\ \A i \in DOMAIN s.scr : \A j \in DOMAIN s.scr[i] :
                d.scr[i][j] = IF i = t.row /\ j = t.col THEN Glyph(ch) ELSE s.scr[i][j]
  BY <1>3, <1>4, DrawIs
<1>6. Put(t, ch) = p
  <2>1. Put(t, ch) = [d EXCEPT !.col = @ + 1]
    BY DEF Put, b, s
  <2>2. d.col = t.col
    BY <1>1, <1>3, <1>5
  <2> HIDE DEF d
  <2>3. QED
    BY <2>1, <2>2
<1> HIDE DEF d
<1>7. /\ p \in Terminals /\ SameGrid(d, p) /\ p.row = d.row /\ p.col = n
      /\ p.buf = d.buf /\ p.scr = d.scr /\ p.stray = d.stray
  BY <1>2, <1>5, ColumnIs
<1> HIDE DEF p
<1>8. SameGrid(t, p)
  BY <1>1, <1>3, <1>5, <1>7 DEF SameGrid
<1>9. ASSUME t.row \in DOMAIN t.scr, t.col \in DOMAIN t.scr[t.row], Index(t.row, t.col) \in 0..(Cells - 1)
      PROVE  /\ p.stray = t.stray
             /\ p.buf = [t.buf EXCEPT ![Index(t.row, t.col)] = ch]
             /\ \A i \in DOMAIN t.scr : \A j \in DOMAIN t.scr[i] :
                  p.scr[i][j] = IF i = t.row /\ j = t.col THEN Glyph(ch) ELSE t.scr[i][j]
  <2>1. DOMAIN s.scr = DOMAIN t.scr /\ \A i \in DOMAIN t.scr : DOMAIN s.scr[i] = DOMAIN t.scr[i]
    BY <1>1, <1>3 DEF SameGrid
  <2>2. p.stray = t.stray /\ p.buf = [t.buf EXCEPT ![Index(t.row, t.col)] = ch]
    BY <1>1, <1>3, <1>5, <1>7, <1>9, <2>1
  <2>3. \A i \in DOMAIN t.scr : \A j \in DOMAIN t.scr[i] :
          p.scr[i][j] = IF i = t.row /\ j = t.col THEN Glyph(ch) ELSE s.scr[i][j]
    BY <1>5, <1>7, <1>9, <2>1
  <2>4. \A i \in DOMAIN t.scr : \A j \in DOMAIN t.scr[i] :
          ~(i = t.row /\ j = t.col) => s.scr[i][j] = t.scr[i][j]
    BY <1>1, <1>3, <1>9
  <2>5. QED
    BY <2>2, <2>3, <2>4
<1>10. QED
  BY <1>1, <1>3, <1>5, <1>6, <1>7, <1>8, <1>9 DEF n

\* A terminal whose cursor's column is a byte.
ByteTerminals == {t \in Terminals : t.col \in Bytes /\ (t.stray \/ t.row >= 0)}

\* What has gone astray stays so.
LEMMA DrawAstray ==
  ASSUME NEW t \in Terminals, NEW r, NEW c, NEW glyph, t.stray
  PROVE  draw_char(t, r, c, glyph).stray
BY TerminalTyped DEF draw_char

\* The cursor's row is never above the first, unless the grid has no rows.
LEMMA NextRowBelow ==
  ASSUME NEW t \in Terminals, t.row >= 0
  PROVE  NextRow(t).stray \/ NextRow(t).row >= 0
<1>1. t.rows \in Nat /\ t.row \in Int
  BY TerminalTyped, GridAssumption DEF Bytes
<1>2. CASE t.row + 1 >= t.rows /\ t.rows > 0
  BY <1>1, <1>2, NextRowIs
<1>3. CASE t.row + 1 >= t.rows /\ ~(t.rows > 0)
  <2> DEFINE d == [t EXCEPT !.row = @ + 1, !.col = 0]
  <2>1. /\ d.row = t.row + 1 /\ d.rows = t.rows
        /\ DOMAIN d = {"rows", "cols", "row", "col", "buf", "scr", "stray"}
    BY TerminalTyped
  <2>2. NextRow(t) = [_term_scroll(d) EXCEPT !.row = t.rows - 1]
    BY <1>3, <2>1 DEF NextRow
  <2> HIDE DEF d
  <2>3. _term_scroll(d) = [d EXCEPT !.stray = TRUE]
    BY <1>3, <2>1 DEF _term_scroll, CanScroll
  <2>4. QED
    BY <2>1, <2>2, <2>3
<1>4. CASE ~(t.row + 1 >= t.rows)
  BY <1>1, <1>4, NextRowIs
<1>5. QED
  BY <1>2, <1>3, <1>4, <1>1

\* term_putc keeps the types, whatever the grid is.
LEMMA PutcTyped ==
  ASSUME NEW t \in ByteTerminals, NEW ch \in Chars
  PROVE  term_putc(t, ch) \in ByteTerminals /\ SameGrid(t, term_putc(t, ch))
<1> DEFINE m == MovedOn(t, ch)
<1>1. t \in Terminals /\ t.col \in Bytes /\ t.cols \in Bytes /\ Byte \in Nat
      /\ t.row \in Int /\ (t.stray \/ t.row >= 0)
  BY TerminalTyped, GridAssumption DEF ByteTerminals
<1>2. CASE t.stray
  <2>1. term_putc(t, ch) = t
    BY <1>2, PutcIs
  <2>2. QED
    BY <2>1 DEF SameGrid
<1>3. CASE ~t.stray
  <2>1. m \in Terminals /\ m.col \in Bytes /\ SameGrid(t, m) /\ (m.stray \/ m.row >= 0)
    <3>1. CASE ch \in {"cr", "lf"}
      <4>1. m = NextRow(Bare(t))
        BY <3>1 DEF MovedOn
      <4>2. Bare(t) \in Terminals /\ SameGrid(t, Bare(t))
        BY <1>1, BareIs
      <4>3. m \in Terminals /\ SameGrid(Bare(t), m) /\ m.col = 0
        BY <4>1, <4>2, NextRowIs
      <4>4. 0 \in Bytes
        BY <1>1 DEF Bytes
      <4>5. m.stray \/ m.row >= 0
        BY <1>1, <1>3, <4>1, <4>2, BareIs, NextRowBelow
      <4>6. QED
        BY <4>2, <4>3, <4>4, <4>5, SameGridOn
    <3>2. CASE ch \notin {"cr", "lf"} /\ Erases(t, ch)
      <4>1. m = Erased(t)
        BY <3>2 DEF MovedOn
      <4>2. m \in Terminals /\ SameGrid(t, m) /\ m.col = t.col - 1 /\ t.col > 3
            /\ m.row = t.row
        BY <1>1, <3>2, <4>1, ErasedIs DEF Erases
      <4>3. QED
        BY <1>1, <1>3, <4>2 DEF Bytes
    <3>3. CASE ch \notin {"cr", "lf"} /\ ~Erases(t, ch)
      <4> DEFINE p == Put(t, ch)
      <4>1. m = IF p.col >= t.cols THEN NextRow(p) ELSE p
        BY <3>3 DEF MovedOn
      <4>2. p \in Terminals /\ SameGrid(t, p) /\ p.col = t.col + 1 /\ p.row = t.row
        BY <1>1, <3>3, PutIs
      <4> HIDE DEF p
      <4>3. CASE p.col >= t.cols
        <5>1. m \in Terminals /\ SameGrid(p, m) /\ m.col = 0
          BY <4>1, <4>2, <4>3, NextRowIs
        <5>2. 0 \in Bytes
          BY <1>1 DEF Bytes
        <5>3. m.stray \/ m.row >= 0
          BY <1>1, <1>3, <4>1, <4>2, <4>3, NextRowBelow
        <5>4. QED
          BY <4>2, <5>1, <5>2, <5>3, SameGridOn
      <4>4. CASE ~(p.col >= t.cols)
        BY <1>1, <1>3, <4>1, <4>2, <4>4 DEF Bytes
      <4>5. QED
        BY <4>3, <4>4
    <3>4. QED
      BY <3>1, <3>2, <3>3
  <2>2. term_putc(t, ch) = draw_char(m, m.row, m.col, Block)
    BY <1>3, PutcIs DEF DrawCursor
  <2>3. Block \in Glyphs
    BY DEF Glyphs
  <2> HIDE DEF m
  <2>4. /\ term_putc(t, ch) \in Terminals /\ term_putc(t, ch).col = m.col
        /\ SameGrid(m, term_putc(t, ch)) /\ term_putc(t, ch).row = m.row
    BY <2>1, <2>2, <2>3, DrawIs
  <2>5. m.stray => term_putc(t, ch).stray
    BY <2>1, <2>2, DrawAstray
  <2>6. QED
    BY <2>1, <2>4, <2>5, SameGridOn DEF ByteTerminals
<1>4. QED
  BY <1>2, <1>3

-----------------------------------------------------------------------------
(* The terminal on its grid.                                                *)

\* The grid fits the arrays and the screen, and the cursor's row is on it.
OnRows(t) ==
  /\ ~t.stray /\ t.rows \in 1..MaxRows /\ t.cols \in 1..MaxCols
  /\ t.row \in 0..(t.rows - 1)
  /\ \A r \in 0..(t.rows - 1) :
       r \in DOMAIN t.scr /\ \A c \in 0..(t.cols - 1) : c \in DOMAIN t.scr[r]

OnGrid(t) == OnRows(t) /\ t.col \in 0..(t.cols - 1)

\* What a cell may show for the byte that the buffer holds.
Matches(glyph, ch) ==
  \/ glyph = Unknown
  \/ glyph = Glyph(ch)
  \/ glyph = Blank /\ ch = "nul"

\* Every cell shows its byte.
Drawn(t) ==
  \A r \in 0..(t.rows - 1) : \A c \in 0..(t.cols - 1) :
    Matches(t.scr[r][c], t.buf[Index(r, c)])

\* Every cell does but the cursor's.
Shows(t) ==
  \A r \in 0..(t.rows - 1) : \A c \in 0..(t.cols - 1) :
    \/ Matches(t.scr[r][c], t.buf[Index(r, c)])
    \/ r = t.row /\ c = t.col /\ t.scr[r][c] = Block

\* Nothing has been written at the cursor or after it.
Ahead(t) ==
  \A r \in 0..(t.rows - 1) : \A c \in 0..(t.cols - 1) :
    r > t.row \/ (r = t.row /\ c >= t.col) => t.buf[Index(r, c)] \in {Blank, "nul"}

\* Positions without the multiplication.
LEMMA Offsets ==
  ASSUME NEW r \in Int, NEW c \in Int
  PROVE  /\ Index(r, c) \in Int /\ Index(r, 0) \in Int /\ Index(r, c) = Index(r, 0) + c
         /\ Index(r + 1, c) = Index(r, c) + MaxCols
<1>1. Index(r, c) \in Int /\ Index(r, c) = Index(r, 0) + c /\ Index(r + 1, c) = Index(r, c) + MaxCols
  BY Positions
<1>2. Index(r, 0) \in Int
  BY Positions
<1>3. QED
  BY <1>1, <1>2

\* A cell of the grid is a place in the buffer.
LEMMA GridInBuffer ==
  ASSUME NEW rows \in 1..MaxRows, NEW cols \in 1..MaxCols,
         NEW r \in 0..(rows - 1), NEW c \in 0..(cols - 1)
  PROVE  /\ Index(r, c) \in 0..(Cells - 1) /\ Index(r, c) \in Nat
         /\ Index(r, 0) >= 0 /\ Index(r, c) = Index(r, 0) + c /\ c < MaxCols
<1>0. r \in Int /\ c \in Int /\ r < MaxRows /\ c < MaxCols /\ r >= 0 /\ c >= 0
  BY GridAssumption
<1>1. /\ MaxRows \in Nat /\ MaxCols \in Nat /\ Cells = Index(MaxRows, 0) /\ Cells \in Nat
      /\ Index(r, c) = Index(r, 0) + c /\ Index(r, 0) \in Int
  BY <1>0, Positions
<1>2. Index(r, 0) + MaxCols <= Index(MaxRows, 0)
  BY <1>0, <1>1, RowsApart
<1>3. Index(r, 0) >= 0
  <2>1. Index(0, 0) = 0
    BY <1>1 DEF Index
  <2>2. CASE r = 0
    BY <2>1, <2>2
  <2>3. CASE r # 0
    <3>1. Index(0, 0) + MaxCols <= Index(r, 0)
      BY <1>0, <1>1, <2>3, RowsApart
    <3>2. QED
      BY <1>1, <2>1, <3>1
  <2>4. QED
    BY <2>2, <2>3
<1>4. QED
  BY <1>0, <1>1, <1>2, <1>3

\* Two cells of the grid are two places in the buffer.
LEMMA CellsApart ==
  ASSUME NEW r \in Int, NEW q \in Int, NEW c \in 0..(MaxCols - 1), NEW d \in 0..(MaxCols - 1),
         Index(r, c) = Index(q, d)
  PROVE  r = q /\ c = d
<1> DEFINE a == Index(r, 0)
<1> DEFINE b == Index(q, 0)
<1>1. MaxCols \in Nat /\ c \in Int /\ d \in Int
  BY GridAssumption
<1>2. a \in Int /\ b \in Int /\ a + c = b + d
  BY <1>1, Positions
<1>3. r < q => a + MaxCols <= b
  BY RowsApart
<1>4. q < r => b + MaxCols <= a
  BY RowsApart
<1>5. r = q => a = b
  OBVIOUS
<1> HIDE DEF a, b
<1>6. ~(r < q)
  BY <1>1, <1>2, <1>3
<1>7. ~(q < r)
  BY <1>1, <1>2, <1>4
<1>8. r = q
  BY <1>6, <1>7
<1>9. QED
  BY <1>1, <1>2, <1>5, <1>8

\* The blank that removes the cursor.
LEMMA BareOnGrid ==
  ASSUME NEW t \in Terminals, OnGrid(t)
  PROVE  /\ OnGrid(Bare(t))
         /\ Ahead(t) => Ahead(Bare(t))
         /\ Ahead(t) /\ Shows(t) => Drawn(Bare(t))
<1> DEFINE b == Bare(t)
<1>1. /\ t.row \in DOMAIN t.scr /\ t.col \in DOMAIN t.scr[t.row]
      /\ t.row \in 0..(t.rows - 1) /\ t.col \in 0..(t.cols - 1)
  BY DEF OnGrid, OnRows
<1>2. /\ SameGrid(t, b) /\ b.buf = t.buf /\ b.row = t.row /\ b.col = t.col /\ b.stray = t.stray
      /\ \A i \in DOMAIN t.scr : \A j \in DOMAIN t.scr[i] :
           b.scr[i][j] = IF i = t.row /\ j = t.col THEN Blank ELSE t.scr[i][j]
  BY <1>1, BareIs
<1> HIDE DEF b
<1>3. OnGrid(b)
  BY <1>2 DEF OnGrid, OnRows, SameGrid
<1>4. Ahead(t) => Ahead(b)
  BY <1>2 DEF Ahead, SameGrid
<1>5. ASSUME Ahead(t), Shows(t) PROVE Drawn(b)
  <2> SUFFICES ASSUME NEW r \in 0..(t.rows - 1), NEW c \in 0..(t.cols - 1)
               PROVE  Matches(b.scr[r][c], t.buf[Index(r, c)])
    BY <1>2 DEF Drawn, SameGrid
  <2>1. b.scr[r][c] = IF r = t.row /\ c = t.col THEN Blank ELSE t.scr[r][c]
    BY <1>2 DEF OnGrid, OnRows
  <2>2. CASE r = t.row /\ c = t.col
    <3>1. t.buf[Index(r, c)] \in {Blank, "nul"}
      BY <1>1, <1>5, <2>2 DEF Ahead
    <3>2. QED
      BY <2>1, <2>2, <3>1 DEF Matches, Glyph, Blank
  <2>3. CASE ~(r = t.row /\ c = t.col)
    BY <1>5, <2>1, <2>3 DEF Shows
  <2>4. QED
    BY <2>2, <2>3
<1>6. QED
  BY <1>3, <1>4, <1>5 DEF b

\* Going to the next row.
LEMMA NextRowOnGrid ==
  ASSUME NEW t \in Terminals, OnRows(t)
  PROVE  /\ OnGrid(NextRow(t))
         /\ Drawn(t) /\ Ahead(t) => Drawn(NextRow(t)) /\ Ahead(NextRow(t))
<1> DEFINE u == NextRow(t)
<1>1. /\ ~t.stray /\ t.rows \in 1..MaxRows /\ t.cols \in 1..MaxCols /\ t.row \in 0..(t.rows - 1)
      /\ \A r \in 0..(t.rows - 1) :
           r \in DOMAIN t.scr /\ \A c \in 0..(t.cols - 1) : c \in DOMAIN t.scr[r]
  BY DEF OnRows
<1>2. MaxRows \in Nat /\ MaxCols \in Nat
  BY GridAssumption
<1>3. /\ SameGrid(t, u) /\ u.col = 0
      /\ t.row + 1 >= t.rows => u.row = t.rows - 1 /\ (CanScroll(t) => RowsUp(t, u))
      /\ ~(t.row + 1 >= t.rows) =>
           u.row = t.row + 1 /\ u.buf = t.buf /\ u.scr = t.scr /\ u.stray = t.stray
  BY NextRowIs
<1> HIDE DEF u
<1>4. CASE ~(t.row + 1 >= t.rows)
  <2>1. OnGrid(u)
    BY <1>1, <1>2, <1>3, <1>4 DEF OnGrid, OnRows, SameGrid
  <2>2. Drawn(t) => Drawn(u)
    BY <1>3, <1>4 DEF Drawn, SameGrid
  <2>3. Ahead(t) => Ahead(u)
    <3>1. u.row = t.row + 1 /\ u.buf = t.buf /\ u.rows = t.rows /\ u.cols = t.cols
      BY <1>3, <1>4 DEF SameGrid
    <3>2. QED
      BY <1>1, <1>2, <3>1 DEF Ahead
  <2>4. QED
    BY <2>1, <2>2, <2>3 DEF u
<1>5. CASE t.row + 1 >= t.rows
  <2> DEFINE q == t.rows - 1
  <2>1. q \in 0..(t.rows - 1) /\ q + 1 = t.rows /\ q \in Int /\ t.cols \in Int
    BY <1>1, <1>2
  <2>2. CanScroll(t)
    <3>1. Index(t.rows, 0) <= Cells
      <4>1. Cells = Index(MaxRows, 0)
        BY Positions
      <4>2. CASE t.rows = MaxRows
        BY <4>1, <4>2, Positions
      <4>3. CASE t.rows # MaxRows
        <5>1. Index(t.rows, 0) + MaxCols <= Index(MaxRows, 0)
          BY <1>1, <1>2, <4>3, RowsApart
        <5>2. Index(t.rows, 0) \in Int /\ Cells \in Int
          BY <1>1, <1>2, Positions
        <5>3. QED
          BY <1>2, <4>1, <5>1, <5>2
      <4>4. QED
        BY <4>2, <4>3
    <3>2. Index(q, t.cols) <= Cells
      <4> HIDE DEF q
      <4>1. /\ Index(q, t.cols) = Index(q, 0) + t.cols /\ Index(q + 1, 0) = Index(q, 0) + MaxCols
            /\ Index(q, 0) \in Int /\ Cells \in Int
        <5>1. Index(q, t.cols) = Index(q, 0) + t.cols /\ Index(q, 0) \in Int
          BY <2>1, Offsets
        <5>2. Index(q + 1, 0) = Index(q, 0) + MaxCols
          BY <2>1, Offsets
        <5>3. Cells \in Int
          BY <2>1, Positions
        <5>4. QED
          BY <5>1, <5>2, <5>3
      <4>2. Index(q + 1, 0) <= Cells
        BY <2>1, <3>1
      <4>3. QED
        BY <1>1, <1>2, <4>1, <4>2
    <3>3. QED
      BY <1>1, <1>2, <2>1, <3>1, <3>2 DEF CanScroll
  <2>3. u.row = q /\ RowsUp(t, u)
    BY <1>3, <1>5, <2>2
  <2>4. OnGrid(u)
    BY <1>1, <1>2, <1>3, <2>1, <2>3 DEF OnGrid, OnRows, SameGrid, RowsUp
  <2>5. ASSUME NEW r \in 0..(t.rows - 1), NEW c \in 0..(t.cols - 1)
        PROVE  /\ r = q => u.buf[Index(r, c)] = Blank /\ u.scr[r][c] = Blank
               /\ r # q => /\ r + 1 \in 0..(t.rows - 1)
                           /\ u.buf[Index(r, c)] = t.buf[Index(r + 1, c)]
                           /\ u.scr[r][c] = t.scr[r + 1][c]
    <3>0. r \in Int /\ c \in Int
      OBVIOUS
    <3>1. /\ Index(r, c) \in 0..(Cells - 1) /\ Index(r, c) \in Nat /\ Index(r, c) = Index(r, 0) + c
          /\ c < MaxCols
      BY <1>1, GridInBuffer
    <3>2. u.buf[Index(r, c)] = IF Index(r, c) < Index(q, 0) THEN t.buf[Index(r, c) + MaxCols]
                               ELSE IF Index(r, c) < Index(q, 0) + t.cols THEN Blank
                               ELSE t.buf[Index(r, c)]
      BY <2>3, <3>1 DEF RowsUp
    <3>3. u.scr[r][c] = IF r < q THEN t.scr[r + 1][c] ELSE IF r = q THEN Blank ELSE t.scr[r][c]
      BY <1>1, <2>3 DEF RowsUp
    <3>4. Index(q, 0) \in Int /\ Index(r, 0) \in Int /\ Index(r + 1, c) = Index(r, c) + MaxCols
      <4> HIDE DEF q
      <4>1. Index(q, 0) \in Int
        BY <2>1, Offsets
      <4>2. Index(r, 0) \in Int /\ Index(r + 1, c) = Index(r, c) + MaxCols
        BY <3>0, Offsets
      <4>3. QED
        BY <4>1, <4>2
    <3> HIDE DEF q
    <3>5. CASE r = q
      <4>1. ~(Index(r, c) < Index(q, 0)) /\ Index(r, c) < Index(q, 0) + t.cols
        BY <1>1, <1>2, <3>0, <3>1, <3>4, <3>5
      <4>2. QED
        BY <2>1, <3>2, <3>3, <3>5, <4>1
    <3>6. CASE r # q
      <4>1. r < q /\ r + 1 \in 0..(t.rows - 1)
        BY <1>1, <1>2, <2>1, <3>6
      <4>2. Index(r, 0) + MaxCols <= Index(q, 0)
        BY <2>1, <4>1, RowsApart
      <4>3. Index(r, c) < Index(q, 0)
        BY <1>2, <3>0, <3>1, <3>4, <4>2
      <4>4. QED
        BY <3>2, <3>3, <3>4, <3>6, <4>1, <4>3
    <3>7. QED
      BY <3>5, <3>6
  <2> HIDE DEF q
  <2>6. u.rows = t.rows /\ u.cols = t.cols
    BY <1>3 DEF SameGrid
  <2>7. ASSUME Drawn(t) PROVE Drawn(u)
    <3> SUFFICES ASSUME NEW r \in 0..(t.rows - 1), NEW c \in 0..(t.cols - 1)
                 PROVE  Matches(u.scr[r][c], u.buf[Index(r, c)])
      BY <2>6 DEF Drawn
    <3>1. CASE r = q
      BY <2>5, <3>1 DEF Matches, Glyph, Blank
    <3>2. CASE r # q
      <4>1. r + 1 \in 0..(t.rows - 1)
        BY <2>5, <3>2
      <4>2. Matches(t.scr[r + 1][c], t.buf[Index(r + 1, c)])
        BY <2>7, <4>1 DEF Drawn
      <4>3. QED
        BY <2>5, <3>2, <4>2
    <3>3. QED
      BY <3>1, <3>2
  <2>8. Ahead(u)
    <3> SUFFICES ASSUME NEW r \in 0..(t.rows - 1), NEW c \in 0..(t.cols - 1),
                        r > u.row \/ (r = u.row /\ c >= u.col)
                 PROVE  u.buf[Index(r, c)] \in {Blank, "nul"}
      BY <2>6 DEF Ahead
    <3>1. r = q
      BY <1>1, <1>2, <2>1, <2>3
    <3>2. QED
      BY <2>5, <3>1
  <2>9. QED
    BY <2>4, <2>7, <2>8 DEF u
<1>6. QED
  BY <1>4, <1>5

\* Drawing the cursor.
LEMMA CursorOnGrid ==
  ASSUME NEW t \in Terminals, OnGrid(t)
  PROVE  /\ OnGrid(DrawCursor(t)) /\ DrawCursor(t) \in Terminals
         /\ Ahead(t) => Ahead(DrawCursor(t))
         /\ Drawn(t) => Shows(DrawCursor(t))
<1> DEFINE b == DrawCursor(t)
<1>1. /\ t.row \in DOMAIN t.scr /\ t.col \in DOMAIN t.scr[t.row]
      /\ t.row \in 0..(t.rows - 1) /\ t.col \in 0..(t.cols - 1)
  BY DEF OnGrid, OnRows
<1>2. /\ SameGrid(t, b) /\ b.buf = t.buf /\ b.row = t.row /\ b.col = t.col /\ b.stray = t.stray
      /\ \A i \in DOMAIN t.scr : \A j \in DOMAIN t.scr[i] :
           b.scr[i][j] = IF i = t.row /\ j = t.col THEN Block ELSE t.scr[i][j]
      /\ b \in Terminals
  <2>1. Block \in Glyphs
    BY DEF Glyphs
  <2>2. QED
    BY <1>1, <2>1, DrawIs DEF DrawCursor
<1> HIDE DEF b
<1>3. OnGrid(b)
  BY <1>2 DEF OnGrid, OnRows, SameGrid
<1>4. Ahead(t) => Ahead(b)
  BY <1>2 DEF Ahead, SameGrid
<1>5. ASSUME Drawn(t) PROVE Shows(b)
  <2> SUFFICES ASSUME NEW r \in 0..(t.rows - 1), NEW c \in 0..(t.cols - 1)
               PROVE  \/ Matches(b.scr[r][c], t.buf[Index(r, c)])
                      \/ r = t.row /\ c = t.col /\ b.scr[r][c] = Block
    BY <1>2 DEF Shows, SameGrid
  <2>1. b.scr[r][c] = IF r = t.row /\ c = t.col THEN Block ELSE t.scr[r][c]
    BY <1>2 DEF OnGrid, OnRows
  <2>2. QED
    BY <1>5, <2>1 DEF Drawn
<1>6. QED
  BY <1>2, <1>3, <1>4, <1>5 DEF b

\* A character put at the cursor.
LEMMA PutOnGrid ==
  ASSUME NEW t \in Terminals, OnGrid(t), NEW ch \in Chars \ {"cr", "lf"}
  PROVE  /\ OnRows(Put(t, ch)) /\ Put(t, ch).col = t.col + 1 /\ Put(t, ch).row = t.row
         /\ Put(t, ch).cols = t.cols /\ Put(t, ch).buf = [t.buf EXCEPT ![Index(t.row, t.col)] = ch]
         /\ Ahead(t) => Ahead(Put(t, ch))
         /\ Ahead(t) /\ Shows(t) => Drawn(Put(t, ch))
<1> DEFINE p == Put(t, ch)
<1> DEFINE at == Index(t.row, t.col)
<1>0. MaxRows \in Nat /\ MaxCols \in Nat
  BY GridAssumption
<1>1. /\ t.row \in DOMAIN t.scr /\ t.col \in DOMAIN t.scr[t.row]
      /\ t.row \in 0..(t.rows - 1) /\ t.col \in 0..(t.cols - 1)
      /\ t.rows \in 1..MaxRows /\ t.cols \in 1..MaxCols
      /\ \A r \in 0..(t.rows - 1) :
           r \in DOMAIN t.scr /\ \A c \in 0..(t.cols - 1) : c \in DOMAIN t.scr[r]
  BY DEF OnGrid, OnRows
<1>2. at \in 0..(Cells - 1) /\ DOMAIN t.buf = 0..(Cells - 1)
  BY <1>1, GridInBuffer, TerminalTyped DEF Buffers
<1>3. /\ SameGrid(t, p) /\ p.row = t.row /\ p.col = t.col + 1 /\ p.stray = t.stray
      /\ p.buf = [t.buf EXCEPT ![at] = ch]
      /\ \A i \in DOMAIN t.scr : \A j \in DOMAIN t.scr[i] :
           p.scr[i][j] = IF i = t.row /\ j = t.col THEN Glyph(ch) ELSE t.scr[i][j]
  BY <1>1, <1>2, PutIs
<1>4. ASSUME NEW r \in 0..(t.rows - 1), NEW c \in 0..(t.cols - 1)
      PROVE  p.buf[Index(r, c)] = IF r = t.row /\ c = t.col THEN ch ELSE t.buf[Index(r, c)]
  <2>1. r \in Int /\ t.row \in Int /\ c \in 0..(MaxCols - 1) /\ t.col \in 0..(MaxCols - 1)
    BY <1>0, <1>1
  <2>2. Index(r, c) \in 0..(Cells - 1)
    BY <1>1, GridInBuffer
  <2>3. Index(r, c) = at => r = t.row /\ c = t.col
    BY <2>1, CellsApart
  <2>4. p.buf[Index(r, c)] = IF Index(r, c) = at THEN ch ELSE t.buf[Index(r, c)]
    BY <1>2, <1>3, <2>2
  <2>5. QED
    BY <2>3, <2>4
<1> HIDE DEF p, at
<1>5. OnRows(p)
  BY <1>3 DEF OnGrid, OnRows, SameGrid
<1>6. p.rows = t.rows /\ p.cols = t.cols
  BY <1>3 DEF SameGrid
<1>7. ASSUME Ahead(t) PROVE Ahead(p)
  <2> SUFFICES ASSUME NEW r \in 0..(t.rows - 1), NEW c \in 0..(t.cols - 1),
                      r > t.row \/ (r = t.row /\ c >= t.col + 1)
               PROVE  p.buf[Index(r, c)] \in {Blank, "nul"}
    BY <1>3, <1>6 DEF Ahead
  <2>1. ~(r = t.row /\ c = t.col)
    BY <1>0, <1>1
  <2>2. r > t.row \/ (r = t.row /\ c >= t.col)
    BY <1>0, <1>1
  <2>3. QED
    BY <1>4, <1>7, <2>1, <2>2 DEF Ahead
<1>8. ASSUME Ahead(t), Shows(t) PROVE Drawn(p)
  <2> SUFFICES ASSUME NEW r \in 0..(t.rows - 1), NEW c \in 0..(t.cols - 1)
               PROVE  Matches(p.scr[r][c], p.buf[Index(r, c)])
    BY <1>6 DEF Drawn
  <2>1. p.scr[r][c] = IF r = t.row /\ c = t.col THEN Glyph(ch) ELSE t.scr[r][c]
    BY <1>1, <1>3
  <2>2. CASE r = t.row /\ c = t.col
    BY <1>4, <2>1, <2>2 DEF Matches
  <2>3. CASE ~(r = t.row /\ c = t.col)
    <3>1. p.scr[r][c] = t.scr[r][c] /\ p.buf[Index(r, c)] = t.buf[Index(r, c)]
      BY <1>4, <2>1, <2>3
    <3>2. Matches(t.scr[r][c], t.buf[Index(r, c)])
      BY <1>8, <2>3 DEF Shows
    <3>3. QED
      BY <3>1, <3>2
  <2>4. QED
    BY <2>2, <2>3
<1>9. QED
  BY <1>3, <1>5, <1>6, <1>7, <1>8 DEF p, at

\* A character erased before the cursor.
LEMMA EraseOnGrid ==
  ASSUME NEW t \in Terminals, OnGrid(t), t.col > 3
  PROVE  /\ OnGrid(Erased(t)) /\ Erased(t).col = t.col - 1 /\ Erased(t).row = t.row
         /\ Erased(t).buf = [t.buf EXCEPT ![Index(t.row, t.col - 1)] = Blank]
         /\ Ahead(t) => Ahead(Erased(t))
         /\ Ahead(t) /\ Shows(t) => Shows(DrawCursor(Erased(t))) /\ Ahead(DrawCursor(Erased(t)))
<1> DEFINE e == Erased(t)
<1> DEFINE k == t.col - 1
<1> DEFINE b == Bare(t)
<1> DEFINE d == DrawCursor(e)
<1>0. MaxRows \in Nat /\ MaxCols \in Nat
  BY GridAssumption
<1>1. /\ t.row \in 0..(t.rows - 1) /\ t.col \in 0..(t.cols - 1) /\ k \in 0..(t.cols - 1)
      /\ t.col = k + 1 /\ k \in Int
      /\ t.rows \in 1..MaxRows /\ t.cols \in 1..MaxCols
      /\ \A r \in 0..(t.rows - 1) :
           r \in DOMAIN t.scr /\ \A c \in 0..(t.cols - 1) : c \in DOMAIN t.scr[r]
  BY <1>0 DEF OnGrid, OnRows
<1> DEFINE at == Index(t.row, k)
<1>2. at \in 0..(Cells - 1) /\ DOMAIN t.buf = 0..(Cells - 1)
  BY <1>1, GridInBuffer, TerminalTyped DEF Buffers
<1>3. /\ SameGrid(t, e) /\ e.scr = b.scr /\ e.row = t.row /\ e.col = k /\ e.stray = b.stray
      /\ e.buf = [t.buf EXCEPT ![at] = Blank] /\ e \in Terminals
  BY <1>2, ErasedIs
<1>4. /\ OnGrid(b) /\ b.buf = t.buf /\ b.row = t.row /\ b.col = t.col /\ b.stray = t.stray
      /\ Ahead(t) /\ Shows(t) => Drawn(b)
      /\ SameGrid(t, b)
  <2>1. t.row \in DOMAIN t.scr /\ t.col \in DOMAIN t.scr[t.row]
    BY <1>1
  <2>2. QED
    BY <2>1, BareIs, BareOnGrid
<1>5. ASSUME NEW r \in 0..(t.rows - 1), NEW c \in 0..(t.cols - 1)
      PROVE  e.buf[Index(r, c)] = IF r = t.row /\ c = k THEN Blank ELSE t.buf[Index(r, c)]
  <2>1. r \in Int /\ t.row \in Int /\ c \in 0..(MaxCols - 1) /\ k \in 0..(MaxCols - 1)
    BY <1>0, <1>1
  <2>2. Index(r, c) \in 0..(Cells - 1)
    BY <1>1, GridInBuffer
  <2> HIDE DEF k
  <2>3. Index(r, c) = at => r = t.row /\ c = k
    BY <2>1, CellsApart
  <2>4. e.buf[Index(r, c)] = IF Index(r, c) = at THEN Blank ELSE t.buf[Index(r, c)]
    BY <1>2, <1>3, <2>2
  <2>5. QED
    BY <2>3, <2>4
<1>6. d = draw_char(e, t.row, k, Block) /\ Block \in Glyphs
  BY <1>3 DEF DrawCursor, Glyphs
<1> HIDE DEF e, b, at, k, d
<1>7. e.rows = t.rows /\ e.cols = t.cols
  BY <1>3 DEF SameGrid
<1>8. OnGrid(e)
  BY <1>1, <1>3, <1>4 DEF OnGrid, OnRows, SameGrid
<1>9. /\ SameGrid(e, d) /\ d.buf = e.buf /\ d.row = t.row /\ d.col = k
      /\ \A i \in DOMAIN e.scr : \A j \in DOMAIN e.scr[i] :
           d.scr[i][j] = IF i = t.row /\ j = k THEN Block ELSE e.scr[i][j]
  <2>1. t.row \in DOMAIN e.scr /\ k \in DOMAIN e.scr[t.row]
    BY <1>1, <1>3 DEF SameGrid
  <2>2. QED
    BY <1>3, <1>6, <2>1, DrawIs
<1>10. d.rows = t.rows /\ d.cols = t.cols
  BY <1>7, <1>9 DEF SameGrid
<1>11. ASSUME Ahead(t) PROVE Ahead(e) /\ Ahead(d)
  <2>1. ASSUME NEW r \in 0..(t.rows - 1), NEW c \in 0..(t.cols - 1),
               r > t.row \/ (r = t.row /\ c >= k)
        PROVE  e.buf[Index(r, c)] \in {Blank, "nul"}
    <3>1. CASE r = t.row /\ c = k
      BY <1>5, <3>1
    <3>2. CASE ~(r = t.row /\ c = k)
      <4>1. r > t.row \/ (r = t.row /\ c >= t.col)
        BY <1>0, <1>1, <2>1, <3>2
      <4>2. QED
        BY <1>5, <1>11, <3>2, <4>1 DEF Ahead
    <3>3. QED
      BY <3>1, <3>2
  <2>2. Ahead(e)
    BY <1>3, <1>7, <2>1 DEF Ahead
  <2>3. Ahead(d)
    BY <1>9, <1>10, <2>1 DEF Ahead
  <2>4. QED
    BY <2>2, <2>3
<1>12. ASSUME Ahead(t), Shows(t) PROVE Shows(d)
  <2> SUFFICES ASSUME NEW r \in 0..(t.rows - 1), NEW c \in 0..(t.cols - 1)
               PROVE  \/ Matches(d.scr[r][c], d.buf[Index(r, c)])
                      \/ r = t.row /\ c = k /\ d.scr[r][c] = Block
    BY <1>9, <1>10 DEF Shows
  <2>1. r \in DOMAIN e.scr /\ c \in DOMAIN e.scr[r]
    BY <1>7, <1>8 DEF OnGrid, OnRows
  <2>2. d.scr[r][c] = IF r = t.row /\ c = k THEN Block ELSE b.scr[r][c]
    BY <1>3, <1>9, <2>1
  <2>3. CASE r = t.row /\ c = k
    BY <2>2, <2>3
  <2>4. CASE ~(r = t.row /\ c = k)
    <3>1. d.buf[Index(r, c)] = b.buf[Index(r, c)] /\ d.scr[r][c] = b.scr[r][c]
      BY <1>4, <1>5, <1>9, <2>2, <2>4
    <3>2. Drawn(b) /\ b.rows = t.rows /\ b.cols = t.cols
      BY <1>4, <1>12 DEF SameGrid
    <3>3. Matches(b.scr[r][c], b.buf[Index(r, c)])
      BY <3>2 DEF Drawn
    <3>4. QED
      BY <3>1, <3>3
  <2>5. QED
    BY <2>3, <2>4
<1>13. QED
  BY <1>3, <1>8, <1>11, <1>12 DEF e, d, k, at

\* A terminal on its grid; with on, one that also shows its buffer.
Sound(on) == {t \in ByteTerminals : OnGrid(t) /\ (on => Shows(t) /\ Ahead(t))}

\* term_putc keeps the cursor on the grid and the screen true to the buffer.
LEMMA PutcKeeps ==
  ASSUME NEW on \in BOOLEAN, NEW t \in Sound(on), NEW ch \in Chars
  PROVE  term_putc(t, ch) \in Sound(on)
<1> DEFINE m == MovedOn(t, ch)
<1> DEFINE d == DrawCursor(m)
<1>0. t \in ByteTerminals /\ t \in Terminals /\ OnGrid(t) /\ ~t.stray /\ (on => Shows(t) /\ Ahead(t))
  BY DEF Sound, ByteTerminals, OnGrid, OnRows
<1>1. term_putc(t, ch) = d
  BY <1>0, PutcIs
<1>2. term_putc(t, ch) \in ByteTerminals
  BY <1>0, PutcTyped
<1>3. OnGrid(d) /\ (on => Shows(d) /\ Ahead(d))
  <2>1. CASE ch \in {"cr", "lf"}
    <3>1. m = NextRow(Bare(t))
      BY <2>1 DEF MovedOn
    <3>2. /\ Bare(t) \in Terminals /\ OnGrid(Bare(t)) /\ OnRows(Bare(t))
          /\ on => Ahead(Bare(t)) /\ Drawn(Bare(t))
      BY <1>0, BareIs, BareOnGrid DEF OnGrid
    <3>3. m \in Terminals /\ OnGrid(m) /\ (on => Ahead(m) /\ Drawn(m))
      BY <3>1, <3>2, NextRowIs, NextRowOnGrid
    <3> HIDE DEF m
    <3>4. QED
      BY <3>3, CursorOnGrid
  <2>2. CASE ch \notin {"cr", "lf"} /\ Erases(t, ch)
    <3>1. m = Erased(t) /\ t.col > 3
      BY <2>2 DEF MovedOn, Erases
    <3>2. m \in Terminals /\ OnGrid(m) /\ (on => Shows(d) /\ Ahead(d))
      BY <1>0, <3>1, EraseOnGrid, ErasedIs
    <3> HIDE DEF m
    <3>3. QED
      BY <3>2, CursorOnGrid
  <2>3. CASE ch \notin {"cr", "lf"} /\ ~Erases(t, ch)
    <3> DEFINE p == Put(t, ch)
    <3>1. m = IF p.col >= t.cols THEN NextRow(p) ELSE p
      BY <2>3 DEF MovedOn
    <3>2. /\ p \in Terminals /\ OnRows(p) /\ (on => Ahead(p) /\ Drawn(p))
          /\ p.col = t.col + 1 /\ p.cols = t.cols
      BY <1>0, <2>3, PutIs, PutOnGrid
    <3> HIDE DEF p
    <3>3. m \in Terminals /\ OnGrid(m) /\ (on => Ahead(m) /\ Drawn(m))
      <4>1. CASE p.col >= t.cols
        BY <3>1, <3>2, <4>1, NextRowIs, NextRowOnGrid
      <4>2. CASE ~(p.col >= t.cols)
        <5>1. p.col \in 0..(p.cols - 1)
          <6>1. t.col \in Nat /\ t.cols \in Int
            BY <1>0, TerminalTyped, GridAssumption DEF OnGrid, OnRows
          <6>2. QED
            BY <3>2, <4>2, <6>1
        <5>2. QED
          BY <3>1, <3>2, <4>2, <5>1 DEF OnGrid
      <4>3. QED
        BY <4>1, <4>2
    <3> HIDE DEF m
    <3>4. QED
      BY <3>3, CursorOnGrid
  <2>4. QED
    BY <2>1, <2>2, <2>3
<1>4. QED
  BY <1>1, <1>2, <1>3 DEF Sound

-----------------------------------------------------------------------------
(* What the shell writes.                                                   *)

\* A text leaves a terminal a terminal.
LEMMA PutsTyped ==
  ASSUME NEW t \in ByteTerminals, NEW str \in Seq(Chars)
  PROVE  term_puts(t, str) \in ByteTerminals
<1>1. \A u \in ByteTerminals : \A ch \in Chars : term_putc(u, ch) \in ByteTerminals
  BY PutcTyped
<1>2. PICK h : Chain(h, t, str, ByteTerminals) /\ term_puts(t, str) = h[Len(str)]
  BY <1>1, PutsChain
<1>3. Len(str) \in 0..Len(str)
  OBVIOUS
<1>4. QED
  BY <1>2, <1>3 DEF Chain

\* A text leaves a sound terminal sound.
LEMMA PutsKeeps ==
  ASSUME NEW on \in BOOLEAN, NEW t \in Sound(on), NEW str \in Seq(Chars)
  PROVE  term_puts(t, str) \in Sound(on)
<1> DEFINE S == Sound(on)
<1>1. \A u \in S : \A ch \in Chars : term_putc(u, ch) \in S
  BY PutcKeeps
<1>2. t \in S
  OBVIOUS
<1> HIDE DEF S
<1>3. PICK h : Chain(h, t, str, S) /\ term_puts(t, str) = h[Len(str)]
  BY <1>1, <1>2, PutsChain
<1>4. Len(str) \in 0..Len(str)
  OBVIOUS
<1>5. term_puts(t, str) \in S
  BY <1>3, <1>4 DEF Chain
<1>6. QED
  BY <1>5 DEF S

\* The shell's own texts.
LEMMA Texts ==
  /\ NewLine \in Seq(Chars) /\ Rubout \in Seq(Chars) /\ Banner \in Seq(Chars)
  /\ <<"a">> \o NewLine \in Seq(Chars)
  /\ \A n \in Nat : PromptText(n) \in Seq(Chars)
<1>1. NewLine \in Seq(Chars)
  BY DEF NewLine, Chars
<1>2. Rubout \in Seq(Chars)
  BY DEF Rubout, Chars, Blank
<1>3. <<"a">> \in Seq(Chars)
  BY DEF Chars
<1>4. <<"a">> \o NewLine \in Seq(Chars)
  BY <1>1, <1>3
<1>5. Banner \in Seq(Chars)
  <2>1. NewLine \o <<"a">> \in Seq(Chars)
    BY <1>1, <1>3
  <2>2. (NewLine \o <<"a">>) \o NewLine \in Seq(Chars)
    BY <1>1, <2>1
  <2>3. QED
    BY <2>2 DEF Banner
<1>6. ASSUME NEW n \in Nat PROVE PromptText(n) \in Seq(Chars)
  <2>1. PromptText(n) \in [1..n -> Chars]
    BY DEF PromptText, Chars, Blank
  <2>2. QED
    BY <2>1
<1>7. QED
  BY <1>1, <1>2, <1>4, <1>5, <1>6

\* A new prompt writes a text.
LEMMA PromptWrites ==
  ASSUME NEW t \in ByteTerminals, NEW n \in Prompts, NewPrompt(t, n)
  PROVE  /\ term' \in ByteTerminals /\ prompt' = term'.col /\ line' = <<>> /\ phase' = "edit"
         /\ \A on \in BOOLEAN : t \in Sound(on) => term' \in Sound(on)
<1>1. PromptText(n) \in Seq(Chars)
  BY Texts, InputAssumption
<1>2. term' = term_puts(t, PromptText(n)) /\ prompt' = term'.col /\ line' = <<>> /\ phase' = "edit"
  BY DEF NewPrompt
<1>3. QED
  BY <1>1, <1>2, PutsTyped, PutsKeeps

\* The screen is cleared.
LEMMA ClearIs ==
  ASSUME NEW t \in ByteTerminals
  PROVE  /\ term_clear(t) \in ByteTerminals
         /\ \A on \in BOOLEAN : t \in Sound(on) => term_clear(t) \in Sound(TRUE)
<1> DEFINE u == term_clear(t)
<1> DEFINE b == [i \in DOMAIN t.buf |-> Blank]
<1> DEFINE z == [r \in DOMAIN t.scr |-> [c \in DOMAIN t.scr[r] |-> Blank]]
<1>0. MaxRows \in Nat /\ MaxCols \in Nat /\ Byte \in Nat /\ MaxRows < Byte /\ MaxCols < Byte /\ MaxRows >= 1
  BY GridAssumption
<1>1. t \in Terminals
  BY DEF ByteTerminals
<1>2. /\ t.rows \in Bytes /\ t.cols \in Bytes /\ t.row \in Int /\ t.col \in Int
      /\ t.buf \in Buffers /\ t.scr \in Screens /\ t.stray \in BOOLEAN
      /\ DOMAIN t = {"rows", "cols", "row", "col", "buf", "scr", "stray"}
      /\ t = [f \in DOMAIN t |-> t[f]]
  BY <1>1, TerminalTyped
<1>3. /\ u.rows = t.rows /\ u.cols = t.cols /\ u.row = 0 /\ u.col = 0
      /\ u.buf = b /\ u.scr = z /\ u.stray = t.stray
      /\ DOMAIN u = {"rows", "cols", "row", "col", "buf", "scr", "stray"}
      /\ u = [f \in DOMAIN u |-> u[f]]
  BY <1>2 DEF term_clear
<1> HIDE DEF u
<1>4. b \in Buffers
  <2>1. Blank \in Chars \ {"cr", "lf"}
    BY DEF Chars, Blank
  <2>2. QED
    BY <1>2, <2>1 DEF Buffers
<1>5. z \in Screens
  <2>1. Blank \in Glyphs
    BY DEF Glyphs, Chars
  <2>2. \A r \in DOMAIN t.scr : z[r] \in [DOMAIN t.scr[r] -> Glyphs]
    BY <2>1
  <2>3. DOMAIN z = DOMAIN t.scr /\ z = [r \in DOMAIN z |-> z[r]]
    OBVIOUS
  <2> HIDE DEF z
  <2>4. QED
    BY <1>2, <2>2, <2>3, ScreenTyped
<1>6. u \in Terminals
  BY <1>2, <1>3, <1>4, <1>5, TerminalFrom
<1>7. u \in ByteTerminals
  BY <1>0, <1>3, <1>6 DEF ByteTerminals, Bytes
<1>8. ASSUME OnGrid(t) PROVE OnGrid(u) /\ Shows(u) /\ Ahead(u)
  <2>1. /\ t.rows \in 1..MaxRows /\ t.cols \in 1..MaxCols /\ ~t.stray
        /\ \A r \in 0..(t.rows - 1) :
             r \in DOMAIN t.scr /\ \A c \in 0..(t.cols - 1) : c \in DOMAIN t.scr[r]
    BY <1>8 DEF OnGrid, OnRows
  <2>2. \A r \in DOMAIN t.scr : DOMAIN z[r] = DOMAIN t.scr[r]
    OBVIOUS
  <2>3. DOMAIN z = DOMAIN t.scr
    OBVIOUS
  <2>4. OnGrid(u)
    BY <1>0, <1>3, <2>1, <2>2, <2>3 DEF OnGrid, OnRows
  <2>5. ASSUME NEW r \in 0..(t.rows - 1), NEW c \in 0..(t.cols - 1)
        PROVE  u.scr[r][c] = Blank /\ u.buf[Index(r, c)] = Blank
    <3>1. Index(r, c) \in DOMAIN t.buf
      BY <1>2, <2>1, GridInBuffer DEF Buffers
    <3>2. QED
      BY <1>3, <2>1, <3>1
  <2>6. Shows(u)
    <3>1. Glyph(Blank) = Blank
      BY DEF Glyph, Blank
    <3>2. Matches(Blank, Blank)
      BY <3>1 DEF Matches
    <3>3. \A r \in 0..(t.rows - 1) : \A c \in 0..(t.cols - 1) :
            Matches(u.scr[r][c], u.buf[Index(r, c)])
      BY <2>5, <3>2
    <3>4. QED
      BY <1>3, <3>3 DEF Shows
  <2>7. Ahead(u)
    BY <1>3, <2>5 DEF Ahead
  <2>8. QED
    BY <2>4, <2>6, <2>7
<1>9. QED
  BY <1>7, <1>8 DEF Sound, u

-----------------------------------------------------------------------------
(* A new mode.                                                              *)

\* What VideoCore answers.
LEMMA AnswerIs ==
  ASSUME NEW f \in Answers
  PROVE  f.base \in Nat /\ f.base # 0 /\ f.rows \in Nat /\ f.cols \in Nat
<1>1. PICK b \in Bases, m \in Modes : f = [base |-> b, rows |-> m.rows, cols |-> m.cols]
  BY DEF Answers
<1>2. m \in [rows : Nat, cols : Nat] /\ b \in Nat /\ b # 0
  BY InputAssumption
<1>3. QED
  BY <1>1, <1>2

\* The terminal is given another grid.
LEMMA RegridIs ==
  ASSUME NEW t \in ByteTerminals, NEW f \in Answers, NEW isMapped \in BOOLEAN
  PROVE  /\ Regrid(t, f, isMapped) \in ByteTerminals
         /\ isMapped /\ Fits(Regrid(t, f, isMapped)) /\ ~t.stray =>
              /\ OnGrid(Regrid(t, f, isMapped)) /\ Shows(Regrid(t, f, isMapped))
         /\ Regrid(t, f, isMapped).row = t.row /\ Regrid(t, f, isMapped).col = t.col
         /\ Regrid(t, f, isMapped).buf = t.buf /\ Regrid(t, f, isMapped).stray = t.stray
<1> DEFINE u == Regrid(t, f, isMapped)
<1>0. /\ MaxRows \in Nat /\ MaxCols \in Nat /\ Byte \in Nat /\ MaxRows < Byte /\ MaxCols < Byte
      /\ f.rows \in Nat /\ f.cols \in Nat /\ MaxRows >= 1
  BY GridAssumption, AnswerIs
<1>1. t \in Terminals /\ t.col \in Bytes /\ (t.stray \/ t.row >= 0)
  BY DEF ByteTerminals
<1>2. /\ t.rows \in Bytes /\ t.cols \in Bytes /\ t.row \in Int /\ t.col \in Int
      /\ t.buf \in Buffers /\ t.scr \in Screens /\ t.stray \in BOOLEAN
      /\ DOMAIN t = {"rows", "cols", "row", "col", "buf", "scr", "stray"}
      /\ t = [i \in DOMAIN t |-> t[i]]
  BY <1>1, TerminalTyped
<1>3. /\ u.rows = f.rows % Byte /\ u.cols = f.cols % Byte /\ u.row = t.row /\ u.col = t.col
      /\ u.buf = t.buf /\ u.scr = (IF isMapped THEN Fresh(f) ELSE NoScreen) /\ u.stray = t.stray
      /\ DOMAIN u = {"rows", "cols", "row", "col", "buf", "scr", "stray"}
      /\ u = [i \in DOMAIN u |-> u[i]]
  BY <1>2 DEF Regrid
<1> HIDE DEF u
<1>4. /\ f.rows % Byte \in 0..(Byte - 1) /\ f.cols % Byte \in 0..(Byte - 1)
      /\ f.rows % Byte <= f.rows /\ f.cols % Byte <= f.cols
  BY <1>0
<1>5. Fresh(f) \in Screens /\ NoScreen \in Screens
  <2>1. Unknown \in Glyphs
    BY DEF Glyphs
  <2>2. Fresh(f) \in Screen(f.rows, f.cols)
    BY <2>1 DEF Fresh, Screen
  <2>3. NoScreen \in Screen(0, 0)
    <3>1. 0..(0 - 1) = {}
      OBVIOUS
    <3>2. QED
      BY <3>1 DEF NoScreen, Screen
  <2>4. QED
    BY <1>0, <2>2, <2>3 DEF Screens
<1>6. u \in Terminals
  BY <1>2, <1>3, <1>4, <1>5, TerminalFrom DEF Bytes
<1>7. u \in ByteTerminals
  BY <1>1, <1>3, <1>6 DEF ByteTerminals
<1>8. ASSUME isMapped, Fits(u), ~t.stray PROVE OnGrid(u) /\ Shows(u)
  <2>1. u.rows \in 1..MaxRows /\ u.cols \in 1..MaxCols /\ u.row < u.rows /\ u.col < u.cols
    BY <1>8 DEF Fits
  <2>2. u.row \in 0..(u.rows - 1) /\ u.col \in 0..(u.cols - 1)
    BY <1>0, <1>1, <1>2, <1>3, <1>8, <2>1 DEF Bytes
  <2>3. u.scr = Fresh(f)
    BY <1>3, <1>8
  <2>4. ASSUME NEW r \in 0..(u.rows - 1), NEW c \in 0..(u.cols - 1)
        PROVE  r \in DOMAIN u.scr /\ c \in DOMAIN u.scr[r] /\ u.scr[r][c] = Unknown
    <3>1. r \in 0..(f.rows - 1) /\ c \in 0..(f.cols - 1)
      <4>1. u.rows <= f.rows /\ u.cols <= f.cols /\ u.rows \in Int /\ u.cols \in Int
        BY <1>0, <1>3, <1>4
      <4>2. QED
        BY <1>0, <4>1
    <3>2. QED
      BY <2>3, <3>1 DEF Fresh
  <2>5. \A r \in 0..(u.rows - 1) :
          r \in DOMAIN u.scr /\ \A c \in 0..(u.cols - 1) : c \in DOMAIN u.scr[r]
    <3>1. 0 \in 0..(u.cols - 1)
      BY <1>0, <2>1
    <3>2. QED
      BY <2>4, <3>1
  <2>6. OnGrid(u)
    BY <1>3, <1>8, <2>1, <2>2, <2>5 DEF OnGrid, OnRows
  <2>7. Shows(u)
    BY <2>4 DEF Shows, Matches
  <2>8. QED
    BY <2>6, <2>7
<1>9. QED
  BY <1>3, <1>7, <1>8 DEF u

-----------------------------------------------------------------------------
(* The invariant.                                                           *)

\* The terminal at reset.
Blanked == [rows |-> MaxRows, cols |-> MaxCols, row |-> 0, col |-> 0,
            buf |-> [i \in 0..(Cells - 1) |-> "nul"], scr |-> NoScreen, stray |-> FALSE]

\* It is a terminal.
LEMMA BlankedIs ==
  /\ Blanked \in ByteTerminals /\ ~Blanked.stray /\ Blanked.row = 0 /\ Blanked.col = 0
  /\ Blanked.buf = [i \in 0..(Cells - 1) |-> "nul"]
<1> DEFINE u == Blanked
<1>0. MaxRows \in Bytes /\ MaxCols \in Bytes /\ 0 \in Bytes
  BY GridAssumption DEF Bytes
<1>1. /\ u.rows = MaxRows /\ u.cols = MaxCols /\ u.row = 0 /\ u.col = 0
      /\ u.buf = [i \in 0..(Cells - 1) |-> "nul"] /\ u.scr = NoScreen /\ u.stray = FALSE
      /\ DOMAIN u = {"rows", "cols", "row", "col", "buf", "scr", "stray"}
      /\ u = [f \in DOMAIN u |-> u[f]]
  BY DEF Blanked
<1>2. u.buf \in Buffers
  <2>1. "nul" \in Chars \ {"cr", "lf"}
    BY DEF Chars
  <2>2. QED
    BY <1>1, <2>1 DEF Buffers
<1>3. NoScreen \in Screens
  <2>1. NoScreen \in Screen(0, 0)
    <3>1. 0..(0 - 1) = {}
      OBVIOUS
    <3>2. QED
      BY <3>1 DEF NoScreen, Screen
  <2>2. QED
    BY <2>1 DEF Screens
<1> HIDE DEF u
<1>4. u \in Terminals
  <2>1. u.rows \in Bytes /\ u.cols \in Bytes
    BY <1>0, <1>1
  <2>2. u.row \in Int /\ u.col \in Int
    BY <1>1
  <2>3. u.scr \in Screens
    BY <1>1, <1>3, Zenon
  <2>4. u.stray \in BOOLEAN
    BY <1>1
  <2>5. QED
    BY <1>1, <1>2, <2>1, <2>2, <2>3, <2>4, TerminalFrom
<1>5. QED
  BY <1>0, <1>1, <1>4 DEF ByteTerminals, u

\* The types, and room for the next byte while a line is edited.
Types ==
  /\ term \in ByteTerminals
  /\ phase \in {"boot", "edit", "run", "off"}
  /\ line \in Seq(Chars) /\ Len(line) < MaxLine /\ (phase = "edit" => Len(line) < MaxLine - 1)
  /\ prompt \in Bytes
  /\ typed \in 0..Keystrokes /\ ran \in 0..Commands
  /\ fb \in Answers \cup {NoBuffer} /\ resized \in BOOLEAN

\* Before the shell starts nothing has been written.
Reset == phase = "boot" => term = Blanked /\ fb = NoBuffer /\ ~resized

\* A terminal that fits is on its grid, and shows its buffer if the mode is
\* that of its text.
Fitted == phase # "boot" /\ ~misfit => term \in Sound(~resized)

IInv == Types /\ Reset /\ Fitted /\ OnlyTheFramebufferMapped /\ EchoIsTheLine

\* The invariant holds at first.
LEMMA InitIInv == Init => IInv
<1> SUFFICES ASSUME Init PROVE IInv
  OBVIOUS
<1>1. /\ fb = NoBuffer /\ mapped = {} /\ term = Blanked /\ line = <<>> /\ prompt = 0 /\ phase = "boot"
      /\ typed = 0 /\ ran = 0 /\ resized = FALSE
  BY DEF Init, Blanked
<1>2. 0 \in Bytes
  BY GridAssumption DEF Bytes
<1>3. Types
  <2>1. term \in ByteTerminals
    BY <1>1, BlankedIs
  <2>2. line \in Seq(Chars) /\ Len(line) = 0
    BY <1>1
  <2>3. typed \in 0..Keystrokes /\ ran \in 0..Commands /\ 0 < MaxLine
    BY <1>1, InputAssumption
  <2>4. QED
    BY <1>1, <1>2, <2>1, <2>2, <2>3 DEF Types
<1>4. QED
  BY <1>1, <1>3 DEF IInv, Reset, Fitted, OnlyTheFramebufferMapped, EchoIsTheLine

\* A new prompt is a line that the screen shows.
LEMMA PromptInStep ==
  ASSUME Types', prompt' = term'.col, line' = <<>>
  PROVE  InStep'
<1>1. Len(line') = 0 /\ Len(line') \in Int
  BY DEF Types
<1>2. term'.col \in Int
  BY TerminalTyped DEF Types, ByteTerminals
<1>3. Echo' = <<>>
  <2>1. 1..0 = {}
    OBVIOUS
  <2>2. QED
    BY <1>1, <2>1 DEF Echo
<1>4. QED
  BY <1>1, <1>2, <1>3 DEF InStep

\* Set_resolution adopts a mode.
LEMMA AdoptIs ==
  ASSUME Types, NEW f \in Answers, NEW ok \in BOOLEAN, Adopt(f, ok), OnlyTheFramebufferMapped
  PROVE  /\ fb' \in Answers /\ OnlyTheFramebufferMapped' /\ resized' \in BOOLEAN
         /\ Regrid(term, f, ok) \in ByteTerminals
         /\ resized' = (phase # "boot")
         /\ ~misfit' /\ ~term.stray => OnGrid(Regrid(term, f, ok)) /\ Shows(Regrid(term, f, ok))
<1>1. term \in ByteTerminals
  BY DEF Types
<1>2. /\ fb' = f /\ mapped' = Unmapped(fb, f) \cup (IF ok THEN Pages(f) ELSE {})
      /\ misfit' = ~(ok /\ Fits(Regrid(term, f, ok))) /\ resized' = (phase # "boot")
  BY DEF Adopt
<1>3. OnlyTheFramebufferMapped'
  <2>1. f.base # 0
    BY AnswerIs
  <2>2. Unmapped(fb, f) = {}
    BY DEF Unmapped, OnlyTheFramebufferMapped
  <2>3. mapped' \subseteq Pages(f)
    BY <1>2, <2>2
  <2>4. QED
    BY <1>2, <2>1, <2>3 DEF OnlyTheFramebufferMapped
<1>4. QED
  BY <1>1, <1>2, <1>3, RegridIs

-----------------------------------------------------------------------------
(* The line on the screen.                                                  *)

\* Where a character goes that is neither a line break nor an erasure.
LEMMA PutcTypes ==
  ASSUME NEW t \in ByteTerminals, OnGrid(t), NEW ch \in Chars \ {"cr", "lf"}, ~Erases(t, ch)
  PROVE  /\ t.col + 1 >= t.cols => term_putc(t, ch).col = 0
         /\ t.col + 1 < t.cols =>
              /\ term_putc(t, ch).row = t.row /\ term_putc(t, ch).col = t.col + 1
              /\ term_putc(t, ch).buf = [t.buf EXCEPT ![Index(t.row, t.col)] = ch]
<1> DEFINE p == Put(t, ch)
<1> DEFINE m == MovedOn(t, ch)
<1> DEFINE d == term_putc(t, ch)
<1>1. t \in Terminals /\ ~t.stray /\ t.col \in Int /\ t.cols \in Int
  BY TerminalTyped, GridAssumption DEF ByteTerminals, OnGrid, OnRows, Bytes
<1>2. d = draw_char(m, m.row, m.col, Block)
  BY <1>1, PutcIs DEF DrawCursor
<1>3. m = IF p.col >= t.cols THEN NextRow(p) ELSE p
  BY DEF MovedOn
<1>4. /\ p \in Terminals /\ p.col = t.col + 1 /\ p.row = t.row
      /\ p.buf = [t.buf EXCEPT ![Index(t.row, t.col)] = ch]
  BY <1>1, PutIs, PutOnGrid
<1> HIDE DEF p, m
<1>5. m \in Terminals
  BY <1>3, <1>4, NextRowIs
<1>6. d.col = m.col /\ d.row = m.row /\ d.buf = m.buf
  <2>1. Block \in Glyphs
    BY DEF Glyphs
  <2>2. QED
    BY <1>2, <1>5, <2>1, DrawIs
<1> HIDE DEF d
<1>7. ASSUME t.col + 1 >= t.cols PROVE d.col = 0
  <2>1. m = NextRow(p)
    BY <1>3, <1>4, <1>7
  <2>2. QED
    BY <1>4, <1>6, <2>1, NextRowIs
<1>8. ASSUME t.col + 1 < t.cols
      PROVE  d.row = t.row /\ d.col = t.col + 1 /\ d.buf = [t.buf EXCEPT ![Index(t.row, t.col)] = ch]
  <2>1. m = p
    BY <1>1, <1>3, <1>4, <1>8
  <2>2. QED
    BY <1>4, <1>6, <2>1
<1>9. QED
  BY <1>7, <1>8 DEF d

\* Where an erasure goes.
LEMMA PutcErases ==
  ASSUME NEW t \in ByteTerminals, OnGrid(t), NEW ch, Erases(t, ch)
  PROVE  /\ term_putc(t, ch).row = t.row /\ term_putc(t, ch).col = t.col - 1
         /\ term_putc(t, ch).buf = [t.buf EXCEPT ![Index(t.row, t.col - 1)] = Blank]
<1> DEFINE m == MovedOn(t, ch)
<1>1. t \in Terminals /\ ~t.stray /\ t.col > 3 /\ ch \notin {"cr", "lf"}
  BY DEF ByteTerminals, OnGrid, OnRows, Erases
<1>2. term_putc(t, ch) = draw_char(m, m.row, m.col, Block)
  BY <1>1, PutcIs DEF DrawCursor
<1>3. m = Erased(t)
  BY <1>1 DEF MovedOn
<1>4. /\ m \in Terminals /\ m.row = t.row /\ m.col = t.col - 1
      /\ m.buf = [t.buf EXCEPT ![Index(t.row, t.col - 1)] = Blank]
  BY <1>1, <1>3, ErasedIs, EraseOnGrid
<1>5. Block \in Glyphs
  BY DEF Glyphs
<1> HIDE DEF m
<1>6. QED
  BY <1>2, <1>4, <1>5, DrawIs

\* What printf("\b \b") leaves: the cell before the cursor is blank, and the
\* cursor is on it.
LEMMA RuboutIs ==
  ASSUME NEW t \in Sound(FALSE), t.col > 3
  PROVE  /\ term_puts(t, Rubout).row = t.row /\ term_puts(t, Rubout).col = t.col - 1
         /\ \A i \in 0..(Cells - 1) : i # Index(t.row, t.col - 1) => term_puts(t, Rubout).buf[i] = t.buf[i]
<1> DEFINE S == Sound(FALSE)
<1> DEFINE at == Index(t.row, t.col - 1)
<1>1. \A u \in S : \A ch \in Chars : term_putc(u, ch) \in S
  BY PutcKeeps
<1>2. t \in S /\ Rubout \in Seq(Chars) /\ Len(Rubout) = 3
  BY Texts DEF Rubout
<1>3. Rubout[1] = "bs" /\ Rubout[2] = Blank /\ Rubout[3] = "bs"
  BY DEF Rubout
<1>4. \A u \in S : u \in ByteTerminals /\ OnGrid(u) /\ u.col \in Int /\ u.cols \in Int /\ DOMAIN u.buf = 0..(Cells - 1)
  BY TerminalTyped, GridAssumption DEF Sound, ByteTerminals, Bytes, Buffers
<1> HIDE DEF S
<1>5. PICK h : Chain(h, t, Rubout, S) /\ term_puts(t, Rubout) = h[Len(Rubout)]
  BY <1>1, <1>2, PutsChain
<1>6. h \in [0..3 -> S] /\ h[0] = t /\ \A k \in 1..3 : h[k] = term_putc(h[k - 1], Rubout[k])
  BY <1>2, <1>5 DEF Chain
<1>7. h[1] = term_putc(t, "bs") /\ h[2] = term_putc(h[1], Blank) /\ h[3] = term_putc(h[2], "bs")
  <2>1. h[1] = term_putc(h[1 - 1], Rubout[1]) /\ h[2] = term_putc(h[2 - 1], Rubout[2])
        /\ h[3] = term_putc(h[3 - 1], Rubout[3])
    BY <1>6
  <2>2. 1 - 1 = 0 /\ 2 - 1 = 1 /\ 3 - 1 = 2
    OBVIOUS
  <2>3. QED
    BY <1>3, <1>6, <2>1, <2>2
<1>8. h[1] \in S /\ h[2] \in S /\ h[3] \in S
  BY <1>6
<1>9. h[1].row = t.row /\ h[1].col = t.col - 1 /\ h[1].buf = [t.buf EXCEPT ![at] = Blank]
  <2>1. Erases(t, "bs")
    BY DEF Erases
  <2>2. QED
    BY <1>2, <1>4, <1>7, <2>1, PutcErases
<1>10. h[1].cols = t.cols
  BY <1>2, <1>4, <1>7, PutcTyped DEF SameGrid, Chars
<1>11. t.col < t.cols
  BY <1>2, <1>4 DEF OnGrid
<1>12. h[2].row = t.row /\ h[2].col = t.col /\ h[2].buf = [h[1].buf EXCEPT ![at] = Blank]
  <2>1. ~Erases(h[1], Blank) /\ Blank \in Chars \ {"cr", "lf"}
    BY DEF Erases, Blank, Chars
  <2>2. h[1].col + 1 < h[1].cols /\ h[1].col + 1 = t.col
    BY <1>2, <1>4, <1>9, <1>10, <1>11
  <2>3. h[1] \in ByteTerminals /\ OnGrid(h[1])
    BY <1>4, <1>8
  <2>4. QED
    BY <1>7, <1>9, <2>1, <2>2, <2>3, PutcTypes
<1>13. h[3].row = t.row /\ h[3].col = t.col - 1 /\ h[3].buf = [h[2].buf EXCEPT ![at] = Blank]
  <2>1. Erases(h[2], "bs")
    BY <1>12 DEF Erases
  <2>2. h[2] \in ByteTerminals /\ OnGrid(h[2])
    BY <1>4, <1>8
  <2>3. QED
    BY <1>7, <1>12, <2>1, <2>2, PutcErases
<1>14. ASSUME NEW i \in 0..(Cells - 1), i # at PROVE h[3].buf[i] = t.buf[i]
  <2>1. DOMAIN t.buf = 0..(Cells - 1) /\ DOMAIN h[1].buf = 0..(Cells - 1) /\ DOMAIN h[2].buf = 0..(Cells - 1)
    BY <1>2, <1>4, <1>8
  <2> HIDE DEF at
  <2>2. h[3].buf[i] = h[2].buf[i] /\ h[2].buf[i] = h[1].buf[i] /\ h[1].buf[i] = t.buf[i]
    BY <1>9, <1>12, <1>13, <1>14, <2>1
  <2>3. QED
    BY <2>2
<1>15. QED
  BY <1>2, <1>5, <1>13, <1>14

-----------------------------------------------------------------------------
(* Every step keeps the invariant.                                          *)

\* A sound terminal is sound whether or not it shows its buffer.
LEMMA SoundIs ==
  ASSUME NEW on \in BOOLEAN, NEW t \in Sound(on)
  PROVE  /\ t \in ByteTerminals /\ t \in Terminals /\ OnGrid(t) /\ t \in Sound(FALSE)
         /\ on => Shows(t) /\ Ahead(t)
  BY DEF Sound, ByteTerminals

\* What a new prompt does to the invariant.
LEMMA PromptKeeps ==
  ASSUME NEW t \in ByteTerminals, NEW n \in Prompts, NewPrompt(t, n),
         typed' \in 0..Keystrokes, ran' \in 0..Commands,
         fb' \in Answers \cup {NoBuffer}, resized' \in BOOLEAN, OnlyTheFramebufferMapped',
         ~misfit' => t \in Sound(~resized')
  PROVE  IInv'
<1>1. /\ term' \in ByteTerminals /\ prompt' = term'.col /\ line' = <<>> /\ phase' = "edit"
      /\ \A on \in BOOLEAN : t \in Sound(on) => term' \in Sound(on)
  BY PromptWrites
<1>2. prompt' \in Bytes
  BY <1>1 DEF ByteTerminals
<1>3. line' \in Seq(Chars) /\ Len(line') = 0
  BY <1>1
<1>4. 0 < MaxLine /\ 0 < MaxLine - 1
  BY InputAssumption
<1>5. Types'
  BY <1>1, <1>2, <1>3, <1>4 DEF Types
<1>6. Reset'
  BY <1>1 DEF Reset
<1>7. Fitted'
  <2>1. (~resized') \in BOOLEAN
    OBVIOUS
  <2>2. QED
    BY <1>1, <2>1 DEF Fitted
<1>8. InStep'
  BY <1>1, <1>5, PromptInStep
<1>9. QED
  BY <1>5, <1>6, <1>7, <1>8 DEF IInv, EchoIsTheLine

\* A buffer that nothing has been written to.
LEMMA AheadAtReset ==
  ASSUME NEW t, t.buf = [i \in 0..(Cells - 1) |-> "nul"], OnGrid(t)
  PROVE  Ahead(t)
<1> SUFFICES ASSUME NEW r \in 0..(t.rows - 1), NEW c \in 0..(t.cols - 1)
             PROVE  t.buf[Index(r, c)] = "nul"
  BY DEF Ahead
<1>1. Index(r, c) \in 0..(Cells - 1)
  BY GridInBuffer DEF OnGrid, OnRows
<1>2. QED
  BY <1>1

\* The shell starts.
LEMMA BootKeeps ==
  ASSUME IInv, Boot
  PROVE  IInv'
<1>1. /\ phase = "boot" /\ term = Blanked /\ fb = NoBuffer /\ ~resized /\ UNCHANGED <<typed, ran>>
      /\ Types /\ OnlyTheFramebufferMapped
  BY DEF Boot, IInv, Reset
<1>2. term \in ByteTerminals /\ ~term.stray /\ term.row = 0 /\ term.col = 0
      /\ term.buf = [i \in 0..(Cells - 1) |-> "nul"] /\ Banner \in Seq(Chars)
  BY <1>1, BlankedIs, Texts
<1>3. typed' \in 0..Keystrokes /\ ran' \in 0..Commands
  BY <1>1 DEF Types
<1>4. CASE misfit' = TRUE /\ Start(term) /\ UNCHANGED <<fb, mapped, resized>>
  <2>1. PICK n \in Prompts : NewPrompt(term_puts(term, Banner), n)
    BY <1>4 DEF Start
  <2>2. term_puts(term, Banner) \in ByteTerminals
    BY <1>2, PutsTyped
  <2>3. fb' \in Answers \cup {NoBuffer} /\ resized' \in BOOLEAN /\ OnlyTheFramebufferMapped'
    BY <1>1, <1>4 DEF Types, OnlyTheFramebufferMapped
  <2>4. ~(~misfit')
    BY <1>4
  <2>5. QED
    BY <1>3, <2>1, <2>2, <2>3, <2>4, PromptKeeps
<1>5. ASSUME NEW f \in Answers, NEW ok \in BOOLEAN, Adopt(f, ok), Start(Regrid(term, f, ok))
      PROVE  IInv'
  <2> DEFINE t == Regrid(term, f, ok)
  <2> DEFINE u == term_puts(t, Banner)
  <2>1. /\ fb' \in Answers /\ OnlyTheFramebufferMapped' /\ resized' \in BOOLEAN /\ t \in ByteTerminals
        /\ resized' = (phase # "boot")
        /\ ~misfit' /\ ~term.stray => OnGrid(t) /\ Shows(t)
    BY <1>1, <1>5, AdoptIs
  <2>2. t.buf = term.buf
    BY <1>2, RegridIs
  <2>3. PICK n \in Prompts : NewPrompt(u, n)
    BY <1>5 DEF Start
  <2>4. ~misfit' => t \in Sound(TRUE)
    <3> SUFFICES ASSUME ~misfit' PROVE t \in Sound(TRUE)
      OBVIOUS
    <3>1. OnGrid(t) /\ Shows(t)
      BY <1>2, <2>1
    <3> HIDE DEF t
    <3>2. Ahead(t)
      BY <1>2, <2>2, <3>1, AheadAtReset
    <3>3. QED
      BY <2>1, <3>1, <3>2 DEF Sound
  <2> HIDE DEF t
  <2>5. u \in ByteTerminals /\ (~misfit' => u \in Sound(TRUE))
    BY <1>2, <2>1, <2>4, PutsTyped, PutsKeeps
  <2>6. resized' = FALSE
    BY <1>1, <2>1
  <2>7. ~misfit' => u \in Sound(~resized')
    BY <2>5, <2>6
  <2> HIDE DEF u
  <2>8. QED
    BY <1>3, <2>1, <2>3, <2>5, <2>7, PromptKeeps
<1>6. QED
  BY <1>4, <1>5 DEF Boot

\* A command that writes a text and returns to the prompt, and leaves the mode alone.
LEMMA TextKeeps ==
  ASSUME IInv, phase # "boot", NEW t \in ByteTerminals, \A on \in BOOLEAN : term \in Sound(on) => t \in Sound(on),
         NEW n \in Prompts, NewPrompt(t, n), typed' = typed, ran' \in 0..Commands,
         UNCHANGED <<fb, mapped, misfit, resized>>
  PROVE  IInv'
<1>1. typed' \in 0..Keystrokes /\ fb' \in Answers \cup {NoBuffer} /\ resized' \in BOOLEAN
      /\ OnlyTheFramebufferMapped'
  BY DEF IInv, Types, OnlyTheFramebufferMapped
<1>2. ~misfit' => t \in Sound(~resized')
  <2>1. ~misfit => term \in Sound(~resized)
    BY DEF IInv, Fitted
  <2>2. (~resized) \in BOOLEAN
    OBVIOUS
  <2>3. QED
    BY <2>1, <2>2
<1>3. QED
  BY <1>1, <1>2, PromptKeeps

\* Commands.
LEMMA RunKeeps ==
  ASSUME IInv, Run
  PROVE  IInv'
<1> DEFINE words == parse_args(line)
<1>1. /\ phase = "run" /\ ~term.stray /\ ran < Commands /\ ran' = ran + 1 /\ typed' = typed
      /\ Types /\ OnlyTheFramebufferMapped /\ Fitted
  BY DEF Run, IInv
<1>2. ran' \in 0..Commands /\ typed' \in 0..Keystrokes /\ term \in ByteTerminals /\ line \in Seq(Chars)
      /\ fb \in Answers \cup {NoBuffer} /\ resized \in BOOLEAN
  BY <1>1, InputAssumption DEF Types
<1>3. words \in Seq(Seq(Chars))
  BY <1>2, WordsOfLine
<1>4. /\ \/ words = <<>> /\ Nothing /\ UNCHANGED <<fb, mapped, misfit, resized>>
         \/ /\ words # <<>>
            /\ \/ (Say(words[1]) \/ Quiet \/ cmd_shutdown) /\ UNCHANGED <<fb, mapped, misfit, resized>>
               \/ cmd_clear
               \/ cmd_setres
  BY DEF Run
<1> HIDE DEF words
<1>5. ASSUME NEW n \in Prompts, NewPrompt(term, n), UNCHANGED <<fb, mapped, misfit, resized>>
      PROVE  IInv'
  BY <1>1, <1>2, <1>5, TextKeeps
<1>6. CASE (Nothing \/ Quiet) /\ UNCHANGED <<fb, mapped, misfit, resized>>
  BY <1>5, <1>6 DEF Nothing, Quiet
<1>7. CASE words # <<>> /\ Say(words[1]) /\ UNCHANGED <<fb, mapped, misfit, resized>>
  <2> DEFINE str == words[1] \o NewLine
  <2>1. str \in Seq(Chars)
    <3>1. words[1] \in Seq(Chars)
      BY <1>3, <1>7
    <3>2. NewLine \in Seq(Chars)
      BY Texts
    <3>3. QED
      BY <3>1, <3>2
  <2>2. PICK n \in Prompts : NewPrompt(term_puts(term, str), n)
    BY <1>7 DEF Say
  <2> HIDE DEF str
  <2> DEFINE t == term_puts(term, str)
  <2>3. t \in ByteTerminals /\ \A on \in BOOLEAN : term \in Sound(on) => t \in Sound(on)
    BY <1>2, <2>1, PutsTyped, PutsKeeps
  <2> HIDE DEF t
  <2>4. NewPrompt(t, n)
    BY <2>2 DEF t
  <2>5. QED
    BY <1>1, <1>2, <1>7, <2>3, <2>4, TextKeeps
<1>8. CASE cmd_shutdown /\ UNCHANGED <<fb, mapped, misfit, resized>>
  <2> DEFINE str == <<"a">> \o NewLine
  <2>1. str \in Seq(Chars)
    BY Texts
  <2>2. term' = term_puts(term, str) /\ phase' = "off" /\ UNCHANGED <<line, prompt, garbled>>
    BY <1>8 DEF cmd_shutdown
  <2> HIDE DEF str
  <2>3. term' \in ByteTerminals /\ \A on \in BOOLEAN : term \in Sound(on) => term' \in Sound(on)
    BY <1>2, <2>1, <2>2, PutsTyped, PutsKeeps
  <2>4. Types'
    BY <1>1, <1>2, <1>8, <2>2, <2>3 DEF Types
  <2>5. Fitted'
    <3>1. ~misfit => term \in Sound(~resized)
      BY <1>1 DEF Fitted
    <3>2. QED
      BY <1>8, <2>3, <3>1 DEF Fitted
  <2>6. OnlyTheFramebufferMapped'
    BY <1>1, <1>8 DEF OnlyTheFramebufferMapped
  <2>7. QED
    BY <2>2, <2>4, <2>5, <2>6 DEF IInv, Reset, EchoIsTheLine
<1>9. CASE cmd_clear
  <2>1. PICK n \in Prompts : NewPrompt(term_clear(term), n)
    BY <1>9 DEF cmd_clear
  <2>2. resized' = FALSE /\ UNCHANGED <<fb, mapped, misfit>>
    BY <1>9 DEF cmd_clear
  <2> DEFINE t == term_clear(term)
  <2>3. t \in ByteTerminals /\ \A on \in BOOLEAN : term \in Sound(on) => t \in Sound(TRUE)
    BY <1>2, ClearIs
  <2> HIDE DEF t
  <2>4. ~misfit' => t \in Sound(~resized')
    <3>1. ~misfit => term \in Sound(~resized)
      BY <1>1 DEF Fitted
    <3>2. (~resized) \in BOOLEAN /\ (~resized') = TRUE
      BY <2>2
    <3>3. QED
      BY <2>2, <2>3, <3>1, <3>2
  <2>5. OnlyTheFramebufferMapped' /\ fb' \in Answers \cup {NoBuffer} /\ resized' \in BOOLEAN
    BY <1>1, <1>2, <2>2 DEF OnlyTheFramebufferMapped
  <2>6. NewPrompt(t, n)
    BY <2>1 DEF t
  <2>7. QED
    BY <1>2, <2>3, <2>4, <2>5, <2>6, PromptKeeps
<1>10. ASSUME NEW f \in Answers, NEW ok \in BOOLEAN, Adopt(f, ok),
              NEW n \in Prompts, NewPrompt(Regrid(term, f, ok), n)
       PROVE  IInv'
  <2> DEFINE t == Regrid(term, f, ok)
  <2>1. /\ fb' \in Answers /\ OnlyTheFramebufferMapped' /\ resized' \in BOOLEAN /\ t \in ByteTerminals
        /\ resized' = (phase # "boot")
        /\ ~misfit' /\ ~term.stray => OnGrid(t) /\ Shows(t)
    BY <1>1, <1>10, AdoptIs
  <2>2. resized' = TRUE
    BY <1>1, <2>1
  <2> HIDE DEF t
  <2>3. ~misfit' => t \in Sound(~resized')
    BY <1>1, <2>1, <2>2 DEF Sound
  <2>4. NewPrompt(t, n)
    BY <1>10 DEF t
  <2>5. QED
    BY <1>2, <2>1, <2>3, <2>4, PromptKeeps
<1>11. CASE cmd_setres
  BY <1>6, <1>10, <1>11 DEF cmd_setres
<1>12. QED
  BY <1>4, <1>6, <1>7, <1>8, <1>9, <1>11

\* The places of the line on the screen.
LEMMA EchoPlaces ==
  ASSUME NEW t, OnGrid(t), NEW p \in Nat, NEW n \in Nat, t.col = p + n, NEW k \in 1..n
  PROVE  /\ Index(t.row, p + k - 1) \in 0..(Cells - 1)
         /\ Index(t.row, p + k - 1) # Index(t.row, t.col)
         /\ k < n => Index(t.row, p + k - 1) # Index(t.row, t.col - 1)
<1> DEFINE c == p + k - 1
<1> DEFINE d == t.col - 1
<1>1. /\ t.rows \in 1..MaxRows /\ t.cols \in 1..MaxCols /\ t.row \in 0..(t.rows - 1)
      /\ t.col \in 0..(t.cols - 1) /\ MaxCols \in Nat /\ MaxRows \in Nat
  BY GridAssumption DEF OnGrid, OnRows
<1>2. c \in 0..(t.cols - 1) /\ c < t.col /\ (k < n => c < d) /\ t.row \in Int /\ d \in Int
      /\ t.col \in Int /\ c \in Int
  BY <1>1
<1> HIDE DEF c, d
<1>3. Index(t.row, c) \in 0..(Cells - 1)
  BY <1>1, <1>2, GridInBuffer
<1>4. Index(t.row, c) = Index(t.row, 0) + c /\ Index(t.row, 0) \in Int
  BY <1>2, Offsets
<1>5. Index(t.row, t.col) = Index(t.row, 0) + t.col
  BY <1>2, Offsets
<1>6. Index(t.row, d) = Index(t.row, 0) + d
  BY <1>2, Offsets
<1>7. Index(t.row, c) # Index(t.row, t.col) /\ (k < n => Index(t.row, c) # Index(t.row, d))
  BY <1>2, <1>4, <1>5, <1>6
<1>8. QED
  BY <1>3, <1>7 DEF c, d

\* The end of a line: what remains of the actions of a key.
LEMMA EnterKeeps ==
  ASSUME IInv, NEW ch, Enter(ch), UNCHANGED <<fb, mapped, prompt, ran, misfit, resized>>,
         phase = "edit", typed' \in 0..Keystrokes
  PROVE  IInv'
<1>1. term' = term_puts(term, NewLine) /\ phase' = "run" /\ UNCHANGED <<line, garbled>>
  BY DEF Enter
<1>2. Types /\ Fitted /\ OnlyTheFramebufferMapped /\ term \in ByteTerminals
  BY DEF IInv, Types
<1>3. term' \in ByteTerminals /\ \A on \in BOOLEAN : term \in Sound(on) => term' \in Sound(on)
  BY <1>1, <1>2, Texts, PutsTyped, PutsKeeps
<1>4. Types'
  BY <1>1, <1>2, <1>3 DEF Types
<1>5. Fitted'
  <2>1. ~misfit => term \in Sound(~resized)
    BY <1>2 DEF Fitted
  <2>2. (~resized) \in BOOLEAN
    OBVIOUS
  <2>3. QED
    BY <1>3, <2>1, <2>2 DEF Fitted
<1>6. OnlyTheFramebufferMapped'
  BY <1>2 DEF OnlyTheFramebufferMapped
<1>7. QED
  BY <1>1, <1>4, <1>5, <1>6 DEF IInv, Reset, EchoIsTheLine

\* A byte of the line is deleted.
LEMMA RubKeeps ==
  ASSUME IInv, NEW ch, Rub(ch), UNCHANGED <<fb, mapped, prompt, ran, misfit, resized>>,
         phase = "edit", typed' \in 0..Keystrokes
  PROVE  IInv'
<1>1. /\ line # <<>> /\ line' = Front(line) /\ term' = term_puts(term, Rubout)
      /\ garbled' = (garbled \/ term.col < 4) /\ phase' = "edit"
  BY DEF Rub
<1>2. /\ Types /\ Fitted /\ OnlyTheFramebufferMapped /\ EchoIsTheLine /\ term \in ByteTerminals
      /\ line \in Seq(Chars) /\ Len(line) < MaxLine - 1 /\ prompt \in Bytes
  BY DEF IInv, Types
<1>3. term' \in ByteTerminals /\ \A on \in BOOLEAN : term \in Sound(on) => term' \in Sound(on)
  BY <1>1, <1>2, Texts, PutsTyped, PutsKeeps
<1> DEFINE n == Len(line)
<1>4. n \in Nat /\ n >= 1 /\ MaxLine \in Nat
  BY <1>1, <1>2, InputAssumption
<1>5. line' \in Seq(Chars) /\ Len(line') = n - 1 /\ \A k \in 1..(n - 1) : line'[k] = line[k]
  <2>1. line' = SubSeq(line, 1, n - 1)
    BY <1>1 DEF Front
  <2>2. \A k \in 1..(n - 1) : line[k] \in Chars
    BY <1>2
  <2> DEFINE s == SubSeq(line, 1, n - 1)
  <2>3. s \in Seq(Chars) /\ Len(s) = IF 1 <= n - 1 THEN (n - 1) - 1 + 1 ELSE 0
    BY <1>4, <2>2, SubSeqProperties
  <2>4. \A k \in 1..(n - 1) : s[k] = line[k]
    <3>1. \A k \in 1..((n - 1) - 1 + 1) : s[k] = line[1 + k - 1]
      BY <1>4, <2>2, SubSeqProperties
    <3>2. (n - 1) - 1 + 1 = n - 1 /\ \A k \in 1..(n - 1) : 1 + k - 1 = k
      BY <1>4
    <3>3. QED
      BY <3>1, <3>2
  <2> HIDE DEF s
  <2> DEFINE m == Len(s)
  <2>5. Len(s) = n - 1
    <3>1. m = IF 1 <= n - 1 THEN (n - 1) - 1 + 1 ELSE 0
      BY <2>3
    <3> HIDE DEF m, n
    <3>2. m = n - 1
      BY <1>4, <3>1
    <3>3. QED
      BY <3>2 DEF m, n
  <2>6. QED
    BY <2>1, <2>3, <2>4, <2>5 DEF s
<1>6. Types'
  <2>1. Len(line') < MaxLine - 1 /\ Len(line') < MaxLine
    BY <1>2, <1>4, <1>5
  <2>2. QED
    BY <1>1, <1>2, <1>3, <1>5, <2>1 DEF Types
<1>7. Fitted'
  <2>1. ~misfit => term \in Sound(~resized)
    BY <1>2 DEF Fitted
  <2>2. (~resized) \in BOOLEAN
    OBVIOUS
  <2>3. QED
    BY <1>3, <2>1, <2>2 DEF Fitted
<1>8. OnlyTheFramebufferMapped'
  BY <1>2 DEF OnlyTheFramebufferMapped
<1>9. ASSUME ~garbled', ~misfit PROVE InStep'
  <2> DEFINE u == term_puts(term, Rubout)
  <2>1. ~garbled /\ ~(term.col < 4) /\ InStep
    BY <1>1, <1>2, <1>9 DEF EchoIsTheLine
  <2>2. term \in Sound(FALSE) /\ OnGrid(term) /\ term \in Terminals
    <3>1. term \in Sound(~resized) /\ (~resized) \in BOOLEAN
      BY <1>2, <1>9 DEF Fitted
    <3>2. QED
      BY <3>1, SoundIs
  <2>3. term.col = prompt + n /\ Echo = line /\ prompt \in Nat /\ term.col \in Int /\ term.col > 3
    BY <1>2, <2>1, <2>2, TerminalTyped, GridAssumption DEF InStep, Bytes
  <2>4. /\ u.row = term.row /\ u.col = term.col - 1
        /\ \A i \in 0..(Cells - 1) : i # Index(term.row, term.col - 1) => u.buf[i] = term.buf[i]
    BY <2>2, <2>3, RuboutIs
  <2>5. term' = u
    BY <1>1
  <2> HIDE DEF u
  <2>6. term'.col = prompt' + Len(line')
    BY <1>4, <1>5, <2>3, <2>4, <2>5
  <2>7. ASSUME NEW k \in 1..(n - 1) PROVE u.buf[Index(u.row, prompt + k - 1)] = line[k]
    <3>1. k \in 1..n /\ k < n
      BY <1>4
    <3>2. /\ Index(term.row, prompt + k - 1) \in 0..(Cells - 1)
          /\ Index(term.row, prompt + k - 1) # Index(term.row, term.col - 1)
      BY <1>4, <2>2, <2>3, <3>1, EchoPlaces
    <3>3. u.buf[Index(term.row, prompt + k - 1)] = term.buf[Index(term.row, prompt + k - 1)]
      BY <2>4, <3>2
    <3>4. Echo[k] = term.buf[Index(term.row, prompt + k - 1)]
      BY <3>1 DEF Echo
    <3>5. QED
      BY <2>3, <2>4, <3>3, <3>4
  <2>8. Echo' = [k \in 1..(n - 1) |-> u.buf[Index(u.row, prompt + k - 1)]]
    BY <1>5, <2>5 DEF Echo
  <2>9. line' = [k \in 1..(n - 1) |-> line[k]]
    <3>1. line' \in [1..Len(line') -> Chars]
      BY <1>5
    <3>2. QED
      BY <1>5, <3>1
  <2>10. Echo' = line'
    BY <2>7, <2>8, <2>9
  <2>11. QED
    BY <2>6, <2>10 DEF InStep
<1>10. QED
  BY <1>1, <1>6, <1>7, <1>8, <1>9 DEF IInv, Reset, EchoIsTheLine

\* A byte is appended to the line and echoed.
LEMMA TypeKeeps ==
  ASSUME IInv, NEW ch \in Keys, Type(ch), UNCHANGED <<fb, mapped, prompt, ran, misfit, resized>>,
         phase = "edit", ~term.stray, typed' \in 0..Keystrokes
  PROVE  IInv'
<1>1. /\ ch \notin {"cr", "lf"} /\ line' = Append(line, ch) /\ term' = term_putc(term, ch)
      /\ garbled' = (garbled \/ Erases(term, ch) \/ term'.col = 0)
      /\ phase' = IF Full(line') THEN "run" ELSE "edit"
  BY DEF Type
<1>2. /\ Types /\ Fitted /\ OnlyTheFramebufferMapped /\ EchoIsTheLine /\ term \in ByteTerminals
      /\ line \in Seq(Chars) /\ Len(line) < MaxLine - 1 /\ prompt \in Bytes
  BY DEF IInv, Types
<1>3. ch \in Chars \ {"cr", "lf"} /\ ch \in Chars
  BY <1>1, InputAssumption
<1>4. term' \in ByteTerminals /\ \A on \in BOOLEAN : term \in Sound(on) => term' \in Sound(on)
  BY <1>1, <1>2, <1>3, PutcTyped, PutcKeeps
<1> DEFINE n == Len(line)
<1>5. n \in Nat /\ MaxLine \in Nat
  BY <1>2, InputAssumption
<1>6. /\ line' \in Seq(Chars) /\ Len(line') = n + 1 /\ line'[n + 1] = ch
      /\ \A k \in 1..n : line'[k] = line[k]
  BY <1>1, <1>2, <1>3
<1>7. Types'
  <2>1. Len(line') < MaxLine /\ (phase' = "edit" => Len(line') < MaxLine - 1)
    BY <1>1, <1>2, <1>5, <1>6 DEF Full
  <2>2. phase' \in {"boot", "edit", "run", "off"}
    BY <1>1
  <2>3. QED
    BY <1>2, <1>4, <1>6, <2>1, <2>2 DEF Types
<1>8. phase' # "boot"
  BY <1>1
<1>9. Fitted'
  <2>1. ~misfit => term \in Sound(~resized)
    BY <1>2 DEF Fitted
  <2>2. (~resized) \in BOOLEAN
    OBVIOUS
  <2>3. QED
    BY <1>4, <2>1, <2>2 DEF Fitted
<1>10. OnlyTheFramebufferMapped'
  BY <1>2 DEF OnlyTheFramebufferMapped
<1>11. ASSUME ~garbled', ~misfit PROVE InStep'
  <2> DEFINE u == term_putc(term, ch)
  <2> DEFINE at == Index(term.row, term.col)
  <2>1. ~garbled /\ ~Erases(term, ch) /\ u.col # 0 /\ InStep
    BY <1>1, <1>2, <1>11 DEF EchoIsTheLine
  <2>2. OnGrid(term) /\ term \in Terminals
    <3>1. term \in Sound(~resized) /\ (~resized) \in BOOLEAN
      BY <1>2, <1>11 DEF Fitted
    <3>2. QED
      BY <3>1, SoundIs
  <2>3. term.col = prompt + n /\ Echo = line /\ prompt \in Nat /\ term.col \in Int /\ term.cols \in Int
        /\ DOMAIN term.buf = 0..(Cells - 1)
    BY <1>2, <2>1, <2>2, TerminalTyped, GridAssumption DEF InStep, Bytes, Buffers
  <2>4. u.row = term.row /\ u.col = term.col + 1 /\ u.buf = [term.buf EXCEPT ![at] = ch]
    BY <1>2, <1>3, <2>1, <2>2, <2>3, PutcTypes
  <2>5. term' = u
    BY <1>1
  <2>6. at \in 0..(Cells - 1)
    BY <2>2, GridInBuffer DEF OnGrid, OnRows
  <2> HIDE DEF u
  <2>7. term'.col = prompt' + Len(line')
    BY <1>5, <1>6, <2>3, <2>4, <2>5
  <2>8. ASSUME NEW k \in 1..(n + 1) PROVE u.buf[Index(u.row, prompt + k - 1)] = line'[k]
    <3>1. CASE k = n + 1
      <4>1. prompt + k - 1 = term.col
        BY <1>5, <2>3, <3>1
      <4>2. QED
        BY <1>6, <2>3, <2>4, <2>6, <3>1, <4>1
    <3>2. CASE k # n + 1
      <4>1. k \in 1..n
        BY <1>5, <3>2
      <4>2. Index(term.row, prompt + k - 1) \in 0..(Cells - 1) /\ Index(term.row, prompt + k - 1) # at
        BY <1>5, <2>2, <2>3, <4>1, EchoPlaces
      <4>3. u.buf[Index(term.row, prompt + k - 1)] = term.buf[Index(term.row, prompt + k - 1)]
        BY <2>3, <2>4, <4>2
      <4>4. Echo[k] = term.buf[Index(term.row, prompt + k - 1)]
        BY <4>1 DEF Echo
      <4>5. QED
        BY <1>6, <2>3, <2>4, <4>1, <4>3, <4>4
    <3>3. QED
      BY <3>1, <3>2
  <2>9. Echo' = [k \in 1..(n + 1) |-> u.buf[Index(u.row, prompt + k - 1)]]
    BY <1>6, <2>5 DEF Echo
  <2>10. line' = [k \in 1..(n + 1) |-> line'[k]]
    <3>1. line' \in [1..Len(line') -> Chars]
      BY <1>6
    <3>2. QED
      BY <1>6, <3>1
  <2>11. Echo' = line'
    BY <2>8, <2>9, <2>10
  <2>12. QED
    BY <2>7, <2>11 DEF InStep
<1>12. QED
  BY <1>7, <1>8, <1>9, <1>10, <1>11 DEF IInv, Reset, EchoIsTheLine

\* A byte that arrives.
LEMMA KeyKeeps ==
  ASSUME IInv, Key
  PROVE  IInv'
<1>1. /\ phase = "edit" /\ ~term.stray /\ typed < Keystrokes /\ typed' = typed + 1
      /\ UNCHANGED <<fb, mapped, prompt, ran, misfit, resized>>
  BY DEF Key
<1>2. typed' \in 0..Keystrokes
  BY <1>1, InputAssumption DEF IInv, Types
<1>3. PICK ch \in Keys : Enter(ch) \/ Rub(ch) \/ Type(ch) \/ Ignore(ch)
  BY DEF Key
<1>4. CASE Ignore(ch)
  <2>1. UNCHANGED <<line, term, garbled, phase>>
    BY <1>4 DEF Ignore
  <2>2. Types'
    BY <1>1, <1>2, <2>1 DEF IInv, Types
  <2>3. Reset' /\ Fitted' /\ OnlyTheFramebufferMapped'
    BY <1>1, <2>1 DEF IInv, Reset, Fitted, OnlyTheFramebufferMapped
  <2>4. EchoIsTheLine'
    BY <1>1, <2>1 DEF IInv, EchoIsTheLine, InStep, Echo
  <2>5. QED
    BY <2>2, <2>3, <2>4 DEF IInv
<1>5. CASE Enter(ch)
  BY <1>1, <1>2, <1>5, EnterKeeps
<1>6. CASE Rub(ch)
  BY <1>1, <1>2, <1>6, RubKeeps
<1>7. CASE Type(ch)
  BY <1>1, <1>2, <1>7, TypeKeeps
<1>8. QED
  BY <1>3, <1>4, <1>5, <1>6, <1>7

\* The invariant is inductive.
LEMMA NextIInv ==
  ASSUME IInv, [Next]_vars
  PROVE  IInv'
<1>1. CASE Boot
  BY <1>1, BootKeeps
<1>2. CASE Key
  BY <1>2, KeyKeeps
<1>3. CASE Run
  BY <1>3, RunKeeps
<1>4. CASE UNCHANGED vars
  <2>1. UNCHANGED <<fb, mapped, term, line, prompt, phase, typed, ran, misfit, resized, garbled>>
    BY <1>4 DEF vars
  <2>2. Types'
    BY <2>1 DEF IInv, Types
  <2>3. Reset' /\ Fitted' /\ OnlyTheFramebufferMapped'
    BY <2>1 DEF IInv, Reset, Fitted, OnlyTheFramebufferMapped
  <2>4. EchoIsTheLine'
    BY <2>1 DEF IInv, EchoIsTheLine, InStep, Echo
  <2>5. QED
    BY <2>2, <2>3, <2>4 DEF IInv
<1>5. QED
  BY <1>1, <1>2, <1>3, <1>4 DEF Next

\* The invariant holds in every reachable state of the console.
THEOREM Invariant == Spec => []IInv
<1>1. Init => IInv
  BY InitIInv
<1>2. IInv /\ [Next]_vars => IInv'
  BY NextIInv
<1>3. QED
  BY <1>1, <1>2, PTL DEF Spec

\* What the invariant says of the properties.
LEMMA IInvSays ==
  ASSUME IInv
  PROVE  /\ StaysOnTheGrid /\ ScreenShowsBuffer /\ EchoIsTheLine
         /\ OnlyTheFramebufferMapped /\ WordsAreTheLine
<1>1. Types /\ Fitted /\ EchoIsTheLine /\ OnlyTheFramebufferMapped
  BY DEF IInv
<1>2. TypeOK
  <2>1. /\ term.rows \in Bytes /\ term.cols \in Bytes /\ term.buf \in Buffers /\ term.stray \in BOOLEAN
    BY <1>1, TerminalTyped DEF Types, ByteTerminals
  <2>2. QED
    BY <1>1, <2>1 DEF TypeOK, Types, Bytes, Buffers
<1>3. ASSUME phase # "boot", ~misfit
      PROVE  OnGrid(term) /\ (~resized => Shows(term)) /\ term \in Terminals
  <2>1. term \in Sound(~resized) /\ (~resized) \in BOOLEAN
    BY <1>1, <1>3 DEF Fitted
  <2>2. QED
    BY <2>1, SoundIs
<1>4. StaysOnTheGrid
  <2>1. ASSUME OnGrid(term), term \in Terminals
        PROVE  ~term.stray /\ term.row < term.rows /\ term.col < term.cols
    <3>1. /\ ~term.stray /\ term.row \in 0..(term.rows - 1) /\ term.col \in 0..(term.cols - 1)
          /\ term.rows \in Int /\ term.cols \in Int
      BY <2>1, TerminalTyped, GridAssumption DEF OnGrid, OnRows, Bytes
    <3>2. QED
      BY <3>1
  <2>2. QED
    BY <1>2, <1>3, <2>1 DEF StaysOnTheGrid
<1>5. ScreenShowsBuffer
  BY <1>3 DEF ScreenShowsBuffer, Shows, Matches
<1>6. EchoIsTheLine
  BY <1>1
<1>7. WordsAreTheLine
  <2>1. line \in Seq(Chars)
    BY <1>1 DEF Types
  <2>2. QED
    BY <2>1, WordsOfLine DEF WordsAreTheLine
<1>8. QED
  BY <1>1, <1>4, <1>5, <1>6, <1>7

\* term_putc keeps the cursor on the grid and every write in range, for every
\* size of the arrays, every mode and every line, while the mode fits.
THEOREM StaysOnTheGridHolds == Spec => []StaysOnTheGrid
<1>1. IInv => StaysOnTheGrid
  BY IInvSays
<1>2. QED
  BY <1>1, Invariant, PTL

\* The pixels and term_buffer agree in every cell, scrolled or not, for every
\* size of the grid.
THEOREM ScreenShowsBufferHolds == Spec => []ScreenShowsBuffer
<1>1. IInv => ScreenShowsBuffer
  BY IInvSays
<1>2. QED
  BY <1>1, Invariant, PTL

\* The line read_line has stored is the one that term_putc has echoed.
THEOREM EchoIsTheLineHolds == Spec => []EchoIsTheLine
<1>1. IInv => EchoIsTheLine
  BY IInvSays
<1>2. QED
  BY <1>1, Invariant, PTL

\* set_resolution leaves no page of a released framebuffer mapped.
THEOREM OnlyTheFramebufferMappedHolds == Spec => []OnlyTheFramebufferMapped
<1>1. IInv => OnlyTheFramebufferMapped
  BY IInvSays
<1>2. QED
  BY <1>1, Invariant, PTL

\* parse_args splits every line, of any length, into its words, and join_args
\* of them fits the buffer that held the line.
THEOREM WordsAreTheLineHolds == Spec => []WordsAreTheLine
<1>1. IInv => WordsAreTheLine
  BY IInvSays
<1>2. QED
  BY <1>1, Invariant, PTL

=============================================================================
