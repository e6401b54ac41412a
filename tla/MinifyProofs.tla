---------------------------- MODULE MinifyProofs ----------------------------
(***************************************************************************)
(* Theorems about Minify, for every stylesheet, document and script.  That *)
(* a second pass changes nothing is shown of every step of the first: the  *)
(* pass over what has been written so far stands where the pass stands     *)
(* that has written it (CAgain, HAgain).                                   *)
(***************************************************************************)
EXTENDS Minify, WellFoundedInduction, TLAPS

-----------------------------------------------------------------------------
(* Induction over the naturals, with a set for the property; and functions *)
(* defined by their steps.                                                 *)

LEMMA LeastElement ==
    ASSUME NEW T \in SUBSET Nat, T # {}
    PROVE  \E x \in T : \A y \in T : x <= y
<1> DEFINE R == OpToRel(<, Nat)
<1>1. IsWellFoundedOn(R, Nat)
  BY NatLessThanWellFounded, Zenon
<1>2. \A x, y \in Nat : x < y => <<x, y>> \in R
  BY DEF OpToRel
<1> HIDE DEF R
<1>3. PICK x \in T : \A y \in T : ~ (<<y, x>> \in R)
  BY <1>1, WFMin, Zenon
<1>4. ASSUME NEW y \in T PROVE x <= y
  <2>1. ~ (y < x)
    BY <1>2, <1>3, Zenon
  <2>2. QED
    BY <2>1
<1>5. QED
  BY <1>4

LEMMA Induction ==
    ASSUME NEW T, 0 \in T, \A n \in Nat : n \in T => n + 1 \in T
    PROVE  Nat \subseteq T
<1>1. SUFFICES ASSUME Nat \ T # {} PROVE FALSE
  OBVIOUS
<1>2. PICK x \in Nat \ T : \A y \in Nat \ T : x <= y
  BY <1>1, LeastElement
<1>3. x - 1 \in Nat /\ x - 1 \in T
  BY <1>2
<1>4. QED
  BY <1>2, <1>3

\* n steps of f from b.
IsRun(g, f, b, n) == g[0] = b /\ \A i \in 1..n : g[i] = f[i][g[i - 1]]

\* There is a run of n steps, so that a CHOOSE of one is one.
LEMMA RunExists ==
    ASSUME NEW A, NEW b \in A, NEW m \in Nat, NEW f \in [1..m -> [A -> A]]
    PROVE  \E g \in [0..m -> A] : IsRun(g, f, b, m)
<1> DEFINE T == {n \in Nat : n <= m => \E g \in [0..n -> A] : IsRun(g, f, b, n)}
<1>1. 0 \in T
  <2>1. [i \in 0..0 |-> b] \in [0..0 -> A]
    OBVIOUS
  <2>2. IsRun([i \in 0..0 |-> b], f, b, 0)
    BY DEF IsRun
  <2>3. QED
    BY <2>1, <2>2
<1>2. ASSUME NEW n \in Nat, n \in T PROVE n + 1 \in T
  <2>1. SUFFICES ASSUME n + 1 <= m
                 PROVE  \E h \in [0..(n + 1) -> A] : IsRun(h, f, b, n + 1)
    OBVIOUS
  <2>2. PICK g \in [0..n -> A] : IsRun(g, f, b, n)
    BY <1>2, <2>1
  <2> DEFINE h == [i \in 0..(n + 1) |-> IF i <= n THEN g[i] ELSE f[n + 1][g[n]]]
  <2>3. f[n + 1][g[n]] \in A
    BY <2>1
  <2>4. h \in [0..(n + 1) -> A]
    BY <2>3
  <2>5. ASSUME NEW i \in 0..(n + 1)
        PROVE  h[i] = IF i = 0 THEN b ELSE f[i][h[i - 1]]
    <3>1. CASE i = 0
      BY <2>2, <3>1 DEF IsRun
    <3>2. CASE i # 0 /\ i <= n
      BY <2>2, <3>2 DEF IsRun
    <3>3. CASE i = n + 1
      BY <3>3
    <3>4. QED
      BY <3>1, <3>2, <3>3
  <2>6. IsRun(h, f, b, n + 1)
    <3> HIDE DEF h
    <3>1. QED
      BY <2>5 DEF IsRun
  <2>7. QED
    BY <2>4, <2>6
<1>3. m \in T
  BY <1>1, <1>2, Induction
<1>4. QED
  BY <1>3

\* g and h are runs from b whose first k steps are the same.
SameSteps(g, f, h, e, b, k) ==
    /\ k \in Nat
    /\ IsRun(g, f, b, k) /\ IsRun(h, e, b, k)
    /\ \A i \in 1..k : f[i] = e[i]

\* Runs with the same beginning and the same steps come to the same.
LEMMA RunsAgree ==
    ASSUME NEW g, NEW f, NEW h, NEW e, NEW b, NEW k, SameSteps(g, f, h, e, b, k)
    PROVE  g[k] = h[k]
<1> USE DEF SameSteps
<1> DEFINE T == {i \in Nat : i <= k => g[i] = h[i]}
<1>1. 0 \in T
  BY DEF IsRun
<1>2. ASSUME NEW i \in Nat, i \in T PROVE i + 1 \in T
  <2>1. SUFFICES ASSUME i + 1 <= k PROVE g[i + 1] = h[i + 1]
    OBVIOUS
  <2>2. g[i] = h[i]
    BY <1>2, <2>1
  <2>3. g[i + 1] = f[i + 1][g[i]] /\ h[i + 1] = e[i + 1][h[i]]
    BY <2>1 DEF IsRun
  <2>4. QED
    BY <2>1, <2>2, <2>3
<1>3. Nat \subseteq T
  <2> HIDE DEF T
  <2>1. QED
    BY <1>1, <1>2, Induction
<1>4. QED
  BY <1>3

\* A run stays in the set its steps stay in.
LEMMA RunsStay ==
    ASSUME NEW A, NEW b \in A, NEW m \in Nat, NEW f \in [1..m -> [A -> A]], NEW p,
           p[0] = b, \A i \in 1..m : p[i - 1] \in A => p[i] = f[i][p[i - 1]]
    PROVE  \A i \in 0..m : p[i] \in A
<1> DEFINE T == {n \in Nat : n <= m => p[n] \in A}
<1>1. 0 \in T
  OBVIOUS
<1>2. ASSUME NEW n \in Nat, n \in T PROVE n + 1 \in T
  BY <1>2
<1>3. Nat \subseteq T
  <2> HIDE DEF T
  <2>1. QED
    BY <1>1, <1>2, Induction
<1>4. QED
  BY <1>3

-----------------------------------------------------------------------------
(* The pass over a stylesheet.                                             *)

CItems == Items \cup {"sp"}
CStates == [out : Seq(CItems \ {"comment"}), depth : Nat, space : BOOLEAN]
CSteps(s) == [i \in 1..Len(s) |-> [m \in CStates |-> C!Step(m, s[i])]]
CAfter(s) == C!Passes(s)[Len(s)]

LEMMA FlushedTyped ==
    ASSUME NEW m \in CStates, NEW c
    PROVE  C!Flushed(m, c) \in Seq(CItems \ {"comment"})
<1>1. C!Flushed(m, c) \in {m.out, Append(m.out, "sp")}
  BY DEF C!Flushed, C!Separates, C!Last
<1>2. "sp" \in CItems \ {"comment"}
  BY DEF CItems
<1>3. m.out \in Seq(CItems \ {"comment"})
  BY DEF CStates
<1>4. Append(m.out, "sp") \in Seq(CItems \ {"comment"})
  BY <1>2, <1>3
<1>5. QED
  BY <1>1, <1>3, <1>4

LEMMA EmitTyped ==
    ASSUME NEW m \in CStates, NEW c \in CItems, c # "comment"
    PROVE  C!Emit(m, c) \in CStates
<1>1. Append(C!Flushed(m, c), c) \in Seq(CItems \ {"comment"})
  BY FlushedTyped
<1>2. QED
  BY <1>1 DEF C!Emit, CStates

LEMMA CStepTyped ==
    ASSUME NEW m \in CStates, NEW c \in CItems
    PROVE  C!Step(m, c) \in CStates
<1>1. CASE c \in {"sp", "comment"}
  <2>1. C!Step(m, c) = [m EXCEPT !.space = TRUE]
    BY <1>1, Zenon DEF C!Step
  <2>2. QED
    BY <2>1 DEF CStates
<1>2. CASE c = "("
  <2>1. [m EXCEPT !.depth = @ + 1] \in CStates
    BY DEF CStates
  <2>2. C!Step(m, c) = C!Emit([m EXCEPT !.depth = @ + 1], c)
    BY <1>2 DEF C!Step
  <2>3. QED
    BY <1>2, <2>1, <2>2, EmitTyped, Zenon
<1>3. CASE c = ")"
  <2>1. [m EXCEPT !.depth = IF @ > 0 THEN @ - 1 ELSE 0] \in CStates
    BY DEF CStates
  <2>2. C!Step(m, c) = C!Emit([m EXCEPT !.depth = IF @ > 0 THEN @ - 1 ELSE 0], c)
    BY <1>3 DEF C!Step
  <2>3. QED
    BY <1>3, <2>1, <2>2, EmitTyped, Zenon
<1>4. CASE c = "semi"
  <2>1. [m EXCEPT !.space = FALSE] \in CStates
    BY DEF CStates
  <2>2. C!Step(m, c) = C!Semicolon(m)
    BY <1>4 DEF C!Step
  <2>3. C!Semicolon(m) \in {m, [m EXCEPT !.space = FALSE], C!Emit(m, "semi")}
    BY DEF C!Semicolon
  <2>4. QED
    BY <1>4, <2>1, <2>2, <2>3, EmitTyped
<1>5. CASE c = "rbrace"
  <2> DEFINE out  == IF m.out # <<>> /\ C!Last(m.out) = "semi" THEN C!Front(m.out) ELSE m.out
             back == [m EXCEPT !.out = out]
  <2>1. back \in CStates
    <3>1. out \in Seq(CItems \ {"comment"})
      BY DEF CStates, C!Front, C!Last
    <3> HIDE DEF out
    <3>2. QED
      BY <3>1 DEF CStates
  <2>2. C!Step(m, c) = C!Emit(back, c)
    BY <1>5 DEF C!Step, C!CloseBrace
  <2>3. QED
    BY <1>5, <2>1, <2>2, EmitTyped
<1>6. CASE c \notin {"sp", "comment", "(", ")", "semi", "rbrace"}
  <2>1. C!Step(m, c) = C!Emit(m, c)
    BY <1>6 DEF C!Step
  <2>2. QED
    BY <1>6, <2>1, EmitTyped
<1>7. QED
  BY <1>1, <1>2, <1>3, <1>4, <1>5, <1>6

\* Passes is the run of Step over the items.
LEMMA CRuns ==
    ASSUME NEW s \in Seq(CItems)
    PROVE  /\ C!Passes(s) \in [0..Len(s) -> CStates]
           /\ IsRun(C!Passes(s), CSteps(s), C!Start, Len(s))
<1> DEFINE f == CSteps(s)
           n == Len(s)
           IsPass(p) == p = [i \in 0..n |-> IF i = 0 THEN C!Start ELSE C!Step(p[i - 1], s[i])]
           q == C!Passes(s)
<1>1. C!Start \in CStates
  BY DEF C!Start, CStates
<1>2. f \in [1..n -> [CStates -> CStates]]
  BY CStepTyped DEF CSteps
<1>3. n \in Nat
  OBVIOUS
<1>4. PICK g \in [0..n -> CStates] : IsRun(g, f, C!Start, n)
  <2> HIDE DEF f, n
  <2>1. QED
    BY <1>1, <1>2, <1>3, RunExists
<1>5. IsPass(g)
  <2>1. ASSUME NEW i \in 0..n, i # 0 PROVE f[i][g[i - 1]] = C!Step(g[i - 1], s[i])
    BY <1>4, <2>1 DEF CSteps
  <2>2. \A i \in 0..n : g[i] = IF i = 0 THEN C!Start ELSE C!Step(g[i - 1], s[i])
    BY <1>4, <2>1 DEF IsRun
  <2>3. QED
    BY <2>2
<1>6. q = CHOOSE p : IsPass(p)
  BY DEF C!Passes
<1>7. IsPass(q)
  BY <1>5, <1>6
<1> HIDE DEF q
<1>8. \A i \in 1..n : q[i - 1] \in CStates => q[i] = f[i][q[i - 1]]
  BY <1>7 DEF CSteps
<1>9. \A i \in 0..n : q[i] \in CStates
  <2>1. q[0] = C!Start
    BY <1>7
  <2> HIDE DEF f, n, IsPass
  <2>2. QED
    BY <1>1, <1>2, <1>3, <1>8, <2>1, RunsStay
<1>10. q \in [0..n -> CStates]
  BY <1>7, <1>9
<1>11. IsRun(q, f, C!Start, n)
  <2>1. q[0] = C!Start
    BY <1>7
  <2> HIDE DEF f, n
  <2>2. QED
    BY <1>3, <1>8, <1>9, <2>1 DEF IsRun
<1>12. QED
  BY <1>10, <1>11 DEF q

\* One more item is one more step.
LEMMA CAfterAppend ==
    /\ CAfter(<<>>) = C!Start
    /\ \A s \in Seq(CItems), c \in CItems :
          CAfter(s) \in CStates /\ CAfter(Append(s, c)) = C!Step(CAfter(s), c)
<1>1. CAfter(<<>>) = C!Start
  <2>1. <<>> \in Seq(CItems) /\ Len(<<>>) = 0
    OBVIOUS
  <2>2. \A s \in Seq(CItems) : Len(s) = 0 => CAfter(s) = C!Start
    BY CRuns DEF CAfter, IsRun
  <2>3. QED
    BY <2>1, <2>2, Zenon
<1>2. ASSUME NEW s \in Seq(CItems), NEW c \in CItems
      PROVE  CAfter(s) \in CStates /\ CAfter(Append(s, c)) = C!Step(CAfter(s), c)
  <2> DEFINE n == Len(s)
             t == Append(s, c)
             g == C!Passes(s)
             h == C!Passes(t)
  <2>1. n \in Nat /\ t \in Seq(CItems) /\ Len(t) = n + 1 /\ t[n + 1] = c
        /\ \A i \in 1..n : t[i] = s[i]
    OBVIOUS
  <2> HIDE DEF t
  <2>2. /\ g \in [0..n -> CStates] /\ IsRun(g, CSteps(s), C!Start, n)
        /\ h \in [0..(n + 1) -> CStates] /\ IsRun(h, CSteps(t), C!Start, n + 1)
    BY <2>1, CRuns
  <2>3. \A i \in 1..n : CSteps(t)[i] = CSteps(s)[i]
    BY <2>1 DEF CSteps
  <2> HIDE DEF n, g, h
  <2>4. h[n] = g[n]
    <3>1. SameSteps(g, CSteps(s), h, CSteps(t), C!Start, n)
      BY <2>1, <2>2, <2>3 DEF SameSteps, IsRun
    <3>2. QED
      BY <3>1, RunsAgree
  <2>5. h[n + 1] = CSteps(t)[n + 1][h[n]]
    BY <2>1, <2>2 DEF IsRun
  <2>6. h[n + 1] = C!Step(h[n], c)
    BY <2>1, <2>2, <2>5 DEF CSteps
  <2>7. QED
    BY <2>1, <2>2, <2>4, <2>6 DEF CAfter, n, g, h, t
<1>3. QED
  BY <1>1, <1>2

-----------------------------------------------------------------------------
(* The pass over what the pass has written.                                *)

CText == Seq(CItems \ {"comment"})
CState(o, d, b) == [out |-> o, depth |-> d, space |-> b]

LEMMA CUpdates ==
    ASSUME NEW o, NEW d, NEW b
    PROVE  /\ CState(o, d, b).out = o /\ CState(o, d, b).depth = d
           /\ CState(o, d, b).space = b
           /\ \A x : [CState(o, d, b) EXCEPT !.out = x] = CState(x, d, b)
           /\ \A x : [CState(o, d, b) EXCEPT !.depth = x] = CState(o, x, b)
           /\ \A x : [CState(o, d, b) EXCEPT !.space = x] = CState(o, d, x)
BY DEF CState

LEMMA CTextFacts ==
    ASSUME NEW o \in CText, NEW c \in CItems, c # "comment"
    PROVE  /\ o \in Seq(CItems)
           /\ Append(o, c) \in CText /\ Append(o, c) # <<>>
           /\ C!Last(Append(o, c)) = c /\ C!Front(Append(o, c)) = o
BY DEF CText, C!Last, C!Front

LEMMA CStateFacts ==
    ASSUME NEW m \in CStates
    PROVE  /\ m.out \in CText /\ m.depth \in Nat /\ m.space \in BOOLEAN
           /\ m = CState(m.out, m.depth, m.space)
BY DEF CStates, CText, CState

\* What stands before the item c once the space that is pending, or none, is
\* written.
CBefore(o, d, b, c) ==
    IF b /\ o # <<>> /\ C!Last(o) # "sp" /\ C!Separates(C!Last(o), c, d)
    THEN Append(o, "sp") ELSE o

LEMMA CBeforeIs ==
    ASSUME NEW o, NEW d, NEW b \in BOOLEAN, NEW c
    PROVE  /\ CBefore(o, d, FALSE, c) = o
           /\ CBefore(o, d, b, c) = o \/ (b = TRUE /\ CBefore(o, d, b, c) = Append(o, "sp"))
BY Zenon DEF CBefore

LEMMA EmitIs ==
    ASSUME NEW o \in CText, NEW d \in Nat, NEW b \in BOOLEAN, NEW c
    PROVE  /\ CState(o, d, b) \in CStates
           /\ C!Emit(CState(o, d, b), c) =
                CState(Append(CBefore(o, d, b, c), c), d, FALSE)
<1>1. CState(o, d, b) \in CStates
  BY DEF CStates, CText, CState
<1>3. C!Flushed(CState(o, d, b), c) = CBefore(o, d, b, c)
  <2> DEFINE m == CState(o, d, b)
  <2>1. m.out = o /\ m.depth = d /\ m.space = b
    BY CUpdates
  <2> HIDE DEF m
  <2>2. C!Flushed(m, c) = CBefore(o, d, b, c)
    BY <2>1, Zenon DEF C!Flushed, CBefore
  <2>3. QED
    BY <2>2 DEF m
<1>4. C!Emit(CState(o, d, b), c) =
         CState(Append(C!Flushed(CState(o, d, b), c), c), d, FALSE)
  BY DEF C!Emit, CState
<1>5. QED
  BY <1>1, <1>3, <1>4

\* An item that is read is written like the first time, also after the space
\* that has been written before it.
LEMMA EmitTwice ==
    ASSUME NEW o \in CText, NEW d \in Nat, NEW e \in Nat, NEW b \in BOOLEAN,
           NEW c \in CItems, c # "sp", c # "comment",
           CAfter(o) = CState(o, d, FALSE),
           \A x \in BOOLEAN : C!Step(CState(o, d, x), c) = C!Emit(CState(o, e, x), c)
    PROVE  CAfter(C!Emit(CState(o, e, b), c).out) = C!Emit(CState(o, e, b), c)
<1> DEFINE fl(x) == CBefore(o, e, x, c)
<1>1. \A x \in BOOLEAN : C!Emit(CState(o, e, x), c) = CState(Append(fl(x), c), e, FALSE)
  BY EmitIs
<1>2. fl(FALSE) = o /\ (fl(b) = o \/ (b = TRUE /\ fl(b) = Append(o, "sp")))
  BY CBeforeIs
<1> HIDE DEF fl
<1>3. C!Emit(CState(o, e, b), c).out = Append(fl(b), c)
  <2>1. CState(Append(fl(b), c), e, FALSE).out = Append(fl(b), c)
    BY DEF CState
  <2>2. QED
    BY <1>1, <2>1
<1>4. CASE fl(b) = o
  <2>1. CAfter(Append(o, c)) = C!Step(CState(o, d, FALSE), c)
    BY CTextFacts, CAfterAppend
  <2>2. CAfter(Append(o, c)) = CState(Append(o, c), e, FALSE)
    BY <1>1, <1>2, <2>1
  <2>3. QED
    BY <1>1, <1>3, <1>4, <2>2
<1>5. CASE fl(b) # o
  <2>1. b = TRUE /\ fl(b) = Append(o, "sp")
    BY <1>2, <1>5
  <2>2. o \in Seq(CItems) /\ "sp" \in CItems /\ Append(o, "sp") \in Seq(CItems)
    BY CTextFacts DEF CItems
  <2>3. CAfter(Append(o, "sp")) = C!Step(CState(o, d, FALSE), "sp")
    BY <2>2, CAfterAppend
  <2>4. CAfter(Append(o, "sp")) = CState(o, d, TRUE)
    BY <2>3 DEF C!Step, CState
  <2>5. CAfter(Append(fl(b), c)) = C!Step(CState(o, d, TRUE), c)
    BY <2>1, <2>2, <2>4, CAfterAppend
  <2>6. QED
    BY <1>1, <1>3, <2>1, <2>5
<1>6. QED
  BY <1>4, <1>5

\* What is left when the semicolon at the end is taken back: an item, or one
\* with a space after it that stood before the semicolon.
CBack(o, d) ==
    \/ /\ o # <<>> /\ C!Last(o) \notin {"sp", "semi"}
       /\ CAfter(o) = CState(o, d, FALSE)
    \/ \E q \in CText :
          /\ o = Append(q, "sp")
          /\ q # <<>> /\ C!Last(q) \notin {"sp", "semi", "("}
          /\ d > 0
          /\ CAfter(o) = CState(q, d, TRUE)

\* The pass over o, which it has written, comes to o again.
CAgain(o, d) ==
    /\ CAfter(o) = CState(o, d, FALSE)
    /\ o # <<>> => C!Last(o) # "sp"
    /\ o # <<>> /\ C!Last(o) = "semi" => CBack(C!Front(o), d)

LEMMA CBeforeTyped ==
    ASSUME NEW o \in CText, NEW d, NEW b \in BOOLEAN, NEW c \in CItems, c # "comment"
    PROVE  /\ CBefore(o, d, b, c) \in CText
           /\ Append(CBefore(o, d, b, c), c) # <<>>
           /\ C!Last(Append(CBefore(o, d, b, c), c)) = c
           /\ C!Front(Append(CBefore(o, d, b, c), c)) = CBefore(o, d, b, c)
<1>1. "sp" \in CItems /\ "sp" # "comment"
  BY DEF CItems
<1>2. Append(o, "sp") \in CText
  BY <1>1, CTextFacts
<1>3. CBefore(o, d, b, c) \in {o, Append(o, "sp")}
  BY Zenon DEF CBefore
<1>4. CBefore(o, d, b, c) \in CText
  BY <1>2, <1>3, Zenon
<1>5. QED
  BY <1>4, CTextFacts

LEMMA AgainEmit ==
    ASSUME NEW o \in CText, NEW d \in Nat, NEW e \in Nat, NEW b \in BOOLEAN,
           NEW c \in CItems, c # "sp", c # "comment", c # "semi",
           CAfter(o) = CState(o, d, FALSE),
           \A x \in BOOLEAN : C!Step(CState(o, d, x), c) = C!Emit(CState(o, e, x), c)
    PROVE  \E t \in CText : C!Emit(CState(o, e, b), c) = CState(t, e, FALSE) /\ CAgain(t, e)
<1> DEFINE t == Append(CBefore(o, e, b, c), c)
<1>1. C!Emit(CState(o, e, b), c) = CState(t, e, FALSE)
  BY EmitIs
<1>2. t \in CText /\ t # <<>> /\ C!Last(t) = c
  BY CBeforeTyped, CTextFacts
<1>3. CAfter(C!Emit(CState(o, e, b), c).out) = C!Emit(CState(o, e, b), c)
  BY EmitTwice
<1> HIDE DEF t
<1>4. CAfter(t) = CState(t, e, FALSE)
  <2>1. CState(t, e, FALSE).out = t
    BY DEF CState
  <2>2. QED
    BY <1>1, <1>3, <2>1, Zenon
<1>5. QED
  BY <1>1, <1>2, <1>4 DEF CAgain

LEMMA SemicolonIs ==
    ASSUME NEW o, NEW d, NEW b, o # <<>>, C!Last(o) \notin {"semi", "lbrace"}
    PROVE  C!Step(CState(o, d, b), "semi") = C!Emit(CState(o, d, b), "semi")
<1> DEFINE m == CState(o, d, b)
<1>1. m.out = o
  BY CUpdates
<1> HIDE DEF m
<1>2. C!Step(m, "semi") = C!Semicolon(m)
  BY DEF C!Step
<1>3. C!Semicolon(m) = C!Emit(m, "semi")
  BY <1>1 DEF C!Semicolon
<1>4. QED
  BY <1>2, <1>3 DEF m

LEMMA AgainSemicolon ==
    ASSUME NEW o \in CText, NEW d \in Nat, NEW b \in BOOLEAN, CAgain(o, d),
           o # <<>>, C!Last(o) \notin {"semi", "lbrace"}, "semi" \in CItems
    PROVE  \E t \in CText : C!Emit(CState(o, d, b), "semi") = CState(t, d, FALSE) /\ CAgain(t, d)
<1> DEFINE fl == CBefore(o, d, b, "semi")
           t  == Append(fl, "semi")
<1>1. CAfter(o) = CState(o, d, FALSE) /\ C!Last(o) # "sp"
  BY DEF CAgain
<1>2. C!Emit(CState(o, d, b), "semi") = CState(t, d, FALSE)
  BY EmitIs
<1>3. fl \in CText /\ t \in CText /\ t # <<>> /\ C!Last(t) = "semi" /\ C!Front(t) = fl
  BY CBeforeTyped, CTextFacts
<1>4. CAfter(t) = CState(t, d, FALSE)
  <2>1. \A x \in BOOLEAN : C!Step(CState(o, d, x), "semi") = C!Emit(CState(o, d, x), "semi")
    BY SemicolonIs
  <2>2. CAfter(C!Emit(CState(o, d, b), "semi").out) = C!Emit(CState(o, d, b), "semi")
    BY <1>1, <2>1, EmitTwice
  <2> HIDE DEF t
  <2>3. CState(t, d, FALSE).out = t
    BY DEF CState
  <2>4. QED
    BY <1>2, <2>2, <2>3, Zenon
<1>5. CBack(fl, d)
  <2>1. CASE fl = o
    BY <1>1, <2>1 DEF CBack
  <2>2. CASE fl # o
    <3>1. fl = Append(o, "sp")
      BY <2>2, Zenon DEF CBefore
    <3>2. C!Separates(C!Last(o), "semi", d)
      BY <2>2 DEF CBefore
    <3>3. d > 0 /\ C!Last(o) # "("
      BY <3>2 DEF C!Separates
    <3>4. o \in Seq(CItems) /\ "sp" \in CItems
      BY CTextFacts DEF CItems
    <3>5. CAfter(Append(o, "sp")) = C!Step(CState(o, d, FALSE), "sp")
      BY <1>1, <3>4, CAfterAppend
    <3>6. C!Step(CState(o, d, FALSE), "sp") = CState(o, d, TRUE)
      BY DEF C!Step, CState
    <3> HIDE DEF fl
    <3>7. QED
      BY <1>1, <3>1, <3>3, <3>5, <3>6 DEF CBack
  <2>3. QED
    BY <2>1, <2>2
<1> HIDE DEF fl, t
<1>6. QED
  BY <1>2, <1>3, <1>4, <1>5 DEF CAgain

\* What each item that is written does, whatever space is pending.
LEMMA OpenIs ==
    ASSUME NEW o, NEW d, NEW b
    PROVE  C!Step(CState(o, d, b), "(") = C!Emit(CState(o, d + 1, b), "(")
<1> DEFINE m == CState(o, d, b)
<1>1. m.depth = d /\ \A x : [m EXCEPT !.depth = x] = CState(o, x, b)
  BY CUpdates
<1> HIDE DEF m
<1>2. C!Step(m, "(") = C!Emit([m EXCEPT !.depth = m.depth + 1], "(")
  BY DEF C!Step
<1>3. C!Step(m, "(") = C!Emit(CState(o, d + 1, b), "(")
  BY <1>1, <1>2, Zenon
<1>4. QED
  BY <1>3 DEF m

Closed(d) == IF d > 0 THEN d - 1 ELSE 0

LEMMA CloseIs ==
    ASSUME NEW o, NEW d, NEW b
    PROVE  C!Step(CState(o, d, b), ")") = C!Emit(CState(o, Closed(d), b), ")")
<1> DEFINE m == CState(o, d, b)
<1>1. m.depth = d /\ \A x : [m EXCEPT !.depth = x] = CState(o, x, b)
  BY CUpdates
<1> HIDE DEF m
<1>2. C!Step(m, ")") = C!Emit([m EXCEPT !.depth = Closed(m.depth)], ")")
  BY DEF C!Step, Closed
<1>3. C!Step(m, ")") = C!Emit(CState(o, Closed(d), b), ")")
  BY <1>1, <1>2, Zenon
<1>4. QED
  BY <1>3 DEF m

LEMMA BraceIs ==
    ASSUME NEW o, NEW d, NEW b
    PROVE  C!Step(CState(o, d, b), "rbrace") =
             C!Emit(CState(IF o # <<>> /\ C!Last(o) = "semi" THEN C!Front(o) ELSE o, d, b),
                    "rbrace")
<1> DEFINE m == CState(o, d, b)
           back == IF o # <<>> /\ C!Last(o) = "semi" THEN C!Front(o) ELSE o
<1>1. m.out = o /\ \A x : [m EXCEPT !.out = x] = CState(x, d, b)
  BY CUpdates
<1> HIDE DEF m
<1>2. C!Step(m, "rbrace") =
        C!Emit([m EXCEPT !.out = IF m.out # <<>> /\ C!Last(m.out) = "semi"
                                 THEN C!Front(m.out) ELSE m.out], "rbrace")
  BY DEF C!Step, C!CloseBrace
<1>3. C!Step(m, "rbrace") = C!Emit([m EXCEPT !.out = back], "rbrace")
  BY <1>1, <1>2, Zenon
<1> HIDE DEF back
<1>4. C!Step(m, "rbrace") = C!Emit(CState(back, d, b), "rbrace")
  BY <1>1, <1>3, Zenon
<1>5. QED
  BY <1>4 DEF m, back

LEMMA OtherIs ==
    ASSUME NEW m, NEW c, c \notin {"sp", "comment", "(", ")", "semi", "rbrace"}
    PROVE  C!Step(m, c) = C!Emit(m, c)
BY DEF C!Step

\* The closing brace that takes back a semicolon.
LEMMA AgainClose ==
    ASSUME NEW o \in CText, NEW d \in Nat, NEW b \in BOOLEAN, CBack(o, d),
           "rbrace" \in CItems
    PROVE  \E t \in CText : C!Emit(CState(o, d, b), "rbrace") = CState(t, d, FALSE) /\ CAgain(t, d)
<1>1. CASE o # <<>> /\ C!Last(o) \notin {"sp", "semi"} /\ CAfter(o) = CState(o, d, FALSE)
  <2>1. \A x \in BOOLEAN : C!Step(CState(o, d, x), "rbrace") = C!Emit(CState(o, d, x), "rbrace")
    BY <1>1, BraceIs
  <2>2. QED
    BY <1>1, <2>1, AgainEmit
<1>2. CASE \E q \in CText :
          /\ o = Append(q, "sp")
          /\ q # <<>> /\ C!Last(q) \notin {"sp", "semi", "("}
          /\ d > 0
          /\ CAfter(o) = CState(q, d, TRUE)
  <2> DEFINE t == Append(o, "rbrace")
  <2>1. PICK q \in CText : /\ o = Append(q, "sp")
                           /\ q # <<>> /\ C!Last(q) \notin {"sp", "semi", "("}
                           /\ d > 0
                           /\ CAfter(o) = CState(q, d, TRUE)
    BY <1>2
  <2>2. "sp" \in CItems /\ C!Last(o) = "sp" /\ o \in Seq(CItems)
    BY <2>1, CTextFacts DEF CItems
  <2>3. CBefore(o, d, b, "rbrace") = o
    BY <2>2, Zenon DEF CBefore
  <2>4. C!Emit(CState(o, d, b), "rbrace") = CState(t, d, FALSE)
    <3>1. C!Emit(CState(o, d, b), "rbrace") =
            CState(Append(CBefore(o, d, b, "rbrace"), "rbrace"), d, FALSE)
      BY EmitIs, Zenon
    <3>2. QED
      BY <2>3, <3>1, Zenon
  <2>5. CAfter(t) = C!Step(CState(q, d, TRUE), "rbrace")
    BY <2>1, <2>2, CAfterAppend
  <2>6. C!Step(CState(q, d, TRUE), "rbrace") = C!Emit(CState(q, d, TRUE), "rbrace")
    BY <2>1, BraceIs
  <2>7. CBefore(q, d, TRUE, "rbrace") = o
    <3>1. C!Separates(C!Last(q), "rbrace", d)
      BY <2>1 DEF C!Separates
    <3>2. QED
      BY <2>1, <3>1, Zenon DEF CBefore
  <2>8. C!Emit(CState(q, d, TRUE), "rbrace") = CState(t, d, FALSE)
    <3>1. \A x \in BOOLEAN :
            C!Emit(CState(q, d, x), "rbrace") =
              CState(Append(CBefore(q, d, x, "rbrace"), "rbrace"), d, FALSE)
      BY EmitIs, Zenon
    <3>2. QED
      BY <2>7, <3>1, Zenon
  <2>9. t \in CText /\ t # <<>> /\ C!Last(t) = "rbrace"
    BY CTextFacts
  <2> HIDE DEF t
  <2>10. CAgain(t, d)
    BY <2>5, <2>6, <2>8, <2>9, Zenon DEF CAgain
  <2>11. QED
    BY <2>4, <2>9, <2>10
<1>3. QED
  BY <1>1, <1>2 DEF CBack

\* The pass keeps what it has written such that it would come to it again.
LEMMA StepAgain ==
    ASSUME NEW o \in CText, NEW d \in Nat, NEW b \in BOOLEAN, NEW c \in CItems,
           CAgain(o, d)
    PROVE  \E t \in CText, e \in Nat, x \in BOOLEAN :
              C!Step(CState(o, d, b), c) = CState(t, e, x) /\ CAgain(t, e)
<1>1. CAfter(o) = CState(o, d, FALSE)
  BY DEF CAgain
<1>2. CASE c \in {"sp", "comment"}
  <2>1. C!Step(CState(o, d, b), c) = CState(o, d, TRUE)
    BY <1>2 DEF C!Step, CState
  <2>2. QED
    BY <2>1
<1>3. CASE c = "("
  <2>1. \A x \in BOOLEAN : C!Step(CState(o, d, x), c) = C!Emit(CState(o, d + 1, x), c)
    BY <1>3, OpenIs
  <2>2. d + 1 \in Nat
    OBVIOUS
  <2>3. PICK t \in CText : C!Emit(CState(o, d + 1, b), c) = CState(t, d + 1, FALSE)
                           /\ CAgain(t, d + 1)
    BY <1>1, <1>3, <2>1, <2>2, AgainEmit
  <2>4. QED
    BY <2>1, <2>2, <2>3
<1>4. CASE c = ")"
  <2> DEFINE e == Closed(d)
  <2>1. \A x \in BOOLEAN : C!Step(CState(o, d, x), c) = C!Emit(CState(o, e, x), c)
    BY <1>4, CloseIs
  <2>2. e \in Nat
    BY DEF Closed
  <2> HIDE DEF e
  <2>3. PICK t \in CText : C!Emit(CState(o, e, b), c) = CState(t, e, FALSE) /\ CAgain(t, e)
    BY <1>1, <1>4, <2>1, <2>2, AgainEmit
  <2>4. QED
    BY <2>1, <2>2, <2>3
<1>5. CASE c = "semi"
  <2>1. CASE o = <<>> \/ C!Last(o) \in {"semi", "lbrace"}
    <3>1. C!Step(CState(o, d, b), c) \in {CState(o, d, b), CState(o, d, FALSE)}
      <4> DEFINE m == CState(o, d, b)
      <4>1. m.out = o /\ \A x : [m EXCEPT !.space = x] = CState(o, d, x)
        BY CUpdates
      <4> HIDE DEF m
      <4>2. C!Step(m, c) = C!Semicolon(m)
        BY <1>5 DEF C!Step
      <4>3. C!Semicolon(m) \in {m, [m EXCEPT !.space = FALSE]}
        BY <2>1, <4>1, Zenon DEF C!Semicolon
      <4>4. [m EXCEPT !.space = FALSE] = CState(o, d, FALSE)
        BY <4>1, Zenon
      <4>5. QED
        BY <4>2, <4>3, <4>4 DEF m
    <3>2. QED
      BY <3>1
  <2>2. CASE o # <<>> /\ C!Last(o) \notin {"semi", "lbrace"}
    <3>1. C!Step(CState(o, d, b), c) = C!Emit(CState(o, d, b), "semi")
      BY <1>5, <2>2, SemicolonIs
    <3>2. PICK t \in CText :
            C!Emit(CState(o, d, b), "semi") = CState(t, d, FALSE) /\ CAgain(t, d)
      BY <1>5, <2>2, AgainSemicolon
    <3>3. QED
      BY <3>1, <3>2
  <2>3. QED
    BY <2>1, <2>2
<1>6. CASE c = "rbrace"
  <2>1. CASE o = <<>> \/ C!Last(o) # "semi"
    <3>1. \A x \in BOOLEAN : C!Step(CState(o, d, x), c) = C!Emit(CState(o, d, x), c)
      BY <1>6, <2>1, BraceIs
    <3>2. PICK t \in CText : C!Emit(CState(o, d, b), c) = CState(t, d, FALSE) /\ CAgain(t, d)
      BY <1>1, <1>6, <3>1, AgainEmit
    <3>3. QED
      BY <3>1, <3>2
  <2>2. CASE o # <<>> /\ C!Last(o) = "semi"
    <3>1. C!Step(CState(o, d, b), c) = C!Emit(CState(C!Front(o), d, b), c)
      BY <1>6, <2>2, BraceIs
    <3>2. C!Front(o) \in CText
      BY <2>2 DEF CText, C!Front
    <3>3. CBack(C!Front(o), d)
      BY <2>2 DEF CAgain
    <3>4. PICK t \in CText :
            C!Emit(CState(C!Front(o), d, b), c) = CState(t, d, FALSE) /\ CAgain(t, d)
      BY <1>6, <3>2, <3>3, AgainClose
    <3>5. QED
      BY <3>1, <3>4
  <2>3. QED
    BY <2>1, <2>2
<1>7. CASE c \notin {"sp", "comment", "(", ")", "semi", "rbrace"}
  <2>1. \A x \in BOOLEAN : C!Step(CState(o, d, x), c) = C!Emit(CState(o, d, x), c)
    BY <1>7, OtherIs
  <2>2. PICK t \in CText : C!Emit(CState(o, d, b), c) = CState(t, d, FALSE) /\ CAgain(t, d)
    BY <1>1, <1>7, <2>1, AgainEmit
  <2>3. QED
    BY <2>1, <2>2
<1>8. QED
  BY <1>2, <1>3, <1>4, <1>5, <1>6, <1>7

\* What has been read and where the pass is after it.
CInv ==
    /\ input \in Seq(CItems)
    /\ state \in CStates
    /\ state = CAfter(input)
    /\ CAgain(state.out, state.depth)

LEMMA CInvInit == C!Init => CInv
<1>1. C!Start \in CStates /\ C!Start.out = <<>> /\ C!Start.depth = 0
      /\ C!Start = CState(<<>>, 0, FALSE) /\ <<>> \in Seq(CItems)
  BY DEF C!Start, CStates, CState
<1>2. CAfter(<<>>) = C!Start
  BY CAfterAppend, Zenon
<1>3. CAgain(<<>>, 0)
  BY <1>1, <1>2, Zenon DEF CAgain
<1>4. QED
  BY <1>1, <1>2, <1>3, Zenon DEF C!Init, CInv

LEMMA CInvNext == CInv /\ C!Next => CInv'
<1> SUFFICES ASSUME CInv, NEW c \in Items, C!Read(c) PROVE CInv'
  BY DEF C!Next
<1>1. c \in CItems
  BY DEF CItems
<1>2. input' \in Seq(CItems)
  BY <1>1 DEF CInv, C!Read
<1>3. state' = C!Step(state, c)
  BY DEF C!Read
<1>4. state' \in CStates
  BY <1>1, <1>3, CStepTyped DEF CInv
<1>5. state' = CAfter(input')
  <2>1. CAfter(Append(input, c)) = C!Step(CAfter(input), c)
    BY <1>1, CAfterAppend DEF CInv
  <2>2. QED
    BY <1>3, <2>1, Zenon DEF CInv, C!Read
<1>6. CAgain(state'.out, state'.depth)
  <2>1. /\ state.out \in CText /\ state.depth \in Nat /\ state.space \in BOOLEAN
        /\ state = CState(state.out, state.depth, state.space)
    BY CStateFacts DEF CInv
  <2>2. CAgain(state.out, state.depth)
    BY DEF CInv
  <2>3. PICK t \in CText, e \in Nat, x \in BOOLEAN :
          C!Step(CState(state.out, state.depth, state.space), c) = CState(t, e, x)
          /\ CAgain(t, e)
    BY <1>1, <2>1, <2>2, StepAgain
  <2>4. state' = CState(t, e, x)
    BY <1>3, <2>1, <2>3, Zenon
  <2>5. state'.out = t /\ state'.depth = e
    BY <2>4 DEF CState
  <2>6. QED
    BY <2>3, <2>5
<1>7. QED
  BY <1>2, <1>4, <1>5, <1>6, Zenon DEF CInv

\* CSS of a stylesheet that CSS has written changes nothing.
LEMMA CInvAgain == CInv => C!CSS(C!CSS(input)) = C!CSS(input)
<1> SUFFICES ASSUME CInv PROVE C!CSS(C!CSS(input)) = C!CSS(input)
  OBVIOUS
<1>1. C!CSS(input) = state.out
  BY DEF CInv, CAfter, C!CSS
<1>2. CAfter(state.out) = CState(state.out, state.depth, FALSE)
  BY DEF CInv, CAgain
<1>3. CState(state.out, state.depth, FALSE).out = state.out
  BY DEF CState
<1>4. C!CSS(state.out) = CAfter(state.out).out
  BY DEF CAfter, C!CSS
<1>5. QED
  BY <1>1, <1>2, <1>3, <1>4, Zenon

-----------------------------------------------------------------------------
(* The pass over a document.                                               *)

HAts == {"text", "comment", "tag", "quoted", "raw", "close"}
HText == Seq(H!DocItems)
HStates == [out : HText, at : HAts, space : BOOLEAN, tag : HText, held : HText]
HWeight(m) == Len(m.out) + Len(m.held) + (IF m.space THEN 1 ELSE 0)
HSteps(s) == [i \in 1..Len(s) |-> [m \in HStates |-> H!Step(m, s[i])]]
HAfter(s) == H!Passes(s)[Len(s)]

LEMMA FrontFacts ==
    ASSUME NEW A, NEW s \in Seq(A), s # <<>>
    PROVE  /\ H!Front(s) \in Seq(A) /\ Len(H!Front(s)) = Len(s) - 1
           /\ H!Last(s) \in A /\ Append(H!Front(s), H!Last(s)) = s
<1> DEFINE n == Len(s) - 1
<1>1. n \in Nat /\ n + 1 = Len(s)
  OBVIOUS
<1>2. H!Front(s) = SubSeq(s, 1, n)
  BY DEF H!Front
<1> HIDE DEF n
<1>3. /\ SubSeq(s, 1, n) \in Seq(A) /\ Len(SubSeq(s, 1, n)) = n
      /\ \A i \in 1..n : SubSeq(s, 1, n)[i] = s[i]
  BY <1>1
<1>4. H!Last(s) = s[n + 1] /\ s[n + 1] \in A
  BY <1>1 DEF H!Last
<1> DEFINE f == SubSeq(s, 1, n)
           t == Append(f, s[n + 1])
<1>5. t = s
  <2> HIDE DEF f
  <2>1. t \in Seq(A) /\ Len(t) = n + 1
    BY <1>3, <1>4 DEF f
  <2>2. ASSUME NEW i \in 1..(n + 1) PROVE t[i] = s[i]
    BY <1>1, <1>3, <2>2 DEF f
  <2> HIDE DEF t
  <2>3. QED
    BY <1>1, <2>1, <2>2
<1>6. QED
  BY <1>1, <1>2, <1>3, <1>4, <1>5 DEF n

LEMMA HTextFacts ==
    ASSUME NEW s \in HText
    PROVE  /\ Len(s) \in Nat
           /\ \A c \in H!DocItems : Append(s, c) \in HText /\ Len(Append(s, c)) = Len(s) + 1
           /\ \A t \in HText : s \o t \in HText /\ Len(s \o t) = Len(s) + Len(t)
           /\ s # <<>> => H!Front(s) \in HText /\ Len(H!Front(s)) = Len(s) - 1
                          /\ H!Last(s) \in H!DocItems
BY FrontFacts DEF HText

LEMMA AtLeastTwo ==
    \A n \in Nat : /\ n >= 2 => n # 1
                  /\ n # 0 /\ n # 1 => n >= 2
OBVIOUS

LEMMA HItems ==
    /\ "sp" \in H!DocItems /\ <<>> \in HText /\ Len(<<>>) = 0
    /\ \A c \in H!DocItems : <<c>> \in HText /\ Len(<<c>>) = 1
BY DEF HText, H!DocItems

LEMMA HStateFacts ==
    ASSUME NEW m \in HStates
    PROVE  /\ m.out \in HText /\ m.at \in HAts /\ m.space \in BOOLEAN
           /\ m.tag \in HText /\ m.held \in HText
BY DEF HStates

LEMMA HWeightIs ==
    ASSUME NEW m \in HStates
    PROVE  /\ HWeight(m) \in Nat
           /\ m.space => HWeight(m) = Len(m.out) + Len(m.held) + 1
           /\ ~ m.space => HWeight(m) = Len(m.out) + Len(m.held)
<1> DEFINE a == Len(m.out)
           b == Len(m.held)
<1>1. a \in Nat /\ b \in Nat
  BY HStateFacts, HTextFacts
<1>2. HWeight(m) = a + b + (IF m.space THEN 1 ELSE 0)
  BY DEF HWeight
<1> HIDE DEF a, b
<1>3. (m.space => HWeight(m) = a + b + 1) /\ (~ m.space => HWeight(m) = a + b)
  BY <1>1, <1>2
<1>4. HWeight(m) \in Nat
  BY <1>1, <1>3
<1>5. QED
  BY <1>3, <1>4 DEF a, b

\* What writeSpace leaves, and never more than it was given.
LEMMA HSpacedTyped ==
    ASSUME NEW m \in HStates
    PROVE  /\ H!Spaced(m) \in HStates
           /\ H!Spaced(m).held = m.held /\ H!Spaced(m).at = m.at
           /\ ~ H!Spaced(m).space
           /\ Len(H!Spaced(m).out) + Len(m.held) <= HWeight(m)
           /\ H!Spaced(m).out = IF m.space /\ (m.out = <<>> \/ H!Last(m.out) # "sp")
                                THEN Append(m.out, "sp") ELSE m.out
<1>0. Append(m.out, "sp") \in HText
  BY HTextFacts, HItems DEF HStates
<1>1. H!Spaced(m) \in HStates
  BY <1>0 DEF HStates, H!Spaced
<1>2. H!Spaced(m).held = m.held /\ H!Spaced(m).at = m.at
  BY DEF HStates, H!Spaced
<1>3. ~ H!Spaced(m).space
  BY DEF HStates, H!Spaced
<1>4. H!Spaced(m).out = IF m.space /\ (m.out = <<>> \/ H!Last(m.out) # "sp")
                        THEN Append(m.out, "sp") ELSE m.out
  BY DEF HStates, H!Spaced
<1>5. Len(H!Spaced(m).out) + Len(m.held) <= HWeight(m)
  <2>1. m.out \in HText /\ m.held \in HText /\ Len(Append(m.out, "sp")) = Len(m.out) + 1
    BY HStateFacts, HTextFacts, HItems
  <2>2. H!Spaced(m).out = m.out \/ (m.space /\ H!Spaced(m).out = Append(m.out, "sp"))
    BY <1>4
  <2> DEFINE a == Len(m.out)
             b == Len(m.held)
             n == Len(H!Spaced(m).out)
  <2>3. a \in Nat /\ b \in Nat
    BY <2>1, HTextFacts
  <2>4. n = a \/ (m.space /\ n = a + 1)
    BY <2>1, <2>2
  <2>5. (m.space => HWeight(m) = a + b + 1) /\ (~ m.space => HWeight(m) = a + b)
    BY HWeightIs
  <2> HIDE DEF a, b, n
  <2>6. n + b <= HWeight(m)
    BY <2>3, <2>4, <2>5
  <2>7. QED
    BY <2>6 DEF a, b, n
<1>6. QED
  BY <1>1, <1>2, <1>3, <1>4, <1>5

\* Where the pass is and what it has written and holds.
HIs(m, o, a, b, h) ==
    m \in HStates /\ m.out = o /\ m.at = a /\ (m.space <=> b) /\ m.held = h

LEMMA StepText ==
    ASSUME NEW m \in HStates, m.at = "text", NEW c \in H!DocItems
    PROVE  /\ c = "sp" => HIs(H!Step(m, c), m.out, "text", TRUE, m.held)
           /\ c = "<!--" => HIs(H!Step(m, c), H!Spaced(m).out, "comment", FALSE, <<c>>)
           /\ c \in H!Tags =>
                /\ HIs(H!Step(m, c), Append(H!Spaced(m).out, c), "tag", FALSE, m.held)
                /\ H!Step(m, c).tag = <<c>>
           /\ c \notin {"sp", "<!--"} \cup H!Tags =>
                HIs(H!Step(m, c), Append(H!Spaced(m).out, c), "text", FALSE, m.held)
<1> DEFINE w == H!Spaced(m)
<1>1. /\ w \in HStates /\ w.held = m.held /\ w.at = "text" /\ ~ w.space
      /\ Append(w.out, c) \in HText /\ <<c>> \in HText
  BY HSpacedTyped, HTextFacts, HItems, HStateFacts
<1>2. H!Step(m, c) = H!Text(m, c)
  BY DEF H!Step
<1>3. /\ c = "sp" => H!Text(m, c) = [m EXCEPT !.space = TRUE]
      /\ c = "<!--" => H!Text(m, c) = [w EXCEPT !.at = "comment", !.held = <<c>>]
      /\ c \in H!Tags => H!Text(m, c) = [w EXCEPT !.at = "tag", !.tag = <<c>>,
                                                  !.out = Append(w.out, c)]
      /\ c \notin {"sp", "<!--"} \cup H!Tags =>
           H!Text(m, c) = [w EXCEPT !.out = Append(w.out, c)]
  BY DEF H!Text, H!Tags
<1> HIDE DEF w
<1>4. CASE c = "sp"
  <2>1. H!Step(m, c) = [m EXCEPT !.space = TRUE]
    BY <1>2, <1>3, <1>4
  <2>2. HIs(H!Step(m, c), m.out, "text", TRUE, m.held)
    BY <2>1 DEF HIs, HStates
  <2>3. QED
    BY <1>4, <2>2 DEF H!Tags
<1>5. CASE c = "<!--"
  <2>1. H!Step(m, c) = [w EXCEPT !.at = "comment", !.held = <<c>>]
    BY <1>2, <1>3, <1>5
  <2>2. HIs(H!Step(m, c), w.out, "comment", FALSE, <<c>>)
    BY <1>1, <2>1 DEF HIs, HStates, HAts
  <2>3. QED
    BY <1>5, <2>2 DEF H!Tags, w
<1>6. CASE c \in H!Tags
  <2>1. H!Step(m, c) = [w EXCEPT !.at = "tag", !.tag = <<c>>, !.out = Append(w.out, c)]
    BY <1>2, <1>3, <1>6
  <2>2. HIs(H!Step(m, c), Append(w.out, c), "tag", FALSE, m.held)
    BY <1>1, <2>1 DEF HIs, HStates, HAts
  <2>3. H!Step(m, c).tag = <<c>>
    BY <1>1, <2>1 DEF HStates
  <2>4. QED
    BY <1>6, <2>2, <2>3 DEF H!Tags, w
<1>7. CASE c \notin {"sp", "<!--"} \cup H!Tags
  <2>1. H!Step(m, c) = [w EXCEPT !.out = Append(w.out, c)]
    BY <1>2, <1>3, <1>7
  <2>2. HIs(H!Step(m, c), Append(w.out, c), "text", FALSE, m.held)
    BY <1>1, <2>1 DEF HIs, HStates, HAts
  <2>3. QED
    BY <1>7, <2>2 DEF H!Tags, w
<1>8. QED
  BY <1>4, <1>5, <1>6, <1>7

LEMMA StepComment ==
    ASSUME NEW m \in HStates, m.at = "comment", NEW c \in H!DocItems
    PROVE  LET held == Append(m.held, c)
           IN  /\ H!CommentOver(m, c) =>
                    HIs(H!Step(m, c), IF H!Contains(held, "[if") THEN m.out \o held ELSE m.out,
                        "text", m.space, <<>>)
               /\ ~ H!CommentOver(m, c) => HIs(H!Step(m, c), m.out, "comment", m.space, held)
<1> DEFINE held == Append(m.held, c)
           o == IF H!Contains(held, "[if") THEN m.out \o held ELSE m.out
<1>1. held \in HText /\ o \in HText /\ <<>> \in HText
  BY HTextFacts, HItems, HStateFacts
<1>2. H!Step(m, c) = H!Comment(m, c)
  BY DEF H!Step
<1>3. H!Comment(m, c) =
        IF H!CommentOver(m, c) THEN [m EXCEPT !.at = "text", !.held = <<>>, !.out = o]
        ELSE [m EXCEPT !.held = held]
  BY DEF H!Comment
<1> HIDE DEF held, o
<1>4. H!CommentOver(m, c) => HIs(H!Step(m, c), o, "text", m.space, <<>>)
  <2> SUFFICES ASSUME H!CommentOver(m, c) PROVE HIs(H!Step(m, c), o, "text", m.space, <<>>)
    OBVIOUS
  <2>1. H!Step(m, c) = [m EXCEPT !.at = "text", !.held = <<>>, !.out = o]
    BY <1>2, <1>3
  <2>2. QED
    BY <1>1, <2>1 DEF HIs, HStates, HAts
<1>5. ~ H!CommentOver(m, c) => HIs(H!Step(m, c), m.out, "comment", m.space, held)
  BY <1>1, <1>2, <1>3 DEF HIs, HStates, HAts
<1>6. QED
  BY <1>4, <1>5 DEF held, o

LEMMA StepTag ==
    ASSUME NEW m \in HStates, m.at = "tag", NEW c \in H!DocItems
    PROVE  LET tag == Append(m.tag, c)
               o   == IF m.space /\ c \notin {"'", ">"} THEN Append(m.out, "sp") ELSE m.out
           IN  /\ H!Step(m, c).tag = tag
               /\ c = "sp" => HIs(H!Step(m, c), m.out, "tag", TRUE, m.held)
               /\ c \in H!Ends =>
                    HIs(H!Step(m, c), Append(o, c), IF H!OpensRaw(tag) THEN "raw" ELSE "text",
                        FALSE, m.held)
               /\ c \notin H!Ends /\ c # "sp" =>
                    HIs(H!Step(m, c), Append(o, c), IF c = "'" THEN "quoted" ELSE "tag",
                        FALSE, m.held)
<1> DEFINE tag == Append(m.tag, c)
           o   == IF m.space /\ c \notin {"'", ">"} THEN Append(m.out, "sp") ELSE m.out
<1>1. tag \in HText /\ o \in HText /\ Append(o, c) \in HText
  <2>1. tag \in HText /\ o \in HText
    BY HTextFacts, HItems, HStateFacts
  <2> HIDE DEF o
  <2>2. QED
    BY <2>1, HTextFacts
<1>2. H!Step(m, c) = H!Tag(m, c)
  BY DEF H!Step
<1>3. H!Tag(m, c) =
        CASE c = "sp" -> [m EXCEPT !.space = TRUE, !.tag = tag]
          [] c \in H!Ends -> [m EXCEPT !.space = FALSE, !.tag = tag, !.out = Append(o, c),
                                     !.at = IF H!OpensRaw(tag) THEN "raw" ELSE "text"]
          [] OTHER -> [m EXCEPT !.space = FALSE, !.tag = tag, !.out = Append(o, c),
                                !.at = IF c = "'" THEN "quoted" ELSE "tag"]
  BY Zenon DEF H!Tag
<1>3a. "sp" \notin H!Ends
  BY DEF H!Ends
<1> HIDE DEF tag, o
<1>4. CASE c = "sp"
  <2>1. H!Step(m, c) = [m EXCEPT !.space = TRUE, !.tag = tag]
    BY <1>2, <1>3, <1>4, <1>3a, Zenon
  <2>2. HIs(H!Step(m, c), m.out, "tag", TRUE, m.held) /\ H!Step(m, c).tag = tag
    BY <1>1, <2>1 DEF HIs, HStates, HAts
  <2>3. QED
    BY <1>4, <2>2 DEF H!Ends, tag
<1>5. CASE c \in H!Ends
  <2>1. H!Step(m, c) = [m EXCEPT !.space = FALSE, !.tag = tag, !.out = Append(o, c),
                                 !.at = IF H!OpensRaw(tag) THEN "raw" ELSE "text"]
    BY <1>2, <1>3, <1>5, <1>3a, Zenon
  <2>2. HIs(H!Step(m, c), Append(o, c), IF H!OpensRaw(tag) THEN "raw" ELSE "text", FALSE, m.held)
        /\ H!Step(m, c).tag = tag
    BY <1>1, <2>1 DEF HIs, HStates, HAts
  <2>3. QED
    BY <1>5, <2>2 DEF H!Ends, tag, o
<1>6. CASE c \notin H!Ends /\ c # "sp"
  <2>1. H!Step(m, c) = [m EXCEPT !.space = FALSE, !.tag = tag, !.out = Append(o, c),
                                 !.at = IF c = "'" THEN "quoted" ELSE "tag"]
    BY <1>2, <1>3, <1>6, Zenon
  <2>2. HIs(H!Step(m, c), Append(o, c), IF c = "'" THEN "quoted" ELSE "tag", FALSE, m.held)
        /\ H!Step(m, c).tag = tag
    BY <1>1, <2>1 DEF HIs, HStates, HAts
  <2>3. QED
    BY <1>6, <2>2 DEF H!Ends, tag, o
<1>7. QED
  BY <1>4, <1>5, <1>6

LEMMA StepQuoted ==
    ASSUME NEW m \in HStates, m.at = "quoted", NEW c \in H!DocItems
    PROVE  /\ HIs(H!Step(m, c), Append(m.out, c), IF c = "'" THEN "tag" ELSE "quoted",
                  m.space, m.held)
           /\ H!Step(m, c).tag = Append(m.tag, c)
<1>1. Append(m.out, c) \in HText /\ Append(m.tag, c) \in HText
  BY HTextFacts, HStateFacts
<1>2. H!Step(m, c) = [m EXCEPT !.out = Append(m.out, c), !.tag = Append(m.tag, c),
                               !.at = IF c = "'" THEN "tag" ELSE "quoted"]
  BY DEF H!Step, H!Quoted
<1>3. QED
  BY <1>1, <1>2 DEF HIs, HStates, HAts

\* A closing tag ends the contents, which are then written.
LEMMA StepRaw ==
    ASSUME NEW m \in HStates, m.at = "raw", NEW c \in H!DocItems, H!IsMinifier(HText)
    PROVE  LET contents == H!Contents(m, H!Front(m.held))
               over == H!Closer(m) /\ c \in H!Delim
           IN  /\ H!Step(m, c).tag = m.tag
               /\ over => /\ HIs(H!Step(m, c), m.out \o contents \o <<H!Last(m.held), c>>,
                                 IF c = ">" THEN "text" ELSE "close", m.space, <<>>)
                          /\ m.held # <<>> /\ contents \in HText
                          /\ m.tag[1] # "<script" => Len(contents) <= Len(m.held) - 1
               /\ ~ over => HIs(H!Step(m, c), m.out, "raw", m.space, Append(m.held, c))
<1> DEFINE contents == H!Contents(m, H!Front(m.held))
           over == H!Closer(m) /\ c \in H!Delim
           o == m.out \o contents \o <<H!Last(m.held), c>>
<1>1. H!Step(m, c) = IF over THEN [m EXCEPT !.out = o, !.held = <<>>,
                                            !.at = IF c = ">" THEN "text" ELSE "close"]
                     ELSE [m EXCEPT !.held = Append(m.held, c)]
  BY DEF H!Step, H!Raw
<1>2. CASE ~ over
  <2>1. Append(m.held, c) \in HText
    BY HTextFacts, HStateFacts
  <2> HIDE DEF over, o
  <2>2. HIs(H!Step(m, c), m.out, "raw", m.space, Append(m.held, c))
        /\ H!Step(m, c).tag = m.tag
    BY <1>1, <1>2, <2>1 DEF HIs, HStates, HAts
  <2>3. QED
    BY <1>2, <2>2 DEF over
<1>3. CASE over
  <2>1. m.held # <<>> /\ m.held \in HText /\ m.out \in HText
    BY <1>3, HStateFacts DEF H!Closer
  <2>2. /\ H!Front(m.held) \in HText /\ Len(H!Front(m.held)) = Len(m.held) - 1
        /\ H!Last(m.held) \in H!DocItems
    BY <2>1, HTextFacts
  <2>3. contents \in HText /\ (m.tag[1] # "<script" => Len(contents) <= Len(m.held) - 1)
    <3>1. /\ contents \in {H!Front(m.held), Minify(H!Front(m.held))}
          /\ m.tag[1] # "<script" => contents = H!Front(m.held)
      BY DEF H!Contents, H!Minifiable
    <3>2. Minify(H!Front(m.held)) \in HText
      BY <2>2 DEF H!IsMinifier, HText
    <3>3. Len(m.held) \in Nat
      BY <2>1, HTextFacts
    <3>4. QED
      BY <2>2, <3>1, <3>2, <3>3
  <2> HIDE DEF contents
  <2>4. o \in HText
    <3>1. <<H!Last(m.held), c>> \in HText
      BY <2>2 DEF HText
    <3>2. m.out \o contents \in HText
      BY <2>1, <2>3, HTextFacts
    <3>3. QED
      BY <3>1, <3>2, HTextFacts
  <2> HIDE DEF o, over
  <2>5. HIs(H!Step(m, c), o, IF c = ">" THEN "text" ELSE "close", m.space, <<>>)
        /\ H!Step(m, c).tag = m.tag
    BY <1>1, <1>3, <2>4, HItems DEF HIs, HStates, HAts
  <2>6. QED
    BY <1>3, <2>1, <2>3, <2>5 DEF o, contents, over
<1>4. QED
  BY <1>2, <1>3

LEMMA StepClose ==
    ASSUME NEW m \in HStates, m.at = "close", NEW c \in H!DocItems
    PROVE  HIs(H!Step(m, c), Append(m.out, c), IF c \in H!Ends THEN "text" ELSE "close",
               m.space, m.held)
<1>1. Append(m.out, c) \in HText
  BY HTextFacts, HStateFacts
<1>2. H!Step(m, c) = [m EXCEPT !.out = Append(m.out, c),
                               !.at = IF c \in H!Ends THEN "text" ELSE "close"]
  BY DEF H!Step, H!Close
<1>3. QED
  BY <1>1, <1>2 DEF HIs, HStates, HAts

LEMMA HIsWeight ==
    ASSUME NEW x, NEW o, NEW a, NEW b, NEW h, HIs(x, o, a, b, h)
    PROVE  /\ x \in HStates /\ Len(o) \in Nat /\ Len(h) \in Nat /\ o \in HText /\ h \in HText
           /\ HWeight(x) \in Nat /\ HWeight(x) <= Len(o) + Len(h) + 1
           /\ (x.space <=> b) /\ (~ x.space => HWeight(x) = Len(o) + Len(h))
<1> DEFINE n == Len(o)
           k == Len(h)
<1>1. n \in Nat /\ k \in Nat /\ o \in HText /\ h \in HText
  BY HStateFacts, HTextFacts DEF HIs
<1>2. x \in HStates /\ x.out = o /\ x.held = h /\ (x.space <=> b)
  BY DEF HIs
<1>3. (x.space => HWeight(x) = n + k + 1) /\ (~ x.space => HWeight(x) = n + k)
  BY <1>2, HWeightIs
<1> HIDE DEF n, k
<1>4. HWeight(x) \in Nat /\ HWeight(x) <= n + k + 1 /\ (~ x.space => HWeight(x) = n + k)
  BY <1>1, <1>2, <1>3
<1>5. QED
  BY <1>1, <1>2, <1>4 DEF n, k

\* A step keeps the pass typed, and adds at most the item it has read, outside
\* the contents of scripts.
LEMMA HStepTyped ==
    ASSUME NEW m \in HStates, NEW c \in H!DocItems, H!IsMinifier(HText)
    PROVE  /\ H!Step(m, c) \in HStates
           /\ (m.at = "raw" => m.tag[1] # "<script") =>
                HWeight(H!Step(m, c)) <= HWeight(m) + 1
<1> DEFINE x == H!Step(m, c)
           n == Len(m.out)
           k == Len(m.held)
<1>1. /\ n \in Nat /\ k \in Nat /\ m.out \in HText /\ m.held \in HText
      /\ HWeight(m) \in Nat /\ (m.space => HWeight(m) = n + k + 1)
      /\ (~ m.space => HWeight(m) = n + k)
  BY HStateFacts, HTextFacts, HWeightIs
<1>2. CASE m.at = "text"
  <2> DEFINE w == H!Spaced(m)
             l == Len(w.out)
  <2>1. w \in HStates /\ l + k <= HWeight(m)
    BY HSpacedTyped
  <2>2. l \in Nat /\ w.out \in HText /\ Len(Append(w.out, c)) = l + 1 /\ Len(<<c>>) = 1
        /\ <<c>> \in HText
    BY <2>1, HTextFacts, HItems, HStateFacts
  <2>3. /\ c = "sp" => HIs(x, m.out, "text", TRUE, m.held)
        /\ c = "<!--" => HIs(x, w.out, "comment", FALSE, <<c>>)
        /\ c \in H!Tags => HIs(x, Append(w.out, c), "tag", FALSE, m.held)
        /\ c \notin {"sp", "<!--"} \cup H!Tags => HIs(x, Append(w.out, c), "text", FALSE, m.held)
    BY <1>2, StepText
  <2> HIDE DEF x, l, n, k, w
  <2>4. CASE c = "sp"
    <3>1. x \in HStates /\ HWeight(x) \in Nat /\ HWeight(x) <= n + k + 1
      BY <2>3, <2>4, HIsWeight DEF n, k
    <3>2. QED
      BY <1>1, <3>1 DEF x
  <2>5. CASE c = "<!--"
    <3>1. x \in HStates /\ HWeight(x) \in Nat /\ HWeight(x) = l + 1
      <4>1. HIs(x, w.out, "comment", FALSE, <<c>>)
        BY <2>3, <2>5
      <4>2. x \in HStates /\ HWeight(x) \in Nat /\ HWeight(x) = Len(w.out) + Len(<<c>>)
        BY <4>1, HIsWeight
      <4>3. QED
        BY <2>2, <4>2 DEF l
    <3>2. QED
      BY <1>1, <2>1, <2>2, <3>1 DEF x
  <2>6. CASE c \notin {"sp", "<!--"}
    <3>1. x \in HStates /\ HWeight(x) \in Nat /\ HWeight(x) = l + 1 + k
      <4>1. HIs(x, Append(w.out, c), "tag", FALSE, m.held)
            \/ HIs(x, Append(w.out, c), "text", FALSE, m.held)
        BY <2>3, <2>6
      <4>2. x \in HStates /\ HWeight(x) \in Nat /\ HWeight(x) = Len(Append(w.out, c)) + Len(m.held)
        BY <4>1, HIsWeight
      <4>3. QED
        BY <2>2, <4>2 DEF k
    <3>2. QED
      BY <1>1, <2>1, <2>2, <3>1 DEF x
  <2>7. QED
    BY <2>4, <2>5, <2>6
<1>3. CASE m.at = "comment"
  <2> DEFINE held == Append(m.held, c)
             o == IF H!Contains(held, "[if") THEN m.out \o held ELSE m.out
  <2>1. held \in HText /\ Len(held) = k + 1 /\ m.out \o held \in HText
        /\ Len(m.out \o held) = n + k + 1
    <3>1. held \in HText /\ Len(held) = k + 1
      BY <1>1, HTextFacts
    <3> HIDE DEF held, n, k
    <3>2. m.out \o held \in HText /\ Len(m.out \o held) = n + Len(held)
      BY <1>1, <3>1, HTextFacts DEF n
    <3>3. QED
      BY <1>1, <3>1, <3>2
  <2>2. HIs(x, o, "text", m.space, <<>>) \/ HIs(x, m.out, "comment", m.space, held)
    BY <1>3, StepComment
  <2>3. o \in {m.out, m.out \o held}
    OBVIOUS
  <2> HIDE DEF x, n, k, held, o
  <2>4. CASE HIs(x, o, "text", m.space, <<>>)
    <3>1. x \in HStates /\ HWeight(x) \in Nat /\ HWeight(x) <= Len(o) + 0 + 1 /\ (~ x.space => HWeight(x) = Len(o) + 0)
      BY <2>4, HIsWeight, HItems
    <3>2. Len(o) \in {n, n + k + 1}
      BY <2>1, <2>3 DEF n
    <3>3. x.space <=> m.space
      BY <2>4 DEF HIs
    <3>4. QED
      BY <1>1, <3>1, <3>2, <3>3 DEF x
  <2>5. CASE HIs(x, m.out, "comment", m.space, held)
    <3>1. /\ x \in HStates /\ HWeight(x) \in Nat /\ HWeight(x) <= n + (k + 1) + 1
          /\ (~ x.space => HWeight(x) = n + (k + 1))
      BY <2>1, <2>5, HIsWeight DEF n
    <3>2. x.space <=> m.space
      BY <2>5 DEF HIs
    <3>3. QED
      BY <1>1, <3>1, <3>2 DEF x
  <2>6. QED
    BY <2>2, <2>4, <2>5
<1>4. CASE m.at = "tag"
  <2> DEFINE o == IF m.space /\ c \notin {"'", ">"} THEN Append(m.out, "sp") ELSE m.out
             l == Len(o)
  <2>1. l \in Nat /\ o \in HText /\ (l = n \/ (m.space /\ l = n + 1))
    BY <1>1, HTextFacts, HItems
  <2>2. Len(Append(o, c)) = l + 1
    BY <2>1, HTextFacts
  <2>3. \/ HIs(x, m.out, "tag", TRUE, m.held)
        \/ \E a : HIs(x, Append(o, c), a, FALSE, m.held)
    BY <1>4, StepTag
  <2> HIDE DEF x, n, k, l, o
  <2>4. CASE HIs(x, m.out, "tag", TRUE, m.held)
    <3>1. x \in HStates /\ HWeight(x) \in Nat /\ HWeight(x) <= n + k + 1
      BY <2>4, HIsWeight DEF n, k
    <3>2. QED
      BY <1>1, <3>1 DEF x
  <2>5. CASE \E a : HIs(x, Append(o, c), a, FALSE, m.held)
    <3>1. x \in HStates /\ HWeight(x) \in Nat /\ HWeight(x) = l + 1 + k
      BY <2>2, <2>5, HIsWeight DEF k
    <3>2. QED
      BY <1>1, <2>1, <3>1 DEF x
  <2>6. QED
    BY <2>3, <2>4, <2>5
<1>5. CASE m.at \in {"quoted", "close"}
  <2>1. Len(Append(m.out, c)) = n + 1
    BY <1>1, HTextFacts
  <2>2. \E a : HIs(x, Append(m.out, c), a, m.space, m.held)
    BY <1>5, StepQuoted, StepClose
  <2> HIDE DEF x, n, k
  <2>3. /\ x \in HStates /\ HWeight(x) \in Nat /\ HWeight(x) <= (n + 1) + k + 1
        /\ (~ x.space => HWeight(x) = (n + 1) + k)
    BY <2>1, <2>2, HIsWeight DEF k
  <2>4. x.space <=> m.space
    BY <2>2 DEF HIs
  <2>5. QED
    BY <1>1, <2>3, <2>4 DEF x
<1>6. CASE m.at = "raw"
  <2> DEFINE contents == H!Contents(m, H!Front(m.held))
             over == H!Closer(m) /\ c \in H!Delim
             o == m.out \o contents \o <<H!Last(m.held), c>>
  <2>1. /\ over => /\ HIs(x, o, IF c = ">" THEN "text" ELSE "close", m.space, <<>>)
                   /\ m.held # <<>> /\ contents \in HText
                   /\ m.tag[1] # "<script" => Len(contents) <= k - 1
        /\ ~ over => HIs(x, m.out, "raw", m.space, Append(m.held, c))
    BY <1>6, StepRaw
  <2>2. CASE ~ over
    <3>1. Append(m.held, c) \in HText /\ Len(Append(m.held, c)) = k + 1
      BY <1>1, HTextFacts
    <3>2. HIs(x, m.out, "raw", m.space, Append(m.held, c))
      BY <2>1, <2>2
    <3> HIDE DEF x, n, k
    <3>3. /\ x \in HStates /\ HWeight(x) \in Nat /\ HWeight(x) <= n + (k + 1) + 1
          /\ (~ x.space => HWeight(x) = n + (k + 1))
      <4>1. /\ x \in HStates /\ HWeight(x) \in Nat
            /\ HWeight(x) <= Len(m.out) + Len(Append(m.held, c)) + 1
            /\ (~ x.space => HWeight(x) = Len(m.out) + Len(Append(m.held, c)))
        BY <3>2, HIsWeight
      <4>2. QED
        BY <3>1, <4>1 DEF n
    <3>4. x.space <=> m.space
      BY <3>2 DEF HIs
    <3>5. QED
      BY <1>1, <3>3, <3>4 DEF x
  <2>3. CASE over
    <3>1. H!Last(m.held) \in H!DocItems
      BY <1>1, <2>1, <2>3, HTextFacts
    <3>2. <<H!Last(m.held), c>> \in HText /\ Len(<<H!Last(m.held), c>>) = 2
      BY <3>1 DEF HText
    <3>3. contents \in HText /\ (m.tag[1] # "<script" => Len(contents) <= k - 1)
      BY <2>1, <2>3
    <3>4. m.out \o contents \in HText /\ Len(m.out \o contents) = n + Len(contents)
      BY <1>1, <3>3, HTextFacts
    <3>5. Len(o) = n + Len(contents) + 2
      BY <3>2, <3>4, HTextFacts
    <3>6. \E a : HIs(x, o, a, m.space, <<>>)
      BY <2>1, <2>3
    <3> HIDE DEF x, n, k, contents, o
    <3>7. /\ x \in HStates /\ HWeight(x) \in Nat /\ HWeight(x) <= Len(o) + 0 + 1
          /\ (~ x.space => HWeight(x) = Len(o) + 0) /\ (x.space <=> m.space)
      <4>1. x.space <=> m.space
        BY <3>6 DEF HIs
      <4>2. QED
        BY <3>6, <4>1, HIsWeight, HItems
    <3>8. Len(contents) \in Nat
      BY <3>3, HTextFacts
    <3> DEFINE l == Len(contents)
    <3> HIDE DEF l
    <3>9. ASSUME m.tag[1] # "<script" PROVE HWeight(x) <= HWeight(m) + 1
      <4>1. l \in Nat /\ l <= k - 1 /\ Len(o) = n + l + 2
        BY <3>3, <3>5, <3>8, <3>9 DEF l
      <4>2. Len(o) \in Nat
        BY <1>1, <4>1
      <4>3. CASE m.space
        <5>1. HWeight(m) = n + k + 1 /\ HWeight(x) <= Len(o) + 1
          BY <1>1, <3>7, <4>2, <4>3
        <5>2. QED
          BY <1>1, <3>7, <4>1, <5>1
      <4>4. CASE ~ m.space
        <5>1. HWeight(m) = n + k /\ HWeight(x) = Len(o)
          BY <1>1, <3>7, <4>2, <4>4
        <5>2. QED
          BY <1>1, <4>1, <5>1
      <4>5. QED
        BY <4>3, <4>4
    <3>10. QED
      BY <1>6, <3>7, <3>9 DEF x
  <2>4. QED
    BY <2>2, <2>3
<1>7. QED
  <2>1. m.at \in HAts
    BY HStateFacts
  <2>2. QED
    BY <1>2, <1>3, <1>4, <1>5, <1>6, <2>1 DEF HAts

\* Passes is the run of Step over the items.
LEMMA HRuns ==
    ASSUME NEW s \in HText, H!IsMinifier(HText)
    PROVE  /\ H!Passes(s) \in [0..Len(s) -> HStates]
           /\ IsRun(H!Passes(s), HSteps(s), H!Start, Len(s))
<1> DEFINE f == HSteps(s)
           n == Len(s)
           IsPass(p) == p = [i \in 0..n |-> IF i = 0 THEN H!Start ELSE H!Step(p[i - 1], s[i])]
           q == H!Passes(s)
<1>1. H!Start \in HStates
  BY HItems DEF H!Start, HStates, HAts
<1>2. f \in [1..n -> [HStates -> HStates]]
  <2>1. \A i \in 1..n : s[i] \in H!DocItems
    BY DEF HText
  <2>2. QED
    BY <2>1, HStepTyped DEF HSteps
<1>3. n \in Nat
  BY HTextFacts
<1>4. PICK g \in [0..n -> HStates] : IsRun(g, f, H!Start, n)
  <2> HIDE DEF f, n
  <2>1. QED
    BY <1>1, <1>2, <1>3, RunExists
<1>5. IsPass(g)
  <2>1. ASSUME NEW i \in 0..n, i # 0 PROVE f[i][g[i - 1]] = H!Step(g[i - 1], s[i])
    BY <1>3, <1>4, <2>1 DEF HSteps
  <2>2. \A i \in 0..n : g[i] = IF i = 0 THEN H!Start ELSE H!Step(g[i - 1], s[i])
    BY <1>3, <1>4, <2>1 DEF IsRun
  <2>3. QED
    BY <1>4, <2>2
<1>6. q = CHOOSE p : IsPass(p)
  BY DEF H!Passes
<1>7. IsPass(q)
  BY <1>5, <1>6
<1> HIDE DEF q
<1>8. \A i \in 1..n : q[i - 1] \in HStates => q[i] = f[i][q[i - 1]]
  BY <1>3, <1>7 DEF HSteps
<1>9. \A i \in 0..n : q[i] \in HStates
  <2>1. q[0] = H!Start
    BY <1>3, <1>7
  <2> HIDE DEF f, n, IsPass
  <2>2. QED
    BY <1>1, <1>2, <1>3, <1>8, <2>1, RunsStay
<1>10. q \in [0..n -> HStates]
  BY <1>7, <1>9
<1>11. IsRun(q, f, H!Start, n)
  <2>1. q[0] = H!Start
    BY <1>3, <1>7
  <2> HIDE DEF f, n
  <2>2. QED
    BY <1>3, <1>8, <1>9, <2>1 DEF IsRun
<1>12. QED
  BY <1>10, <1>11 DEF q

\* What the pass has come to after the first items does not depend on the rest.
LEMMA HPrefix ==
    ASSUME NEW s \in HText, NEW c \in H!DocItems, H!IsMinifier(HText)
    PROVE  /\ \A k \in 0..Len(s) :
                H!Passes(Append(s, c))[k] = H!Passes(s)[k] /\ H!Passes(s)[k] \in HStates
           /\ HAfter(s) \in HStates
           /\ HAfter(Append(s, c)) = H!Step(HAfter(s), c)
<1> DEFINE n == Len(s)
           t == Append(s, c)
           g == H!Passes(s)
           h == H!Passes(t)
<1>1. n \in Nat /\ t \in HText /\ Len(t) = n + 1 /\ t[n + 1] = c
      /\ \A i \in 1..n : t[i] = s[i]
  BY DEF HText
<1> HIDE DEF t
<1>2. /\ g \in [0..n -> HStates] /\ IsRun(g, HSteps(s), H!Start, n)
      /\ h \in [0..(n + 1) -> HStates] /\ IsRun(h, HSteps(t), H!Start, n + 1)
  BY <1>1, HRuns
<1>3. \A i \in 1..n : HSteps(t)[i] = HSteps(s)[i]
  BY <1>1 DEF HSteps
<1> HIDE DEF n, g, h
<1>4. ASSUME NEW k \in 0..n PROVE h[k] = g[k]
  <2>1. SameSteps(g, HSteps(s), h, HSteps(t), H!Start, k)
    BY <1>1, <1>2, <1>3 DEF SameSteps, IsRun
  <2>2. QED
    BY <2>1, RunsAgree
<1>5. h[n + 1] = HSteps(t)[n + 1][h[n]]
  BY <1>1, <1>2 DEF IsRun
<1>6. h[n + 1] = H!Step(h[n], c)
  BY <1>1, <1>2, <1>5 DEF HSteps
<1>7. QED
  BY <1>1, <1>2, <1>4, <1>6 DEF HAfter, n, g, h, t

LEMMA HAfterNothing == H!IsMinifier(HText) => HAfter(<<>>) = H!Start
<1>1. <<>> \in HText /\ Len(<<>>) = 0
  BY HItems
<1>2. H!IsMinifier(HText) => \A s \in HText : Len(s) = 0 => HAfter(s) = H!Start
  BY HRuns DEF HAfter, IsRun
<1>3. QED
  BY <1>1, <1>2, Zenon

-----------------------------------------------------------------------------
(* The pass over what the pass has written: sequences.                     *)

LEMMA HAppend ==
    ASSUME NEW s \in HText, NEW c \in H!DocItems
    PROVE  /\ Append(s, c) \in HText /\ Append(s, c) # <<>> /\ Len(Append(s, c)) = Len(s) + 1
           /\ \A i \in 1..Len(s) : Append(s, c)[i] = s[i]
           /\ Append(s, c)[Len(s) + 1] = c
           /\ H!Last(Append(s, c)) = c /\ H!Front(Append(s, c)) = s
           /\ s \o <<c>> = Append(s, c)
<1>1. /\ Append(s, c) \in HText /\ Append(s, c) # <<>> /\ Len(Append(s, c)) = Len(s) + 1
      /\ \A i \in 1..Len(s) : Append(s, c)[i] = s[i]
      /\ Append(s, c)[Len(s) + 1] = c
  BY DEF HText
<1>2. H!Last(Append(s, c)) = c /\ H!Front(Append(s, c)) = s
  BY DEF HText, H!Last, H!Front
<1>3. s \o <<c>> = Append(s, c)
  BY DEF HText
<1>4. QED
  BY <1>1, <1>2, <1>3

LEMMA HConcat ==
    ASSUME NEW s \in HText, NEW t \in HText
    PROVE  /\ t \o s \in HText /\ Len(t \o s) = Len(t) + Len(s)
           /\ \A i \in 1..Len(t) : (t \o s)[i] = t[i]
           /\ \A i \in 1..Len(s) : (t \o s)[Len(t) + i] = s[i]
           /\ t \o <<>> = t /\ <<>> \o t = t
           /\ \A c \in H!DocItems : t \o Append(s, c) = Append(t \o s, c)
<1>1. /\ t \o s \in HText /\ Len(t \o s) = Len(t) + Len(s)
      /\ \A i \in 1..Len(t) : (t \o s)[i] = t[i]
      /\ \A i \in 1..Len(s) : (t \o s)[Len(t) + i] = s[i]
  BY DEF HText
<1>2. t \o <<>> = t /\ <<>> \o t = t
  BY DEF HText
<1>3. ASSUME NEW c \in H!DocItems PROVE t \o Append(s, c) = Append(t \o s, c)
  <2> DEFINE a == t \o Append(s, c)
             b == Append(t \o s, c)
             n == Len(t)
             k == Len(s)
  <2>1. n \in Nat /\ k \in Nat
    BY DEF HText
  <2>2. /\ a \in HText /\ Len(a) = n + k + 1
        /\ \A i \in 1..n : a[i] = t[i]
        /\ \A i \in 1..(k + 1) : a[n + i] = IF i <= k THEN s[i] ELSE c
    BY DEF HText
  <2>3. /\ b \in HText /\ Len(b) = n + k + 1
        /\ \A i \in 1..n : b[i] = t[i]
        /\ \A i \in 1..(k + 1) : b[n + i] = IF i <= k THEN s[i] ELSE c
    <3> DEFINE d == t \o s
    <3>1. /\ d \in HText /\ Len(d) = n + k
          /\ \A i \in 1..n : d[i] = t[i]
          /\ \A i \in 1..k : d[n + i] = s[i]
      BY <1>1
    <3> HIDE DEF d, n, k
    <3>2. /\ Append(d, c) \in HText /\ Len(Append(d, c)) = n + k + 1
          /\ \A i \in 1..(n + k) : Append(d, c)[i] = d[i]
          /\ Append(d, c)[n + k + 1] = c
      BY <3>1, HAppend
    <3>3. ASSUME NEW i \in 1..(k + 1) PROVE Append(d, c)[n + i] = IF i <= k THEN s[i] ELSE c
      <4>1. CASE i <= k
        <5>1. n + i \in 1..(n + k) /\ i \in 1..k
          BY <2>1, <4>1
        <5>2. QED
          BY <3>1, <3>2, <4>1, <5>1
      <4>2. CASE i = k + 1
        <5>1. n + i = n + k + 1 /\ ~ (i <= k)
          BY <2>1, <4>2
        <5>2. Append(d, c)[n + i] = Append(d, c)[n + k + 1]
          BY <5>1, Zenon
        <5>3. QED
          BY <3>2, <5>1, <5>2, Zenon
      <4>3. i <= k \/ i = k + 1
        BY <2>1
      <4>4. QED
        BY <4>1, <4>2, <4>3, Zenon
    <3>4. \A i \in 1..n : Append(d, c)[i] = t[i]
      BY <2>1, <3>1, <3>2
    <3>5. QED
      BY <3>2, <3>3, <3>4 DEF d
  <2> HIDE DEF a, b, n, k
  <2>4. ASSUME NEW i \in 1..(n + k + 1) PROVE a[i] = b[i]
    <3>1. CASE i <= n
      BY <2>1, <2>2, <2>3, <3>1
    <3>2. CASE i > n
      <4>1. i - n \in 1..(k + 1) /\ n + (i - n) = i
        BY <2>1, <3>2
      <4>2. QED
        BY <2>2, <2>3, <4>1
    <3>3. QED
      BY <2>1, <3>1, <3>2
  <2>5. a = b
    BY <2>1, <2>2, <2>3, <2>4 DEF HText
  <2>6. QED
    BY <2>5 DEF a, b
<1>4. QED
  BY <1>1, <1>2, <1>3

\* t is o without the space that o may begin with.
HLead(o, t) ==
    /\ t \in HText
    /\ o = t \/ o = <<"sp">> \o t
    /\ t # <<>> => t[1] # "sp"

\* u is t without the spaces at its end.
HTrail(t, u) ==
    /\ u \in HText /\ Len(u) <= Len(t)
    /\ \A i \in 1..Len(u) : u[i] = t[i]
    /\ \A i \in (Len(u) + 1)..Len(t) : t[i] = "sp"
    /\ u # <<>> => u[Len(u)] # "sp"

LEMMA HTrimIs ==
    ASSUME NEW o, NEW t, NEW u, HLead(o, t), HTrail(t, u)
    PROVE  H!TrimSpace(o) = u
<1> DEFINE b == Len(o) - Len(t)
           n == Len(t)
           k == Len(u)
           kept == {i \in DOMAIN o : o[i] # "sp"}
<1>1. t \in HText /\ u \in HText /\ o \in HText /\ <<"sp">> \in HText /\ Len(<<"sp">>) = 1
      /\ <<"sp">>[1] = "sp"
  <2>1. t \in HText /\ u \in HText /\ <<"sp">> \in HText /\ Len(<<"sp">>) = 1
    BY HItems DEF HLead, HTrail
  <2>2. o \in HText
    BY <2>1, HConcat DEF HLead
  <2>3. QED
    BY <2>1, <2>2
<1>2. n \in Nat /\ k \in Nat /\ k <= n
  BY <1>1, HTextFacts DEF HTrail
<1>3. /\ b \in {0, 1} /\ Len(o) = b + n /\ DOMAIN o = 1..(b + n)
      /\ b = 1 => o[1] = "sp"
      /\ \A i \in 1..n : o[b + i] = t[i]
  <2>1. CASE o = t
    BY <1>1, <1>2, <2>1 DEF HText
  <2>2. CASE o = <<"sp">> \o t
    <3>1. Len(o) = 1 + n /\ o[1] = "sp" /\ \A i \in 1..n : o[1 + i] = t[i]
      BY <1>1, <2>2, HConcat
    <3>2. b = 1
      BY <1>2, <3>1
    <3>3. DOMAIN o = 1..Len(o)
      BY <1>1 DEF HText
    <3>4. QED
      BY <3>1, <3>2, <3>3
  <2>3. QED
    BY <2>1, <2>2 DEF HLead
<1> HIDE DEF b, n, k
<1>4. /\ \A i \in 1..k : u[i] = t[i]
      /\ \A i \in (k + 1)..n : t[i] = "sp"
      /\ k > 0 => t[1] # "sp" /\ t[k] # "sp"
  BY <1>1, <1>2 DEF HTrail, HLead, n, k, HText
<1>5. \A i \in kept : i \in (b + 1)..(b + k)
  <2> SUFFICES ASSUME NEW i \in kept PROVE i \in (b + 1)..(b + k)
    OBVIOUS
  <2>1. i \in 1..(b + n) /\ o[i] # "sp"
    BY <1>3
  <2>2. i > b
    BY <1>3, <2>1
  <2>3. i - b \in 1..n /\ o[b + (i - b)] = t[i - b] /\ b + (i - b) = i
    BY <1>2, <1>3, <2>1, <2>2
  <2>4. t[i - b] # "sp"
    BY <2>1, <2>3
  <2>5. i - b <= k
    BY <1>2, <1>4, <2>3, <2>4
  <2>6. QED
    BY <1>2, <1>3, <2>2, <2>3, <2>5
<1>6. k > 0 => b + 1 \in kept /\ b + k \in kept
  BY <1>2, <1>3, <1>4
<1>7. CASE k = 0
  <2>1. kept = {}
    BY <1>3, <1>5, <1>7
  <2>2. u = <<>>
    BY <1>1, <1>7 DEF k, HText
  <2>3. QED
    BY <2>1, <2>2 DEF H!TrimSpace
<1>8. CASE k # 0
  <2> DEFINE x == CHOOSE i \in kept : \A j \in kept : i <= j
             y == CHOOSE i \in kept : \A j \in kept : i >= j
  <2>1. x = b + 1
    <3> HIDE DEF kept
    <3>1. \A j \in kept : b + 1 <= j
      BY <1>2, <1>3, <1>5
    <3>2. \A i \in kept : (\A j \in kept : i <= j) => i = b + 1
      BY <1>2, <1>3, <1>5, <1>6, <1>8
    <3>3. b + 1 \in kept
      BY <1>2, <1>6, <1>8
    <3>4. QED
      BY <3>1, <3>2, <3>3
  <2>2. y = b + k
    <3> HIDE DEF kept
    <3>1. \A j \in kept : b + k >= j
      BY <1>2, <1>3, <1>5
    <3>2. \A i \in kept : (\A j \in kept : i >= j) => i = b + k
      BY <1>2, <1>3, <1>5, <1>6, <1>8
    <3>3. b + k \in kept
      BY <1>2, <1>6, <1>8
    <3>4. QED
      BY <3>1, <3>2, <3>3
  <2>3. kept # {}
    BY <1>2, <1>6, <1>8
  <2>4. H!TrimSpace(o) = SubSeq(o, x, y)
    BY <2>3, Zenon DEF H!TrimSpace
  <2> HIDE DEF x, y, kept
  <2>5. SubSeq(o, b + 1, b + k) = u
    <3> DEFINE v == SubSeq(o, b + 1, b + k)
    <3>1. b + 1 \in 1..Len(o) /\ b + k \in 1..Len(o) /\ b + 1 <= b + k
      BY <1>2, <1>3, <1>8
    <3>2. v \in HText
      BY <1>1, <3>1 DEF HText
    <3>3. Len(v) = (b + k) - (b + 1) + 1
      BY <1>1, <3>1 DEF HText
    <3>4. \A i \in 1..((b + k) - (b + 1) + 1) : v[i] = o[(b + 1) + i - 1]
      BY <1>1, <3>1 DEF HText
    <3> HIDE DEF v
    <3>5. Len(v) = k
      BY <1>2, <1>3, <3>3
    <3>6. ASSUME NEW i \in 1..k PROVE v[i] = u[i]
      <4>1. i \in 1..((b + k) - (b + 1) + 1) /\ (b + 1) + i - 1 = b + i /\ i \in 1..n
        BY <1>2, <1>3
      <4>2. v[i] = o[b + i]
        BY <3>4, <4>1
      <4>3. QED
        BY <1>3, <1>4, <4>1, <4>2
    <3>7. v = u
      <4>1. v \in Seq(H!DocItems) /\ u \in Seq(H!DocItems) /\ Len(v) = Len(u)
            /\ \A i \in 1..Len(u) : v[i] = u[i]
        BY <1>1, <3>2, <3>5, <3>6 DEF HText, k
      <4>2. QED
        BY <4>1
    <3>8. QED
      BY <3>7 DEF v
  <2>6. QED
    BY <2>1, <2>2, <2>4, <2>5
<1>9. QED
  BY <1>7, <1>8

-----------------------------------------------------------------------------
(* The pass over what the pass has written: tags.                          *)

\* b is what has been written of the tag a, of which a space may be pending.
SameTag(a, b, space) ==
    /\ a \in HText /\ b \in HText /\ a # <<>> /\ b # <<>> /\ a[1] = b[1]
    /\ H!Contains(a, "json") <=> H!Contains(b, "json")
    /\ H!SelfClosing(a) <=> H!SelfClosing(b)
    /\ \/ Len(a) >= 2 /\ Len(b) >= 2 /\ (a[2] \in H!Delim <=> b[2] \in H!Delim)
       \/ Len(b) = 1 /\ ~ space /\ Len(a) = 1
       \/ Len(b) = 1 /\ space /\ Len(a) >= 2 /\ a[2] = "sp"

LEMMA TagAppend ==
    ASSUME NEW a \in HText, a # <<>>, NEW c \in H!DocItems
    PROVE  LET b == Append(a, c)
           IN  /\ b \in HText /\ b # <<>> /\ b[1] = a[1] /\ Len(b) = Len(a) + 1 /\ Len(a) >= 1
               /\ Len(a) = 1 => b[2] = c
               /\ Len(a) >= 2 => b[2] = a[2]
               /\ H!Contains(b, "json") <=> H!Contains(a, "json") \/ c = "json"
               /\ H!SelfClosing(b) <=> c = "/" \/ (c \in {"sp", ">"} /\ H!SelfClosing(a))
<1> DEFINE b == Append(a, c)
           n == Len(a)
<1>1. n \in Nat /\ n >= 1
  BY DEF HText
<1>2. /\ b \in HText /\ b # <<>> /\ Len(b) = n + 1 /\ b[n + 1] = c
      /\ \A i \in 1..n : b[i] = a[i]
  BY HAppend
<1>3. DOMAIN a = 1..n /\ DOMAIN b = 1..(n + 1)
  BY <1>2 DEF HText
<1> HIDE DEF b
<1>4. H!Contains(b, "json") <=> H!Contains(a, "json") \/ c = "json"
  <2>1. H!Contains(b, "json") <=> \E i \in 1..(n + 1) : b[i] = "json"
    BY <1>2 DEF H!Contains
  <2>2. H!Contains(a, "json") <=> \E i \in 1..n : a[i] = "json"
    BY DEF H!Contains
  <2> HIDE DEF n
  <2>3. QED
    BY <1>1, <1>2, <2>1, <2>2
<1>5. H!SelfClosing(b) <=> c = "/" \/ (c \in {"sp", ">"} /\ H!SelfClosing(a))
  <2>1. H!SelfClosing(b) <=> \E k \in 1..(n + 1) :
          b[k] = "/" /\ \A j \in (k + 1)..(n + 1) : b[j] \in {"sp", ">"}
    BY <1>2, <1>3 DEF H!SelfClosing
  <2>2. H!SelfClosing(a) <=> \E k \in 1..n :
          a[k] = "/" /\ \A j \in (k + 1)..n : a[j] \in {"sp", ">"}
    BY <1>3 DEF H!SelfClosing
  <2> HIDE DEF n
  <2>3. ASSUME H!SelfClosing(b) PROVE c = "/" \/ (c \in {"sp", ">"} /\ H!SelfClosing(a))
    <3>1. PICK k \in 1..(n + 1) :
            b[k] = "/" /\ \A j \in (k + 1)..(n + 1) : b[j] \in {"sp", ">"}
      BY <2>1, <2>3
    <3>2. CASE k = n + 1
      BY <1>2, <3>1, <3>2
    <3>3. CASE k \in 1..n
      <4>1. c \in {"sp", ">"}
        BY <1>1, <1>2, <3>1, <3>3
      <4>2. a[k] = "/" /\ \A j \in (k + 1)..n : a[j] \in {"sp", ">"}
        BY <1>1, <1>2, <3>1, <3>3
      <4>3. QED
        BY <2>2, <3>3, <4>1, <4>2
    <3>4. QED
      BY <1>1, <3>2, <3>3
  <2>4. ASSUME c = "/" PROVE H!SelfClosing(b)
    <3>1. b[n + 1] = "/" /\ \A j \in ((n + 1) + 1)..(n + 1) : b[j] \in {"sp", ">"}
      BY <1>1, <1>2, <2>4
    <3>2. n + 1 \in 1..(n + 1)
      BY <1>1
    <3>3. QED
      BY <2>1, <3>1, <3>2
  <2>5. ASSUME c \in {"sp", ">"}, H!SelfClosing(a) PROVE H!SelfClosing(b)
    <3>1. PICK k \in 1..n : a[k] = "/" /\ \A j \in (k + 1)..n : a[j] \in {"sp", ">"}
      BY <2>2, <2>5
    <3>2. k \in 1..(n + 1) /\ b[k] = "/"
      BY <1>1, <1>2, <3>1
    <3>3. \A j \in (k + 1)..(n + 1) : b[j] \in {"sp", ">"}
      <4>1. ASSUME NEW j \in (k + 1)..(n + 1) PROVE b[j] \in {"sp", ">"}
        <5>1. CASE j = n + 1
          BY <1>2, <2>5, <5>1
        <5>2. CASE j \in (k + 1)..n
          BY <1>1, <1>2, <3>1, <5>2
        <5>3. QED
          BY <1>1, <5>1, <5>2
      <4>2. QED
        BY <4>1
    <3>4. QED
      BY <2>1, <3>2, <3>3
  <2>6. QED
    BY <2>3, <2>4, <2>5
<1>6. /\ b \in HText /\ b # <<>> /\ b[1] = a[1] /\ Len(b) = Len(a) + 1 /\ Len(a) >= 1
      /\ Len(a) = 1 => b[2] = c
      /\ Len(a) >= 2 => b[2] = a[2]
  <2> HIDE DEF n
  <2>1. 1 \in 1..n /\ (n >= 2 => 2 \in 1..n)
    BY <1>1
  <2>2. QED
    BY <1>1, <1>2, <2>1 DEF n
<1>7. QED
  BY <1>4, <1>5, <1>6 DEF b

LEMMA SameTagSpace ==
    ASSUME NEW a, NEW b, NEW space, SameTag(a, b, space)
    PROVE  SameTag(Append(a, "sp"), b, TRUE)
<1> DEFINE x == Append(a, "sp")
<1>1. /\ x \in HText /\ x # <<>> /\ x[1] = a[1] /\ Len(x) = Len(a) + 1 /\ Len(a) >= 1
      /\ Len(a) = 1 => x[2] = "sp"
      /\ Len(a) >= 2 => x[2] = a[2]
      /\ H!Contains(x, "json") <=> H!Contains(a, "json")
      /\ H!SelfClosing(x) <=> H!SelfClosing(a)
  BY TagAppend, HItems DEF SameTag
<1>2. Len(a) \in Nat /\ Len(b) \in Nat
  BY HTextFacts DEF SameTag
<1> HIDE DEF x
<1>3. \/ Len(x) >= 2 /\ Len(b) >= 2 /\ (x[2] \in H!Delim <=> b[2] \in H!Delim)
      \/ Len(b) = 1 /\ Len(x) >= 2 /\ x[2] = "sp"
  <2>1. CASE Len(a) >= 2 /\ Len(b) >= 2 /\ (a[2] \in H!Delim <=> b[2] \in H!Delim)
    BY <1>1, <1>2, <2>1
  <2>2. CASE Len(b) = 1 /\ Len(a) = 1
    BY <1>1, <2>2
  <2>3. CASE Len(b) = 1 /\ Len(a) >= 2 /\ a[2] = "sp"
    BY <1>1, <1>2, <2>3
  <2>4. QED
    BY <2>1, <2>2, <2>3 DEF SameTag
<1>4. SameTag(x, b, TRUE)
  BY <1>1, <1>3 DEF SameTag
<1>5. QED
  BY <1>4 DEF x

\* Without the space, the end of the tag, an item with none before it, and one
\* that does not come right after the tag's name.
LEMMA SameTagItem ==
    ASSUME NEW a, NEW b, NEW space, SameTag(a, b, space), NEW c \in H!DocItems,
           ~ space \/ c = ">" \/ Len(b) >= 2
    PROVE  /\ SameTag(Append(a, c), Append(b, c), FALSE)
           /\ Len(Append(a, c)) >= 2 /\ Len(Append(b, c)) >= 2
<1> DEFINE x == Append(a, c)
           y == Append(b, c)
<1>1. /\ x \in HText /\ x # <<>> /\ x[1] = a[1] /\ Len(x) = Len(a) + 1 /\ Len(a) >= 1
      /\ Len(a) = 1 => x[2] = c
      /\ Len(a) >= 2 => x[2] = a[2]
      /\ H!Contains(x, "json") <=> H!Contains(a, "json") \/ c = "json"
      /\ H!SelfClosing(x) <=> c = "/" \/ (c \in {"sp", ">"} /\ H!SelfClosing(a))
  BY TagAppend DEF SameTag
<1>2. /\ y \in HText /\ y # <<>> /\ y[1] = b[1] /\ Len(y) = Len(b) + 1 /\ Len(b) >= 1
      /\ Len(b) = 1 => y[2] = c
      /\ Len(b) >= 2 => y[2] = b[2]
      /\ H!Contains(y, "json") <=> H!Contains(b, "json") \/ c = "json"
      /\ H!SelfClosing(y) <=> c = "/" \/ (c \in {"sp", ">"} /\ H!SelfClosing(b))
  BY TagAppend DEF SameTag
<1>3. Len(a) \in Nat /\ Len(b) \in Nat
  BY HTextFacts DEF SameTag
<1> HIDE DEF x, y
<1>4. Len(x) >= 2 /\ Len(y) >= 2
  BY <1>1, <1>2, <1>3
<1>5. x[2] \in H!Delim <=> y[2] \in H!Delim
  <2>1. CASE Len(a) >= 2 /\ Len(b) >= 2 /\ (a[2] \in H!Delim <=> b[2] \in H!Delim)
    BY <1>1, <1>2, <2>1
  <2>2. CASE Len(b) = 1 /\ Len(a) = 1
    BY <1>1, <1>2, <2>2
  <2>3. CASE Len(b) = 1 /\ space /\ Len(a) >= 2 /\ a[2] = "sp"
    <3>0. c = ">"
      BY <2>3
    <3>1. x[2] = "sp" /\ y[2] = ">"
      BY <1>1, <1>2, <2>3, <3>0
    <3>2. QED
      BY <3>1 DEF H!Delim
  <2>4. QED
    BY <2>1, <2>2, <2>3 DEF SameTag
<1>6. SameTag(x, y, FALSE)
  <2>1. /\ a[1] = b[1]
        /\ H!Contains(a, "json") <=> H!Contains(b, "json")
        /\ H!SelfClosing(a) <=> H!SelfClosing(b)
    BY DEF SameTag
  <2>2. QED
    BY <1>1, <1>2, <1>4, <1>5, <2>1 DEF SameTag
<1>7. QED
  BY <1>4, <1>6 DEF x, y

\* An item with a space before it that is written.
LEMMA SameTagSpaced ==
    ASSUME NEW a, NEW b, NEW space, SameTag(a, b, space), NEW c \in H!DocItems,
           space, c \notin {"sp", ">"}
    PROVE  /\ SameTag(Append(a, c), Append(Append(b, "sp"), c), FALSE)
           /\ Len(Append(a, c)) >= 2 /\ Len(Append(Append(b, "sp"), c)) >= 2
<1> DEFINE x == Append(a, c)
           z == Append(b, "sp")
           y == Append(z, c)
<1>1. /\ x \in HText /\ x # <<>> /\ x[1] = a[1] /\ Len(x) = Len(a) + 1 /\ Len(a) >= 1
      /\ Len(a) >= 2 => x[2] = a[2]
      /\ H!Contains(x, "json") <=> H!Contains(a, "json") \/ c = "json"
      /\ H!SelfClosing(x) <=> c = "/"
  BY TagAppend DEF SameTag
<1>2. /\ z \in HText /\ z # <<>> /\ z[1] = b[1] /\ Len(z) = Len(b) + 1 /\ Len(b) >= 1
      /\ Len(b) = 1 => z[2] = "sp"
      /\ Len(b) >= 2 => z[2] = b[2]
      /\ H!Contains(z, "json") <=> H!Contains(b, "json")
  BY TagAppend, HItems DEF SameTag
<1>3. Len(a) \in Nat /\ Len(b) \in Nat
  BY HTextFacts DEF SameTag
<1> HIDE DEF x, z
<1>4. /\ y \in HText /\ y # <<>> /\ y[1] = z[1] /\ Len(y) = Len(z) + 1
      /\ Len(z) >= 2 => y[2] = z[2]
      /\ H!Contains(y, "json") <=> H!Contains(z, "json") \/ c = "json"
      /\ H!SelfClosing(y) <=> c = "/"
  BY <1>2, TagAppend
<1> HIDE DEF y
<1>5. Len(x) >= 2 /\ Len(y) >= 2 /\ Len(z) >= 2
  BY <1>1, <1>2, <1>3, <1>4
<1>6. x[2] \in H!Delim <=> y[2] \in H!Delim
  <2>1. CASE Len(a) >= 2 /\ Len(b) >= 2 /\ (a[2] \in H!Delim <=> b[2] \in H!Delim)
    BY <1>1, <1>2, <1>4, <1>5, <2>1
  <2>2. CASE Len(b) = 1 /\ space /\ Len(a) >= 2 /\ a[2] = "sp"
    BY <1>1, <1>2, <1>4, <1>5, <2>2
  <2>3. QED
    BY <2>1, <2>2 DEF SameTag
<1>7. SameTag(x, y, FALSE)
  <2>1. a[1] = b[1] /\ (H!Contains(a, "json") <=> H!Contains(b, "json"))
    BY DEF SameTag
  <2>2. QED
    BY <1>1, <1>2, <1>4, <1>5, <1>6, <2>1 DEF SameTag
<1>8. QED
  BY <1>5, <1>7 DEF x, y, z

\* Both tags open raw contents, or neither.
LEMMA SameTagOpens ==
    ASSUME NEW a, NEW b, SameTag(a, b, FALSE), Len(a) >= 2, Len(b) >= 2
    PROVE  H!OpensRaw(a) <=> H!OpensRaw(b)
<1>1. Len(a) \in Nat /\ Len(b) \in Nat
  BY HTextFacts DEF SameTag
<1>2. /\ a[1] = b[1] /\ (a[2] \in H!Delim <=> b[2] \in H!Delim)
      /\ (H!SelfClosing(a) <=> H!SelfClosing(b))
  BY <1>1 DEF SameTag
<1>3. QED
  BY <1>2 DEF H!OpensRaw

-----------------------------------------------------------------------------
(* The pass over what the pass has written: text.                          *)

LEMMA HAssoc ==
    ASSUME NEW A, NEW s \in Seq(A), NEW t \in Seq(A), NEW u \in Seq(A)
    PROVE  (s \o t) \o u = s \o (t \o u)
OBVIOUS

LEMMA HLeadAppend ==
    ASSUME NEW o, NEW t, HLead(o, t), NEW c \in H!DocItems, t # <<>> \/ c # "sp"
    PROVE  HLead(Append(o, c), Append(t, c))
<1>1. t \in HText /\ <<"sp">> \in HText
  BY HItems DEF HLead
<1>2. Append(t, c) \in HText /\ (t # <<>> => Append(t, c)[1] = t[1])
      /\ (t = <<>> => Append(t, c)[1] = c)
  BY <1>1 DEF HText
<1>3. <<"sp">> \o Append(t, c) = Append(<<"sp">> \o t, c)
  BY <1>1, HConcat
<1>4. o = t \/ o = <<"sp">> \o t
  BY DEF HLead
<1>5. Append(o, c) = Append(t, c) \/ Append(o, c) = <<"sp">> \o Append(t, c)
  BY <1>3, <1>4
<1>6. QED
  BY <1>2, <1>5 DEF HLead

LEMMA HLeadConcat ==
    ASSUME NEW o, NEW t, HLead(o, t), NEW s \in HText, t # <<>> \/ (s # <<>> /\ s[1] # "sp")
    PROVE  HLead(o \o s, t \o s)
<1>1. t \in HText /\ <<"sp">> \in HText
  BY HItems DEF HLead
<1>2. t \o s \in HText /\ (t # <<>> => (t \o s)[1] = t[1])
      /\ (t = <<>> /\ s # <<>> => (t \o s)[1] = s[1])
  BY <1>1 DEF HText
<1>3. (<<"sp">> \o t) \o s = <<"sp">> \o (t \o s)
  BY <1>1, HAssoc DEF HText
<1>4. o = t \/ o = <<"sp">> \o t
  BY DEF HLead
<1>5. o \o s = t \o s \/ o \o s = <<"sp">> \o (t \o s)
  BY <1>3, <1>4
<1>6. QED
  BY <1>2, <1>5 DEF HLead

LEMMA HAfterTyped ==
    ASSUME NEW t \in HText, H!IsMinifier(HText)
    PROVE  /\ HAfter(t) \in HStates
           /\ \A c \in H!DocItems : HAfter(Append(t, c)) = H!Step(HAfter(t), c)
BY HPrefix, HItems

\* The pass over t, whose spaces at the end are dropped, writes what it reads.
HDone(t) == \E u \in HText : HTrail(t, u) /\ H!Finish(HAfter(u)) = u

LEMMA HDoneIs ==
    ASSUME NEW t \in HText, t = <<>> \/ H!Last(t) # "sp", H!Finish(HAfter(t)) = t
    PROVE  HDone(t)
<1>1. Len(t) \in Nat /\ (t # <<>> => t[Len(t)] # "sp")
  BY HTextFacts DEF H!Last
<1>2. HTrail(t, t)
  BY <1>1 DEF HTrail
<1>3. QED
  BY <1>2 DEF HDone

LEMMA HDoneSpaced ==
    ASSUME NEW t \in HText, HDone(t)
    PROVE  HDone(Append(t, "sp"))
<1> DEFINE v == Append(t, "sp")
<1>1. PICK u \in HText : HTrail(t, u) /\ H!Finish(HAfter(u)) = u
  BY DEF HDone
<1>2. /\ Len(t) \in Nat /\ Len(u) \in Nat /\ Len(v) = Len(t) + 1 /\ v[Len(t) + 1] = "sp"
      /\ \A i \in 1..Len(t) : v[i] = t[i]
  BY HAppend, HItems, HTextFacts
<1> HIDE DEF v
<1>3. HTrail(v, u)
  BY <1>1, <1>2 DEF HTrail
<1>4. QED
  BY <1>1, <1>3 DEF HDone, v

\* r is the pass after the text t.
TextAgain(t, r) ==
    /\ r \in HStates /\ r.at = "text" /\ r.held = <<>>
    /\ \/ (t = <<>> \/ H!Last(t) # "sp") /\ r.out = t /\ ~ r.space
       \/ r.out # <<>> /\ H!Last(r.out) # "sp" /\ t = Append(r.out, "sp") /\ r.space

LEMMA TextAgainSpaced ==
    ASSUME NEW t, NEW r, TextAgain(t, r)
    PROVE  H!Spaced(r).out = t /\ H!Finish(r) = t
<1>1. r \in HStates /\ r.at = "text"
  BY DEF TextAgain
<1>2. H!Spaced(r).out = IF r.space /\ (r.out = <<>> \/ H!Last(r.out) # "sp")
                        THEN Append(r.out, "sp") ELSE r.out
  BY <1>1, HSpacedTyped
<1>3. H!Spaced(r).out = t
  BY <1>2 DEF TextAgain
<1>4. H!Finish(r) = H!Spaced(r).out
  BY <1>1 DEF H!Finish
<1>5. QED
  BY <1>3, <1>4

LEMMA TextAgainIs ==
    ASSUME NEW t \in HText, NEW r, t = <<>> \/ H!Last(t) # "sp", HIs(r, t, "text", FALSE, <<>>)
    PROVE  TextAgain(t, r)
BY DEF TextAgain, HIs

\* Once a space that was pending is written.
LEMMA SpacedAgain ==
    ASSUME NEW m \in HStates, m.at = "text", NEW t \in HText, HLead(m.out, t),
           TextAgain(t, HAfter(t)), HDone(t), H!IsMinifier(HText)
    PROVE  \E v \in HText : /\ HLead(H!Spaced(m).out, v) /\ HDone(v)
                            /\ TextAgain(v, HAfter(v))
<1> DEFINE w == H!Spaced(m).out
           r == HAfter(t)
           v == Append(t, "sp")
<1>1. w = IF m.space /\ (m.out = <<>> \/ H!Last(m.out) # "sp")
          THEN Append(m.out, "sp") ELSE m.out
  BY HSpacedTyped
<1> HIDE DEF w
<1>2. CASE w = m.out
  BY <1>2 DEF w
<1>3. CASE m.out = <<>> /\ w = Append(m.out, "sp")
  <2>1. w = <<"sp">> \o <<>> /\ t = <<>>
    <3>1. <<"sp">> \in HText /\ Append(<<>>, "sp") = <<"sp">>
      BY HItems
    <3>2. <<"sp">> \o <<>> = <<"sp">> /\ Len(<<"sp">> \o t) = 1 + Len(t) /\ Len(t) \in Nat
      BY <3>1, HConcat, HItems, HTextFacts
    <3>3. t = <<>>
      BY <1>3, <3>2, HItems DEF HLead
    <3>4. QED
      BY <1>3, <3>1, <3>2, <3>3
  <2>2. HLead(w, t)
    BY <2>1 DEF HLead
  <2>3. QED
    BY <2>2 DEF w
<1>4. CASE m.out # <<>> /\ H!Last(m.out) # "sp" /\ w = Append(m.out, "sp")
  <2>1. t # <<>> /\ H!Last(t) # "sp"
    <3>1. <<"sp">> \in HText /\ Len(<<"sp">>) = 1 /\ <<"sp">>[1] = "sp"
      BY HItems
    <3>2. CASE m.out = t
      BY <1>4, <3>2
    <3>3. CASE m.out = <<"sp">> \o t /\ t = <<>>
      <4>1. m.out = <<"sp">>
        BY <3>1, <3>3, HConcat
      <4>2. QED
        BY <1>4, <3>1, <4>1 DEF H!Last
    <3>4. CASE m.out = <<"sp">> \o t /\ t # <<>>
      <4>1. /\ Len(t) \in Nat /\ Len(t) \in 1..Len(t) /\ Len(<<"sp">> \o t) = 1 + Len(t)
            /\ \A i \in 1..Len(t) : (<<"sp">> \o t)[1 + i] = t[i]
        <5>1. Len(t) \in Nat /\ Len(t) \in 1..Len(t)
          BY <3>4 DEF HText
        <5>2. QED
          BY <3>1, <5>1, HConcat
      <4>2. H!Last(m.out) = H!Last(t)
        BY <3>4, <4>1 DEF H!Last
      <4>3. QED
        BY <1>4, <3>4, <4>2
    <3>5. QED
      BY <3>2, <3>3, <3>4 DEF HLead
  <2>2. /\ v \in HText /\ H!Last(v) = "sp" /\ HAfter(v) = H!Step(r, "sp")
    BY HAppend, HItems, HAfterTyped
  <2>3. r \in HStates /\ r.at = "text" /\ r.held = <<>> /\ r.out = t
    <3>1. r.out \in HText
      BY HAfterTyped, HStateFacts
    <3>2. H!Last(Append(r.out, "sp")) = "sp"
      BY <3>1, HAppend, HItems
    <3>3. QED
      BY <2>1, <3>2 DEF TextAgain
  <2>4. HIs(HAfter(v), t, "text", TRUE, <<>>)
    <3> HIDE DEF r, v
    <3>1. HIs(H!Step(r, "sp"), r.out, "text", TRUE, r.held)
      BY <2>3, StepText, HItems
    <3>2. QED
      BY <2>2, <2>3, <3>1
  <2>5. TextAgain(v, HAfter(v))
    BY <2>1, <2>4 DEF TextAgain, HIs
  <2>6. HLead(w, v)
    BY <1>4, <2>1, HLeadAppend, HItems
  <2>7. HDone(v)
    BY HDoneSpaced
  <2>8. QED
    BY <2>2, <2>5, <2>6, <2>7 DEF w
<1>5. QED
  BY <1>1, <1>2, <1>3, <1>4

-----------------------------------------------------------------------------
(* The pass over what the pass has written: places.                        *)

SameKind(m, r) ==
    /\ m.tag[1] = r.tag[1]
    /\ H!Contains(m.tag, "json") <=> H!Contains(r.tag, "json")

Raw(t) == HIs(HAfter(t), t, "raw", FALSE, <<>>)

\* m has written t, but for a space at its beginning, and the pass over t is
\* where m is.
HAgainAt(m, t) ==
    /\ m.at \in {"text", "tag", "quoted", "close"} => m.held = <<>>
    /\ m.at \notin {"text", "tag"} => ~ m.space
    /\ m.at \in {"tag", "quoted", "raw", "close"} => t # <<>>
    /\ m.at = "text" => TextAgain(t, HAfter(t))
    /\ m.at = "comment" =>
         /\ TextAgain(t, HAfter(t))
         /\ m.held # <<>> /\ m.held[1] # "sp"
         /\ HIs(HAfter(t \o m.held), t, "comment", FALSE, m.held)
    /\ m.at = "tag" => /\ HIs(HAfter(t), t, "tag", FALSE, <<>>)
                       /\ SameTag(m.tag, HAfter(t).tag, m.space)
                       /\ Len(HAfter(t).tag) = 1 => H!Last(m.out) # "="
    /\ m.at = "quoted" => /\ HIs(HAfter(t), t, "quoted", FALSE, <<>>)
                          /\ SameTag(m.tag, HAfter(t).tag, FALSE)
    /\ m.at = "raw" => /\ Raw(t) /\ SameKind(m, HAfter(t))
                       /\ H!StaysOpen(m.held, H!CloserOf(m.tag[1]))
                       /\ ~ H!Closer(m) => HDone(t \o m.held)
    /\ m.at = "close" => HIs(HAfter(t), t, "close", FALSE, <<>>)

HAgain(m, t) ==
    m \in HStates /\ t \in HText /\ HLead(m.out, t) /\ HDone(t) /\ HAgainAt(m, t)

LEMMA SameTagIs ==
    ASSUME NEW a, NEW b, NEW space
    PROVE  /\ SameTag(a, b, FALSE) /\ ~ space => SameTag(a, b, space)
           /\ SameTag(a, b, TRUE) /\ space => SameTag(a, b, space)
BY DEF SameTag

LEMMA AgainText ==
    ASSUME NEW m \in HStates, m.at = "text", m.held = <<>>, NEW t \in HText,
           HLead(m.out, t), TextAgain(t, HAfter(t)), HDone(t)
    PROVE  HAgain(m, t)
BY DEF HAgain, HAgainAt

\* What comes after text, once its space is written.
LEMMA AgainAfterText ==
    ASSUME NEW m \in HStates, m.at = "text", NEW t \in HText, HAgain(m, t),
           NEW c \in H!DocItems, H!IsMinifier(HText)
    PROVE  /\ \E v \in HText : HAgain(H!Step(m, c), v)
           /\ H!Step(m, c).at = "tag" => ~ H!Step(m, c).space
<1> DEFINE x == H!Step(m, c)
           w == H!Spaced(m).out
<1>1. HLead(m.out, t) /\ TextAgain(t, HAfter(t)) /\ HDone(t) /\ m.held = <<>>
  BY DEF HAgain, HAgainAt
<1>2. /\ c = "sp" => HIs(x, m.out, "text", TRUE, <<>>)
      /\ c = "<!--" => HIs(x, w, "comment", FALSE, <<c>>)
      /\ c \in H!Tags => HIs(x, Append(w, c), "tag", FALSE, <<>>) /\ x.tag = <<c>>
      /\ c \notin {"sp", "<!--"} \cup H!Tags => HIs(x, Append(w, c), "text", FALSE, <<>>)
  BY <1>1, StepText
<1>3. PICK u \in HText : HLead(w, u) /\ HDone(u) /\ TextAgain(u, HAfter(u))
  BY <1>1, SpacedAgain
<1> DEFINE r == HAfter(u)
           v == Append(u, c)
           y == HAfter(v)
<1>4. /\ y = H!Step(r, c) /\ r \in HStates /\ r.at = "text" /\ r.held = <<>>
      /\ H!Spaced(r).out = u /\ v \in HText /\ v # <<>> /\ H!Last(v) = c
  <2>1. y = H!Step(r, c) /\ r \in HStates
    BY HAfterTyped
  <2>2. v \in HText /\ v # <<>> /\ H!Last(v) = c
    BY HAppend
  <2> HIDE DEF r, y, v
  <2>3. TextAgain(u, r)
    BY <1>3 DEF r
  <2>4. H!Spaced(r).out = u /\ r.at = "text" /\ r.held = <<>>
    BY <2>3, TextAgainSpaced DEF TextAgain
  <2>5. QED
    BY <2>1, <2>2, <2>4
<1> HIDE DEF w, x, r, y
<1>5. /\ c = "<!--" => HIs(y, u, "comment", FALSE, <<c>>)
      /\ c \in H!Tags => HIs(y, v, "tag", FALSE, <<>>) /\ y.tag = <<c>>
      /\ c \notin {"sp", "<!--"} \cup H!Tags => HIs(y, v, "text", FALSE, <<>>)
  BY <1>4, StepText
<1>6. c # "sp" => HLead(Append(w, c), v)
  BY <1>3, HLeadAppend
<1> HIDE DEF v
<1>7. CASE c = "sp"
  <2>1. HIs(x, m.out, "text", TRUE, <<>>)
    BY <1>2, <1>7
  <2>2. HAgain(x, t)
    BY <1>1, <2>1, AgainText DEF HIs
  <2>3. QED
    BY <2>1, <2>2 DEF x, HIs
<1>8. CASE c = "<!--"
  <2>1. HIs(x, w, "comment", FALSE, <<c>>) /\ HIs(y, u, "comment", FALSE, <<c>>)
    BY <1>2, <1>5, <1>8
  <2>2. u \o <<c>> = v
    BY HAppend DEF v
  <2>3. <<c>> # <<>> /\ <<c>>[1] = "<!--"
    BY <1>8
  <2>4. HAgainAt(x, u)
    BY <1>3, <2>1, <2>2, <2>3 DEF HAgainAt, HIs, y
  <2>5. HAgain(x, u)
    BY <1>3, <2>1, <2>4 DEF HAgain, HIs
  <2>6. QED
    BY <2>1, <2>5 DEF x, HIs
<1>9. CASE c \in H!Tags
  <2>1. /\ HIs(x, Append(w, c), "tag", FALSE, <<>>) /\ x.tag = <<c>>
        /\ HIs(y, v, "tag", FALSE, <<>>) /\ y.tag = <<c>>
    BY <1>2, <1>5, <1>9
  <2>2. c # "sp"
    BY <1>9 DEF H!Tags
  <2>3. SameTag(<<c>>, <<c>>, FALSE)
    BY HItems DEF SameTag
  <2>4. H!Finish(y) = v
    BY <2>1 DEF H!Finish, HIs
  <2>5. HDone(v)
    BY <1>4, <2>2, <2>4, HDoneIs DEF y
  <2>6. HAgainAt(x, v)
    <3>1. x.at = "tag" /\ x.held = <<>> /\ ~ x.space
      BY <2>1 DEF HIs
    <3>2. SameTag(x.tag, y.tag, x.space)
      BY <2>1, <2>3, <3>1, SameTagIs
    <3>3. HIs(HAfter(v), v, "tag", FALSE, <<>>) /\ SameTag(x.tag, HAfter(v).tag, x.space)
      BY <2>1, <3>2 DEF y
    <3>4. H!Last(x.out) # "="
      <4>1. w \in HText /\ x.out = Append(w, c)
        <5>1. <<"sp">> \o u \in HText
          <6>1. <<"sp">> \in HText
            BY HItems
          <6>2. QED
            BY <6>1, HTextFacts
        <5>2. w = u \/ w = <<"sp">> \o u
          BY <1>3 DEF HLead
        <5>3. x.out = Append(w, c)
          BY <2>1, Zenon DEF HIs
        <5>4. QED
          BY <5>1, <5>2, <5>3
      <4>2. H!Last(Append(w, c)) = c
        BY <4>1, HAppend
      <4>3. QED
        BY <1>9, <4>1, <4>2 DEF H!Tags
    <3>5. QED
      BY <1>4, <3>1, <3>3, <3>4 DEF HAgainAt
  <2>7. HAgain(x, v)
    BY <1>4, <1>6, <2>1, <2>2, <2>5, <2>6 DEF HAgain, HIs
  <2>8. QED
    BY <1>4, <2>1, <2>7 DEF x, HIs
<1>10. CASE c \notin {"sp", "<!--"} \cup H!Tags
  <2>1. HIs(x, Append(w, c), "text", FALSE, <<>>) /\ HIs(y, v, "text", FALSE, <<>>)
    BY <1>2, <1>5, <1>10
  <2>2. TextAgain(v, y)
    BY <1>4, <1>10, <2>1, TextAgainIs
  <2>3. H!Finish(y) = v
    BY <2>2, TextAgainSpaced
  <2>4. HDone(v)
    BY <1>4, <1>10, <2>3, HDoneIs DEF y
  <2>5. HAgain(x, v)
    BY <1>4, <1>6, <1>10, <2>1, <2>2, <2>4, AgainText DEF HIs, y
  <2>6. QED
    BY <1>4, <2>1, <2>5 DEF x, HIs
<1>11. QED
  BY <1>7, <1>8, <1>9, <1>10

LEMMA AgainAfterComment ==
    ASSUME NEW m \in HStates, m.at = "comment", NEW t \in HText, HAgain(m, t),
           NEW c \in H!DocItems, H!IsMinifier(HText)
    PROVE  /\ \E v \in HText : HAgain(H!Step(m, c), v)
           /\ H!Step(m, c).at # "tag"
<1> DEFINE x == H!Step(m, c)
           held == Append(m.held, c)
           r == HAfter(t \o m.held)
           v == t \o held
           y == HAfter(v)
           o == IF H!Contains(held, "[if") THEN m.out \o held ELSE m.out
           q == IF H!Contains(held, "[if") THEN v ELSE t
<1>1. /\ HLead(m.out, t) /\ TextAgain(t, HAfter(t)) /\ HDone(t) /\ ~ m.space
      /\ m.held # <<>> /\ m.held[1] # "sp" /\ HIs(r, t, "comment", FALSE, m.held)
  BY DEF HAgain, HAgainAt
<1>2. /\ m.held \in HText /\ held \in HText /\ held # <<>> /\ t \o m.held \in HText
      /\ v \in HText /\ v = Append(t \o m.held, c)
  <2>1. m.held \in HText
    BY HStateFacts
  <2>2. held \in HText /\ held # <<>>
    BY <2>1, HAppend
  <2>3. t \o m.held \in HText /\ v = Append(t \o m.held, c)
    <3>1. t \o m.held \in HText
      BY <2>1, HConcat
    <3>2. \A d \in H!DocItems : t \o Append(m.held, d) = Append(t \o m.held, d)
      BY <2>1, HConcat
    <3>3. QED
      BY <3>1, <3>2
  <2>4. QED
    BY <2>1, <2>2, <2>3, HAppend
<1>3. held[1] # "sp"
  BY <1>1, <1>2 DEF HText
<1>4. y = H!Step(r, c) /\ r \in HStates /\ r.at = "comment" /\ r.held = m.held /\ r.out = t
      /\ ~ r.space
  BY <1>1, <1>2, HAfterTyped DEF HIs
<1>5. H!CommentOver(r, c) <=> H!CommentOver(m, c)
  BY <1>4 DEF H!CommentOver
<1>6. /\ H!CommentOver(m, c) => HIs(x, o, "text", FALSE, <<>>)
      /\ ~ H!CommentOver(m, c) => HIs(x, m.out, "comment", FALSE, held)
  BY <1>1, StepComment DEF HIs
<1>7. /\ H!CommentOver(m, c) => HIs(y, q, "text", FALSE, <<>>)
      /\ ~ H!CommentOver(m, c) => HIs(y, t, "comment", FALSE, held)
  <2> HIDE DEF r, y
  <2>1. LET h == Append(r.held, c)
        IN  /\ H!CommentOver(r, c) =>
                 HIs(H!Step(r, c), IF H!Contains(h, "[if") THEN r.out \o h ELSE r.out,
                     "text", r.space, <<>>)
            /\ ~ H!CommentOver(r, c) => HIs(H!Step(r, c), r.out, "comment", r.space, h)
    BY <1>4, StepComment
  <2>2. QED
    BY <1>4, <1>5, <2>1 DEF HIs
<1> HIDE DEF x, held, r, y, v
<1>8. CASE ~ H!CommentOver(m, c)
  <2>1. HIs(x, m.out, "comment", FALSE, held) /\ HIs(y, t, "comment", FALSE, held)
    BY <1>6, <1>7, <1>8
  <2>2. HAgainAt(x, t)
    BY <1>1, <1>2, <1>3, <2>1 DEF HAgainAt, HIs, y, v
  <2>3. HAgain(x, t)
    BY <1>1, <2>1, <2>2 DEF HAgain, HIs
  <2>4. QED
    BY <2>1, <2>3 DEF x, HIs
<1>9. CASE H!CommentOver(m, c) /\ ~ H!Contains(held, "[if")
  <2>1. HIs(x, m.out, "text", FALSE, <<>>)
    BY <1>6, <1>9
  <2>2. HAgain(x, t)
    BY <1>1, <2>1, AgainText DEF HIs
  <2>3. QED
    BY <2>1, <2>2 DEF x, HIs
<1>10. CASE H!CommentOver(m, c) /\ H!Contains(held, "[if")
  <2>1. HIs(x, m.out \o held, "text", FALSE, <<>>) /\ HIs(y, v, "text", FALSE, <<>>)
    BY <1>6, <1>7, <1>10
  <2>2. c # "sp"
    BY <1>10 DEF H!CommentOver
  <2>3. H!Last(v) = c /\ v # <<>>
    BY <1>2, HAppend
  <2>4. TextAgain(v, y)
    BY <1>2, <2>1, <2>2, <2>3, TextAgainIs
  <2>5. H!Finish(y) = v
    BY <2>4, TextAgainSpaced
  <2>6. HDone(v)
    BY <1>2, <2>2, <2>3, <2>5, HDoneIs DEF y
  <2>7. HLead(m.out \o held, v)
    BY <1>1, <1>2, <1>3, HLeadConcat DEF v
  <2>8. HAgain(x, v)
    BY <1>2, <2>1, <2>4, <2>6, <2>7, AgainText DEF HIs, y
  <2>9. QED
    BY <1>2, <2>1, <2>8 DEF x, HIs
<1>11. QED
  BY <1>8, <1>9, <1>10

LEMMA SameTagKind ==
    ASSUME NEW m, NEW r, NEW space, SameTag(m.tag, r.tag, space)
    PROVE  SameKind(m, r)
BY DEF SameTag, SameKind

\* The places that hold nothing back.
LEMMA FinishIs ==
    ASSUME NEW m \in HStates, m.held = <<>>, m.at \in {"tag", "quoted", "raw", "close"}
    PROVE  H!Finish(m) = m.out
<1>1. m.out \o <<>> = m.out
  BY HStateFacts, HConcat, HItems
<1>2. m.at = "raw" => H!Finish(m) = m.out \o <<>>
  BY DEF H!Finish, H!Closer
<1>3. m.at \in {"tag", "quoted", "close"} => H!Finish(m) = m.out
  BY DEF H!Finish
<1>4. QED
  BY <1>1, <1>2, <1>3

LEMMA DoneAfter ==
    ASSUME NEW t \in HText, t # <<>>, H!Last(t) # "sp",
           NEW a \in {"text", "tag", "quoted", "raw", "close"},
           HIs(HAfter(t), t, a, FALSE, <<>>)
    PROVE  HDone(t)
<1> DEFINE y == HAfter(t)
<1>1. y \in HStates /\ y.out = t /\ y.at = a /\ ~ y.space /\ y.held = <<>>
  BY DEF HIs
<1> HIDE DEF y
<1>2. H!Finish(y) = t
  <2>1. CASE a = "text"
    <3>1. TextAgain(t, y)
      BY <1>1, <2>1 DEF TextAgain
    <3>2. QED
      BY <3>1, TextAgainSpaced
  <2>2. CASE a # "text"
    BY <1>1, <2>2, FinishIs
  <2>3. QED
    BY <2>1, <2>2
<1>3. QED
  BY <1>2, HDoneIs DEF y

\* Where a tag is after its end, and after anything else but whitespace.
LEMMA AgainInTag ==
    ASSUME NEW x, NEW o, NEW v \in HText, HLead(o, v), v # <<>>, HDone(v),
           NEW a \in {"text", "tag", "quoted", "raw"},
           HIs(x, o, a, FALSE, <<>>), HIs(HAfter(v), v, a, FALSE, <<>>),
           a = "text" => H!Last(v) # "sp",
           SameTag(x.tag, HAfter(v).tag, FALSE), Len(HAfter(v).tag) >= 2
    PROVE  HAgain(x, v)
<1> DEFINE y == HAfter(v)
<1>1. /\ x \in HStates /\ x.out = o /\ x.at = a /\ ~ x.space /\ x.held = <<>>
      /\ Len(y.tag) >= 2
  BY DEF HIs
<1>2. CASE a = "text"
  <2>1. TextAgain(v, y)
    BY <1>2, TextAgainIs
  <2>2. QED
    BY <1>1, <1>2, <2>1, AgainText
<1>3. CASE a \in {"tag", "quoted"}
  <2>1. SameTag(x.tag, y.tag, x.space)
    BY <1>1, SameTagIs
  <2>2. HAgainAt(x, v)
    <3>1. Len(y.tag) \in Nat
      <4>1. y.tag \in HText
        BY <2>1 DEF SameTag
      <4>2. QED
        BY <4>1, HTextFacts
    <3>2. Len(y.tag) # 1
      <4>1. Len(y.tag) >= 2
        BY <1>1
      <4> DEFINE n == Len(y.tag)
      <4> HIDE DEF n
      <4>2. n \in Nat /\ n >= 2
        BY <3>1, <4>1, Zenon DEF n
      <4>3. n # 1
        BY <4>2
      <4>4. QED
        BY <4>3, Zenon DEF n
    <3>3. QED
      BY <1>1, <1>3, <2>1, <3>2 DEF HAgainAt
  <2>3. QED
    BY <1>1, <2>2 DEF HAgain
<1>4. CASE a = "raw"
  <2>1. SameKind(x, y)
    BY SameTagKind
  <2>2. v \o x.held = v
    BY <1>1, HConcat, HItems
  <2>3. \A k : H!StaysOpen(<<>>, k)
    BY DEF H!StaysOpen
  <2>4. HAgainAt(x, v)
    BY <1>1, <1>4, <2>1, <2>2, <2>3 DEF HAgainAt, Raw
  <2>5. QED
    BY <1>1, <2>4 DEF HAgain
<1>5. QED
  BY <1>2, <1>3, <1>4

LEMMA AgainAfterTag ==
    ASSUME NEW m \in HStates, m.at = "tag", NEW t \in HText, HAgain(m, t),
           NEW c \in H!DocItems, m.space /\ c = "'" => H!Last(m.out) = "=",
           H!IsMinifier(HText)
    PROVE  /\ \E v \in HText : HAgain(H!Step(m, c), v)
           /\ H!Step(m, c).at = "tag" /\ H!Step(m, c).space => c = "sp"
<1> DEFINE x == H!Step(m, c)
           r == HAfter(t)
           tag == Append(m.tag, c)
<1>1. /\ HLead(m.out, t) /\ HDone(t) /\ m.held = <<>> /\ t # <<>>
      /\ HIs(r, t, "tag", FALSE, <<>>) /\ SameTag(m.tag, r.tag, m.space)
      /\ Len(r.tag) = 1 => H!Last(m.out) # "="
  BY DEF HAgain, HAgainAt
<1>2. r \in HStates /\ r.at = "tag" /\ r.out = t /\ ~ r.space /\ r.held = <<>>
  BY <1>1 DEF HIs
<1> DEFINE o == IF m.space /\ c \notin {"'", ">"} THEN Append(m.out, "sp") ELSE m.out
           at(g) == IF c \in H!Ends THEN (IF H!OpensRaw(g) THEN "raw" ELSE "text")
                    ELSE (IF c = "'" THEN "quoted" ELSE "tag")
<1>3. /\ x.tag = tag
      /\ c = "sp" => HIs(x, m.out, "tag", TRUE, <<>>)
      /\ c # "sp" => HIs(x, Append(o, c), at(tag), FALSE, <<>>)
  <2> HIDE DEF x, o, tag
  <2>1. /\ x.tag = tag
        /\ c = "sp" => HIs(x, m.out, "tag", TRUE, m.held)
        /\ c \in H!Ends =>
             HIs(x, Append(o, c), IF H!OpensRaw(tag) THEN "raw" ELSE "text", FALSE, m.held)
        /\ c \notin H!Ends /\ c # "sp" =>
             HIs(x, Append(o, c), IF c = "'" THEN "quoted" ELSE "tag", FALSE, m.held)
    BY StepTag DEF x, o, tag
  <2>2. QED
    BY <1>1, <2>1, Zenon
<1>4. \A g : at(g) \in {"text", "tag", "quoted", "raw"}
  OBVIOUS
<1>5. CASE c = "sp"
  <2>1. HIs(x, m.out, "tag", TRUE, <<>>) /\ x.tag = Append(m.tag, "sp")
    BY <1>3, <1>5
  <2> HIDE DEF x, r
  <2>2. x.at = "tag" /\ x.space /\ x.held = <<>> /\ x \in HStates /\ x.out = m.out
    BY <2>1 DEF HIs
  <2>3. SameTag(x.tag, r.tag, TRUE)
    BY <1>1, <2>1, SameTagSpace
  <2>4. SameTag(x.tag, r.tag, x.space)
    BY <2>2, <2>3, SameTagIs
  <2>5. HAgainAt(x, t)
    BY <1>1, <2>2, <2>4 DEF HAgainAt, r
  <2>6. HAgain(x, t)
    BY <1>1, <2>2, <2>5 DEF HAgain
  <2>7. QED
    BY <1>5, <2>6 DEF x
<1>6. CASE c # "sp" /\ (~ m.space \/ c \in {">", "'"})
  <2> DEFINE v == Append(t, c)
             y == HAfter(v)
             ytag == Append(r.tag, c)
  <2>1. v \in HText /\ v # <<>> /\ H!Last(v) = c /\ y = H!Step(r, c)
    BY HAppend, HAfterTyped
  <2>2. SameTag(tag, ytag, FALSE) /\ Len(tag) >= 2 /\ Len(ytag) >= 2
    <3> HIDE DEF r
    <3>1. r.tag \in HText /\ r.tag # <<>>
      BY <1>1 DEF SameTag
    <3>2. Len(r.tag) \in Nat /\ Len(r.tag) # 0
      BY <3>1, HTextFacts DEF HText
    <3>3. ~ m.space \/ c = ">" \/ Len(r.tag) # 1
      <4>1. CASE ~ m.space \/ c = ">"
        BY <4>1, Zenon
      <4>2. CASE m.space /\ c = "'"
        BY <1>1, <4>2, Zenon
      <4>3. QED
        BY <1>6, <4>1, <4>2, Zenon
    <3>4. Len(r.tag) # 1 => Len(r.tag) >= 2
      BY <3>2, AtLeastTwo, Zenon
    <3>5. ~ m.space \/ c = ">" \/ Len(r.tag) >= 2
      BY <3>3, <3>4, Zenon
    <3>6. SameTag(m.tag, r.tag, m.space)
      BY <1>1
    <3>7. QED
      BY <3>5, <3>6, SameTagItem, Zenon
  <2>3. HIs(x, Append(m.out, c), at(tag), FALSE, <<>>)
    BY <1>3, <1>6
  <2>4. y.tag = ytag /\ HIs(y, v, at(ytag), FALSE, <<>>)
    <3> HIDE DEF r, y, at, v
    <3>1. H!Step(r, c).tag = ytag
      BY <1>2, StepTag
    <3>2. HIs(H!Step(r, c), v, at(ytag), FALSE, <<>>)
      <4>1. LET w == IF r.space /\ c \notin {"'", ">"} THEN Append(r.out, "sp") ELSE r.out
            IN  HIs(H!Step(r, c), Append(w, c), at(ytag), FALSE, r.held)
        BY <1>2, <1>6, StepTag, Zenon DEF at
      <4>2. QED
        BY <1>2, <4>1 DEF v
    <3>3. QED
      BY <2>1, <3>1, <3>2
  <2>5. at(tag) = at(ytag)
    BY <2>2, SameTagOpens, Zenon
  <2> HIDE DEF x, r, y, at, v, tag, ytag
  <2>6. HLead(Append(m.out, c), v)
    BY <1>1, HLeadAppend DEF v
  <2>7. HDone(v)
    BY <1>4, <1>6, <2>1, <2>4, DoneAfter DEF y
  <2>8. HAgain(x, v)
    <3>1. /\ HIs(HAfter(v), v, at(tag), FALSE, <<>>) /\ SameTag(x.tag, HAfter(v).tag, FALSE)
          /\ H!Last(v) # "sp" /\ at(tag) \in {"text", "tag", "quoted", "raw"}
          /\ Len(HAfter(v).tag) >= 2
      BY <1>3, <1>4, <1>6, <2>1, <2>2, <2>4, <2>5 DEF y
    <3>2. QED
      BY <2>1, <2>3, <2>6, <2>7, <3>1, AgainInTag
  <2>9. QED
    BY <2>1, <2>3, <2>8 DEF x, HIs
<1>7. CASE m.space /\ c \notin {"sp", "'", ">"}
  <2> DEFINE u == Append(t, "sp")
             s == HAfter(u)
             stag == Append(r.tag, "sp")
             v == Append(u, c)
             y == HAfter(v)
             ytag == Append(stag, c)
  <2>1. /\ u \in HText /\ u # <<>> /\ s = H!Step(r, "sp")
        /\ v \in HText /\ v # <<>> /\ H!Last(v) = c /\ y = H!Step(s, c)
    <3>1. u \in HText /\ u # <<>> /\ s = H!Step(r, "sp")
      BY HAppend, HAfterTyped, HItems
    <3> HIDE DEF u
    <3>2. QED
      BY <3>1, HAppend, HAfterTyped
  <2>2. SameTag(tag, ytag, FALSE) /\ Len(tag) >= 2 /\ Len(ytag) >= 2
    BY <1>1, <1>7, SameTagSpaced
  <2>3. HIs(x, Append(Append(m.out, "sp"), c), at(tag), FALSE, <<>>)
    BY <1>3, <1>7
  <2>4. s.tag = stag /\ HIs(s, t, "tag", TRUE, <<>>)
    <3> HIDE DEF r, s
    <3>1. H!Step(r, "sp").tag = stag /\ HIs(H!Step(r, "sp"), r.out, "tag", TRUE, r.held)
      BY <1>2, StepTag, HItems
    <3>2. QED
      BY <1>2, <2>1, <3>1
  <2>5. y.tag = ytag /\ HIs(y, v, at(ytag), FALSE, <<>>)
    <3> HIDE DEF r, s, y, at, v, stag
    <3>1. s \in HStates /\ s.at = "tag" /\ s.out = t /\ s.space /\ s.held = <<>>
      BY <2>4 DEF HIs
    <3>2. H!Step(s, c).tag = ytag
      BY <2>4, <3>1, StepTag
    <3>3. HIs(H!Step(s, c), v, at(ytag), FALSE, <<>>)
      <4>1. LET w == IF s.space /\ c \notin {"'", ">"} THEN Append(s.out, "sp") ELSE s.out
            IN  HIs(H!Step(s, c), Append(w, c), at(ytag), FALSE, s.held)
        <5>1. ytag = Append(s.tag, c) /\ c # "sp"
          BY <1>7, <2>4
        <5>2. QED
          BY <3>1, <5>1, StepTag, Zenon DEF at
      <4>2. QED
        BY <1>7, <3>1, <4>1 DEF v
    <3>4. QED
      BY <2>1, <3>2, <3>3
  <2>6. at(tag) = at(ytag)
    BY <2>2, SameTagOpens, Zenon
  <2> HIDE DEF x, r, s, y, at, tag, ytag, stag
  <2>7. HLead(Append(Append(m.out, "sp"), c), v)
    <3>1. HLead(Append(m.out, "sp"), u)
      BY <1>1, HLeadAppend, HItems
    <3>2. QED
      BY <2>1, <3>1, HLeadAppend
  <2> HIDE DEF v
  <2>8. HDone(v)
    BY <1>4, <1>7, <2>1, <2>5, DoneAfter DEF y
  <2>9. HAgain(x, v)
    <3>1. /\ HIs(HAfter(v), v, at(tag), FALSE, <<>>) /\ SameTag(x.tag, HAfter(v).tag, FALSE)
          /\ H!Last(v) # "sp" /\ at(tag) \in {"text", "tag", "quoted", "raw"}
          /\ Len(HAfter(v).tag) >= 2
      BY <1>3, <1>4, <1>7, <2>1, <2>2, <2>5, <2>6 DEF y
    <3>2. QED
      BY <2>1, <2>3, <2>7, <2>8, <3>1, AgainInTag
  <2>10. QED
    BY <2>1, <2>3, <2>9 DEF x, HIs
<1>8. QED
  BY <1>5, <1>6, <1>7

LEMMA AgainAfterQuoted ==
    ASSUME NEW m \in HStates, m.at = "quoted", NEW t \in HText, HAgain(m, t),
           NEW c \in H!DocItems, H!IsMinifier(HText)
    PROVE  /\ \E v \in HText : HAgain(H!Step(m, c), v)
           /\ ~ H!Step(m, c).space
<1> DEFINE x == H!Step(m, c)
           r == HAfter(t)
           v == Append(t, c)
           y == HAfter(v)
           at == IF c = "'" THEN "tag" ELSE "quoted"
<1>1. /\ HLead(m.out, t) /\ HDone(t) /\ m.held = <<>> /\ t # <<>> /\ ~ m.space
      /\ HIs(r, t, "quoted", FALSE, <<>>) /\ SameTag(m.tag, r.tag, FALSE)
  BY DEF HAgain, HAgainAt
<1>2. r \in HStates /\ r.at = "quoted" /\ r.out = t /\ ~ r.space /\ r.held = <<>>
  BY <1>1 DEF HIs
<1>3. v \in HText /\ v # <<>> /\ H!Last(v) = c /\ y = H!Step(r, c)
  BY HAppend, HAfterTyped
<1> HIDE DEF at
<1>4. HIs(x, Append(m.out, c), at, FALSE, <<>>) /\ x.tag = Append(m.tag, c)
  <2>1. HIs(x, Append(m.out, c), at, m.space, m.held) /\ x.tag = Append(m.tag, c)
    BY StepQuoted DEF at
  <2>2. QED
    BY <1>1, <2>1 DEF HIs
<1> HIDE DEF x, r, y
<1>5. HIs(y, v, at, FALSE, <<>>) /\ y.tag = Append(r.tag, c)
  <2>1. HIs(H!Step(r, c), Append(r.out, c), at, r.space, r.held)
        /\ H!Step(r, c).tag = Append(r.tag, c)
    BY <1>2, StepQuoted DEF at
  <2>2. QED
    BY <1>2, <1>3, <2>1 DEF HIs
<1>6. SameTag(x.tag, y.tag, FALSE) /\ Len(y.tag) >= 2
  <2>1. SameTag(m.tag, r.tag, FALSE)
    BY <1>1
  <2>2. SameTag(Append(m.tag, c), Append(r.tag, c), FALSE) /\ Len(Append(r.tag, c)) >= 2
    BY <2>1, SameTagItem
  <2>3. QED
    BY <1>4, <1>5, <2>2
<1>7. HLead(Append(m.out, c), v)
  BY <1>1, HLeadAppend
<1>8. at \in {"tag", "quoted"}
  BY DEF at
<1>9. HDone(v)
  <2>1. CASE c = "sp"
    BY <1>1, <2>1, HDoneSpaced
  <2>2. CASE c # "sp"
    <3> HIDE DEF v
    <3>1. QED
      BY <1>3, <1>5, <1>8, <2>2, DoneAfter DEF y
  <2>3. QED
    BY <2>1, <2>2
<1> HIDE DEF v
<1>10. HAgain(x, v)
  BY <1>3, <1>4, <1>5, <1>6, <1>7, <1>8, <1>9, AgainInTag DEF y
<1>11. QED
  BY <1>3, <1>4, <1>10 DEF x, HIs

LEMMA AgainAfterClose ==
    ASSUME NEW m \in HStates, m.at = "close", NEW t \in HText, HAgain(m, t),
           NEW c \in H!DocItems, H!IsMinifier(HText)
    PROVE  /\ \E v \in HText : HAgain(H!Step(m, c), v)
           /\ H!Step(m, c).at # "tag"
<1> DEFINE x == H!Step(m, c)
           r == HAfter(t)
           v == Append(t, c)
           y == HAfter(v)
           at == IF c \in H!Ends THEN "text" ELSE "close"
<1>1. /\ HLead(m.out, t) /\ HDone(t) /\ m.held = <<>> /\ t # <<>> /\ ~ m.space
      /\ HIs(r, t, "close", FALSE, <<>>)
  BY DEF HAgain, HAgainAt
<1>2. r \in HStates /\ r.at = "close" /\ r.out = t /\ ~ r.space /\ r.held = <<>>
  BY <1>1 DEF HIs
<1>3. v \in HText /\ v # <<>> /\ H!Last(v) = c /\ y = H!Step(r, c)
  BY HAppend, HAfterTyped
<1> HIDE DEF at
<1>4. HIs(x, Append(m.out, c), at, FALSE, <<>>)
  <2>1. HIs(x, Append(m.out, c), at, m.space, m.held)
    BY StepClose DEF at
  <2>2. QED
    BY <1>1, <2>1 DEF HIs
<1> HIDE DEF x, r, y
<1>5. HIs(y, v, at, FALSE, <<>>)
  <2>1. HIs(H!Step(r, c), Append(r.out, c), at, r.space, r.held)
    BY <1>2, StepClose DEF at
  <2>2. QED
    BY <1>2, <1>3, <2>1 DEF HIs
<1>6. HLead(Append(m.out, c), v)
  BY <1>1, HLeadAppend
<1>7. at \in {"text", "close"} /\ (at = "text" => c # "sp")
  BY DEF at, H!Ends
<1>8. HDone(v)
  <2>1. CASE c = "sp"
    BY <1>1, <2>1, HDoneSpaced
  <2>2. CASE c # "sp"
    <3> HIDE DEF v
    <3>1. QED
      BY <1>3, <1>5, <1>7, <2>2, DoneAfter DEF y
  <2>3. QED
    BY <2>1, <2>2
<1> HIDE DEF v
<1>9. CASE at = "text"
  <2>1. TextAgain(v, y)
    BY <1>3, <1>5, <1>7, <1>9, TextAgainIs
  <2>2. HAgain(x, v)
    BY <1>3, <1>4, <1>6, <1>8, <1>9, <2>1, AgainText DEF HIs, y
  <2>3. QED
    BY <1>3, <1>4, <1>9, <2>2 DEF x, HIs
<1>10. CASE at = "close"
  <2>1. HAgainAt(x, v)
    BY <1>3, <1>4, <1>5, <1>10 DEF HAgainAt, HIs, y
  <2>2. HAgain(x, v)
    BY <1>3, <1>4, <1>6, <1>8, <2>1 DEF HAgain, HIs
  <2>3. QED
    BY <1>3, <1>4, <1>10, <2>2 DEF x, HIs
<1>11. QED
  BY <1>7, <1>9, <1>10

-----------------------------------------------------------------------------
(* The pass over what the pass has written: raw contents.                  *)

LEMMA CloserIs ==
    ASSUME NEW x
    PROVE  /\ H!CloserOf(x) \in H!DocItems /\ H!CloserOf(x) \notin H!Delim
           /\ H!CloserOf(x) # "sp" /\ H!CloserOf("<script") = "</script"
BY DEF H!CloserOf, H!DocItems, H!Delim

LEMMA StaysOpenAppend ==
    ASSUME NEW s \in HText, NEW c \in H!DocItems, NEW k
    PROVE  H!StaysOpen(Append(s, c), k)
             <=> H!StaysOpen(s, k) /\ (s # <<>> /\ H!Last(s) = k => c \notin H!Delim)
<1> DEFINE v == Append(s, c)
           n == Len(s)
<1>1. /\ n \in Nat /\ Len(v) = n + 1 /\ v[n + 1] = c /\ \A i \in 1..n : v[i] = s[i]
      /\ (s # <<>> <=> n > 0)
  BY HAppend, HTextFacts DEF HText
<1>2. H!Last(s) = s[n]
  BY DEF H!Last
<1> HIDE DEF v
<1>3. H!StaysOpen(v, k) <=> \A i \in 1..n : v[i] = k => v[i + 1] \notin H!Delim
  BY <1>1 DEF H!StaysOpen
<1>4. H!StaysOpen(s, k) <=> \A i \in 1..(n - 1) : s[i] = k => s[i + 1] \notin H!Delim
  BY DEF H!StaysOpen
<1> HIDE DEF n
<1>5. ASSUME H!StaysOpen(v, k)
      PROVE  H!StaysOpen(s, k) /\ (s # <<>> /\ H!Last(s) = k => c \notin H!Delim)
  <2>1. ASSUME NEW i \in 1..(n - 1), s[i] = k PROVE s[i + 1] \notin H!Delim
    <3>1. i \in 1..n /\ i + 1 \in 1..n
      BY <1>1
    <3>2. v[i] = k /\ v[i + 1] = s[i + 1]
      BY <1>1, <2>1, <3>1
    <3>3. QED
      BY <1>3, <1>5, <3>1, <3>2
  <2>2. ASSUME s # <<>>, H!Last(s) = k PROVE c \notin H!Delim
    <3>1. n \in 1..n
      BY <1>1, <2>2
    <3>2. v[n] = k /\ v[n + 1] = c
      BY <1>1, <1>2, <2>2, <3>1
    <3>3. QED
      BY <1>3, <1>5, <3>1, <3>2
  <2>3. QED
    BY <1>4, <2>1, <2>2
<1>6. ASSUME H!StaysOpen(s, k), s # <<>> /\ H!Last(s) = k => c \notin H!Delim
      PROVE  H!StaysOpen(v, k)
  <2>1. ASSUME NEW i \in 1..n, v[i] = k PROVE v[i + 1] \notin H!Delim
    <3>1. CASE i = n
      <4>1. s # <<>> /\ s[n] = k
        BY <1>1, <2>1, <3>1
      <4>2. QED
        BY <1>1, <1>2, <1>6, <3>1, <4>1
    <3>2. CASE i # n
      <4>1. i \in 1..(n - 1) /\ i + 1 \in 1..n
        BY <1>1, <3>2
      <4>2. s[i] = k /\ v[i + 1] = s[i + 1]
        BY <1>1, <2>1, <4>1
      <4>3. QED
        BY <1>4, <1>6, <4>1, <4>2
    <3>3. QED
      BY <3>1, <3>2
  <2>2. QED
    BY <1>3, <2>1
<1>7. QED
  BY <1>5, <1>6 DEF v

\* Contents that close nothing are held back.
LEMMA RawRun ==
    ASSUME NEW t \in HText, Raw(t), H!IsMinifier(HText),
           NEW k, k = H!CloserOf(HAfter(t).tag[1])
    PROVE  \A s \in HText : H!StaysOpen(s, k) =>
             HIs(HAfter(t \o s), t, "raw", FALSE, s) /\ HAfter(t \o s).tag = HAfter(t).tag
<1> DEFINE P(s) == H!StaysOpen(s, k) =>
             HIs(HAfter(t \o s), t, "raw", FALSE, s) /\ HAfter(t \o s).tag = HAfter(t).tag
           T == {n \in Nat : \A s \in HText : Len(s) = n => P(s)}
<1>1. 0 \in T
  <2>1. ASSUME NEW s \in HText, Len(s) = 0 PROVE P(s)
    <3>1. s = <<>>
      BY <2>1 DEF HText
    <3>2. t \o s = t
      BY <3>1, HConcat, HItems
    <3>3. QED
      BY <3>1, <3>2 DEF Raw
  <2>2. QED
    BY <2>1
<1>2. ASSUME NEW n \in Nat, n \in T PROVE n + 1 \in T
  <2>1. ASSUME NEW s \in HText, Len(s) = n + 1, H!StaysOpen(s, k)
        PROVE  HIs(HAfter(t \o s), t, "raw", FALSE, s) /\ HAfter(t \o s).tag = HAfter(t).tag
    <3> DEFINE f == H!Front(s)
               c == H!Last(s)
               r == HAfter(t \o f)
               y == HAfter(t \o s)
    <3>1. f \in HText /\ c \in H!DocItems /\ Len(f) = n /\ Append(f, c) = s
      <4>1. s # <<>>
        BY <1>2, <2>1, HItems
      <4>2. f \in HText /\ c \in H!DocItems /\ Len(f) = Len(s) - 1 /\ Append(f, c) = s
        BY <4>1, FrontFacts DEF HText
      <4>3. QED
        BY <1>2, <2>1, <4>2
    <3> HIDE DEF f, c
    <3>2. H!StaysOpen(f, k) /\ (f # <<>> /\ H!Last(f) = k => c \notin H!Delim)
      <4>1. H!StaysOpen(Append(f, c), k)
        BY <2>1, <3>1
      <4>2. QED
        BY <3>1, <4>1, StaysOpenAppend
    <3>3. HIs(r, t, "raw", FALSE, f) /\ r.tag = HAfter(t).tag
      BY <1>2, <3>1, <3>2
    <3>4. t \o f \in HText /\ t \o s = Append(t \o f, c)
      <4>1. t \o f \in HText /\ \A d \in H!DocItems : t \o Append(f, d) = Append(t \o f, d)
        BY <3>1, HConcat
      <4>2. QED
        BY <3>1, <4>1
    <3>5. y = H!Step(r, c)
      BY <3>1, <3>4, HAfterTyped
    <3>6. r \in HStates /\ r.at = "raw" /\ r.out = t /\ ~ r.space /\ r.held = f
      BY <3>3 DEF HIs
    <3> HIDE DEF r, y
    <3>7. ~ (H!Closer(r) /\ c \in H!Delim)
      BY <3>2, <3>3, <3>6 DEF H!Closer
    <3>8. HIs(H!Step(r, c), t, "raw", r.space, Append(f, c)) /\ H!Step(r, c).tag = r.tag
      BY <3>1, <3>6, <3>7, StepRaw
    <3>9. QED
      BY <3>1, <3>3, <3>5, <3>6, <3>8 DEF HIs, y
  <2>2. \A s \in HText : Len(s) = n + 1 => P(s)
    BY <2>1
  <2> HIDE DEF P
  <2>3. QED
    BY <2>2
<1> HIDE DEF P
<1>3. Nat \subseteq T
  <2> HIDE DEF T
  <2>1. QED
    BY <1>1, <1>2, Induction
<1>4. \A s \in HText : P(s)
  BY <1>3, HTextFacts
<1>5. QED
  BY <1>4 DEF P

\* What is written of contents reads as itself.
LEMMA RawContents ==
    ASSUME NEW m \in HStates, m.at = "raw", NEW t \in HText, HAgain(m, t), H!Closer(m),
           H!IsMinifier(HText), H!ContentsWell(m)
    PROVE  LET k == H!CloserOf(m.tag[1])
               s == H!Contents(m, H!Front(m.held))
               v == Append(t \o s, k)
           IN  /\ s \in HText /\ H!Last(m.held) = k /\ k \in H!DocItems
               /\ t \o s \in HText /\ v \in HText
               /\ HIs(HAfter(v), t, "raw", FALSE, Append(s, k))
               /\ H!Closer(HAfter(v)) /\ H!Contents(HAfter(v), s) = s
               /\ HDone(v)
<1> DEFINE k == H!CloserOf(m.tag[1])
           h == H!Front(m.held)
           s == H!Contents(m, h)
           v == Append(t \o s, k)
           r == HAfter(t)
           y == HAfter(v)
<1>1. Raw(t) /\ SameKind(m, r) /\ H!StaysOpen(m.held, k)
  BY DEF HAgain, HAgainAt
<1>2. m.held # <<>> /\ H!Last(m.held) = k /\ m.held \in HText
  BY HStateFacts DEF H!Closer
<1>3. k \in H!DocItems /\ k \notin H!Delim /\ k # "sp" /\ k = H!CloserOf(r.tag[1])
  BY <1>1, CloserIs DEF SameKind
<1>4. h \in HText /\ Append(h, k) = m.held /\ (H!Minifiable(m.tag) => H!MinifiesWell(h))
  BY <1>2, FrontFacts DEF HText, H!ContentsWell
<1> HIDE DEF h, k
<1>5. H!StaysOpen(h, k)
  <2>1. H!StaysOpen(Append(h, k), k)
    BY <1>1, <1>4
  <2>2. QED
    BY <1>3, <1>4, <2>1, StaysOpenAppend
<1>6. /\ s = IF H!Minifiable(m.tag) THEN Minify(h) ELSE h
      /\ \A u : H!Contents(y, u) = IF H!Minifiable(y.tag) THEN Minify(u) ELSE u
  BY DEF H!Contents
<1> HIDE DEF s
<1>7. s \in HText /\ H!StaysOpen(s, k) /\ (H!Minifiable(m.tag) => Minify(s) = s)
  <2>1. CASE H!Minifiable(m.tag)
    <3>1. k = "</script"
      BY <2>1, CloserIs DEF H!Minifiable, k
    <3>2. Minify(h) \in HText /\ Minify(Minify(h)) = Minify(h)
          /\ H!StaysOpen(Minify(h), "</script")
      BY <1>4, <2>1 DEF H!IsMinifier, H!MinifiesWell, HText
    <3>3. QED
      BY <1>6, <2>1, <3>1, <3>2
  <2>2. CASE ~ H!Minifiable(m.tag)
    BY <1>4, <1>5, <1>6, <2>2
  <2>3. QED
    BY <2>1, <2>2
<1>8. /\ Append(s, k) \in HText /\ t \o s \in HText /\ t \o Append(s, k) = v /\ v \in HText
      /\ H!Last(v) = k /\ v # <<>>
  <2>1. Append(s, k) \in HText
    BY <1>3, <1>7, HAppend
  <2>2. t \o s \in HText /\ \A d \in H!DocItems : t \o Append(s, d) = Append(t \o s, d)
    BY <1>7, HConcat
  <2>3. v \in HText /\ H!Last(v) = k /\ v # <<>>
    BY <1>3, <2>2, HAppend
  <2>4. QED
    BY <1>3, <2>1, <2>2, <2>3
<1>9. H!StaysOpen(Append(s, k), k)
  BY <1>3, <1>7, StaysOpenAppend
<1>10. HIs(y, t, "raw", FALSE, Append(s, k)) /\ y.tag = r.tag
  <2>1. \A u \in HText : H!StaysOpen(u, k) =>
          HIs(HAfter(t \o u), t, "raw", FALSE, u) /\ HAfter(t \o u).tag = r.tag
    BY <1>1, <1>3, RawRun
  <2>2. QED
    BY <1>8, <1>9, <2>1
<1> HIDE DEF r, y
<1>11. H!Last(Append(s, k)) = k /\ H!Front(Append(s, k)) = s /\ Append(s, k) # <<>>
  BY <1>3, <1>7, HAppend
<1>12. H!Closer(y)
  BY <1>3, <1>10, <1>11 DEF H!Closer, HIs
<1>13. H!Contents(y, s) = s
  <2>1. H!Minifiable(y.tag) <=> H!Minifiable(m.tag)
    BY <1>1, <1>10 DEF SameKind, H!Minifiable
  <2>2. QED
    BY <1>6, <1>7, <2>1
<1>14. H!Finish(y) = v
  <2>1. H!Finish(y) = y.out \o H!Contents(y, H!Front(y.held)) \o <<H!Last(y.held)>>
    BY <1>10, <1>12 DEF H!Finish, HIs
  <2>2. H!Finish(y) = (t \o s) \o <<k>>
    BY <1>10, <1>11, <1>13, <2>1 DEF HIs
  <2>3. (t \o s) \o <<k>> = v
    BY <1>3, <1>8, HAppend
  <2>4. QED
    BY <2>2, <2>3
<1>15. HDone(v)
  BY <1>3, <1>8, <1>14, HDoneIs DEF y
<1>16. QED
  BY <1>2, <1>3, <1>7, <1>8, <1>10, <1>12, <1>13, <1>15 DEF h, k, s, y

LEMMA AgainAfterRaw ==
    ASSUME NEW m \in HStates, m.at = "raw", NEW t \in HText, HAgain(m, t),
           NEW c \in H!DocItems, H!IsMinifier(HText), c \in H!Delim => H!ContentsWell(m)
    PROVE  /\ \E v \in HText : HAgain(H!Step(m, c), v)
           /\ H!Step(m, c).at # "tag"
<1> DEFINE x == H!Step(m, c)
           k == H!CloserOf(m.tag[1])
           over == H!Closer(m) /\ c \in H!Delim
<1>1. /\ HLead(m.out, t) /\ HDone(t) /\ t # <<>> /\ ~ m.space
      /\ Raw(t) /\ SameKind(m, HAfter(t)) /\ H!StaysOpen(m.held, k)
      /\ ~ H!Closer(m) => HDone(t \o m.held)
      /\ m.held \in HText
  BY HStateFacts DEF HAgain, HAgainAt
<1>2. CASE ~ over
  <2> DEFINE held == Append(m.held, c)
  <2>1. HIs(x, m.out, "raw", FALSE, held) /\ x.tag = m.tag
    <3>1. HIs(x, m.out, "raw", m.space, held) /\ x.tag = m.tag
      BY <1>2, StepRaw
    <3>2. QED
      BY <1>1, <3>1 DEF HIs
  <2>2. /\ held \in HText /\ H!Last(held) = c /\ held # <<>>
    BY <1>1, HAppend
  <2>3. H!StaysOpen(held, k)
    <3>1. m.held # <<>> /\ H!Last(m.held) = k => c \notin H!Delim
      BY <1>2 DEF H!Closer
    <3>2. QED
      BY <1>1, <3>1, StaysOpenAppend
  <2>4. t \o m.held \in HText /\ t \o held = Append(t \o m.held, c)
    <3>1. t \o m.held \in HText
          /\ \A d \in H!DocItems : t \o Append(m.held, d) = Append(t \o m.held, d)
      BY <1>1, HConcat
    <3>2. QED
      BY <3>1
  <2> HIDE DEF x, held, k
  <2>5. x \in HStates /\ x.out = m.out /\ x.at = "raw" /\ ~ x.space /\ x.held = held
    BY <2>1 DEF HIs
  <2>6. SameKind(x, HAfter(t)) /\ H!StaysOpen(x.held, H!CloserOf(x.tag[1]))
    BY <1>1, <2>1, <2>3, <2>5 DEF SameKind, k
  <2>7. ASSUME ~ H!Closer(x) PROVE HDone(t \o x.held)
    <3>1. c # k
      BY <2>1, <2>2, <2>5, <2>7 DEF H!Closer, k
    <3>2. CASE c = "sp"
      <4>1. ~ H!Closer(m)
        BY <1>2, <3>2 DEF H!Delim
      <4>2. HDone(Append(t \o m.held, "sp"))
        BY <1>1, <2>4, <4>1, HDoneSpaced
      <4>3. QED
        BY <2>4, <2>5, <3>2, <4>2
    <3>3. CASE c # "sp"
      <4> DEFINE v == t \o held
                 y == HAfter(v)
      <4>1. HIs(y, t, "raw", FALSE, held) /\ y.tag = HAfter(t).tag
        <5>1. k = H!CloserOf(HAfter(t).tag[1])
          BY <1>1 DEF SameKind, k
        <5>2. QED
          BY <1>1, <2>2, <2>3, <5>1, RawRun
      <4>2. v \in HText /\ v # <<>> /\ H!Last(v) = c
        BY <2>4, HAppend
      <4> HIDE DEF y, v
      <4>3. ~ H!Closer(y)
        BY <1>1, <2>2, <3>1, <4>1 DEF H!Closer, HIs, SameKind, k
      <4>4. H!Finish(y) = v
        BY <4>1, <4>3 DEF H!Finish, HIs, v
      <4>5. HDone(v)
        BY <3>3, <4>2, <4>4, HDoneIs DEF y
      <4>6. QED
        BY <2>5, <4>5 DEF v
    <3>4. QED
      BY <3>2, <3>3
  <2>8. HAgainAt(x, t)
    BY <1>1, <2>5, <2>6, <2>7 DEF HAgainAt
  <2>9. HAgain(x, t)
    BY <1>1, <2>5, <2>8 DEF HAgain
  <2>10. QED
    BY <2>5, <2>9 DEF x
<1>3. CASE over
  <2> DEFINE s == H!Contents(m, H!Front(m.held))
             u == Append(t \o s, k)
             r == HAfter(u)
             v == Append(u, c)
             y == HAfter(v)
             at == IF c = ">" THEN "text" ELSE "close"
             o == m.out \o s \o <<k, c>>
  <2>1. /\ s \in HText /\ H!Last(m.held) = k /\ k \in H!DocItems
        /\ t \o s \in HText /\ u \in HText
        /\ HIs(r, t, "raw", FALSE, Append(s, k))
        /\ H!Closer(r) /\ H!Contents(r, s) = s /\ HDone(u)
    BY <1>3, RawContents
  <2>2. HIs(x, o, at, FALSE, <<>>)
    <3>1. HIs(x, m.out \o s \o <<H!Last(m.held), c>>, at, m.space, <<>>)
      BY <1>3, StepRaw
    <3>2. QED
      BY <1>1, <2>1, <3>1 DEF HIs
  <2>3. /\ v \in HText /\ v # <<>> /\ H!Last(v) = c /\ y = H!Step(r, c)
        /\ H!Last(Append(s, k)) = k /\ H!Front(Append(s, k)) = s
    <3>1. H!Last(Append(s, k)) = k /\ H!Front(Append(s, k)) = s
      BY <2>1, HAppend
    <3> HIDE DEF u, k, s
    <3>2. v \in HText /\ v # <<>> /\ H!Last(v) = c /\ y = H!Step(r, c)
      BY <2>1, HAppend, HAfterTyped
    <3>3. QED
      BY <3>1, <3>2
  <2> HIDE DEF x, s, k, at, r, y
  <2>4. \A p \in HText : p \o <<k, c>> = Append(Append(p, k), c)
    <3>1. <<k>> \in HText /\ <<k, c>> = Append(<<k>>, c)
      BY <2>1, HItems
    <3>2. ASSUME NEW p \in HText PROVE p \o <<k, c>> = Append(Append(p, k), c)
      <4>1. p \o Append(<<k>>, c) = Append(p \o <<k>>, c)
        BY <3>1, HConcat
      <4>2. p \o <<k>> = Append(p, k)
        BY <2>1, HAppend
      <4>3. QED
        BY <3>1, <4>1, <4>2
    <3>3. QED
      BY <3>2
  <2>5. HIs(y, v, at, FALSE, <<>>)
    <3>1. r \in HStates /\ r.at = "raw" /\ r.out = t /\ ~ r.space /\ r.held = Append(s, k)
      BY <2>1 DEF HIs
    <3>2. HIs(H!Step(r, c), r.out \o H!Contents(r, H!Front(r.held)) \o <<H!Last(r.held), c>>,
              at, r.space, <<>>)
      BY <1>3, <2>1, <3>1, StepRaw DEF at
    <3>3. H!Contents(r, H!Front(r.held)) = s /\ H!Last(r.held) = k
      BY <2>1, <2>3, <3>1
    <3>4. (t \o s) \o <<k, c>> = v
      BY <2>1, <2>4
    <3>5. QED
      BY <2>3, <3>1, <3>2, <3>3, <3>4 DEF HIs
  <2>6. HLead(o, v) /\ u # <<>>
    <3>1. HLead(m.out \o s, t \o s)
      BY <1>1, <2>1, HLeadConcat
    <3>2. m.out \o s \in HText
      BY <2>1, HTextFacts, HStateFacts
    <3>3. o = Append(Append(m.out \o s, k), c)
      BY <2>4, <3>2
    <3>4. HLead(Append(m.out \o s, k), u) /\ u # <<>>
      <4>1. k # "sp"
        BY CloserIs DEF k
      <4>2. QED
        BY <2>1, <3>1, <4>1, HLeadAppend, HAppend
    <3>5. HLead(Append(Append(m.out \o s, k), c), v)
      <4> HIDE DEF u
      <4>1. QED
        BY <3>4, HLeadAppend
    <3>6. QED
      BY <3>3, <3>4, <3>5
  <2>7. at \in {"text", "close"} /\ (at = "text" => c # "sp")
    BY DEF at
  <2>8. HDone(v)
    <3>1. CASE c = "sp"
      BY <2>1, <3>1, HDoneSpaced
    <3>2. CASE c # "sp"
      <4> HIDE DEF v
      <4>1. QED
        BY <2>3, <2>5, <2>7, <3>2, DoneAfter DEF y
    <3>3. QED
      BY <3>1, <3>2
  <2> HIDE DEF v, u, o
  <2>9. v # <<>> /\ v \in HText
    BY <2>3
  <2>10. CASE at = "text"
    <3>1. TextAgain(v, y)
      BY <2>3, <2>5, <2>7, <2>10, TextAgainIs
    <3>2. HAgain(x, v)
      BY <2>2, <2>3, <2>6, <2>8, <2>10, <3>1, AgainText DEF HIs, y
    <3>3. QED
      BY <2>2, <2>3, <2>10, <3>2 DEF x, HIs
  <2>11. CASE at = "close"
    <3>1. HAgainAt(x, v)
      BY <2>2, <2>3, <2>5, <2>11 DEF HAgainAt, HIs, y
    <3>2. HAgain(x, v)
      BY <2>2, <2>3, <2>6, <2>8, <3>1 DEF HAgain, HIs
    <3>3. QED
      BY <2>2, <2>3, <2>11, <3>2 DEF x, HIs
  <2>12. QED
    BY <2>7, <2>10, <2>11
<1>4. QED
  BY <1>2, <1>3

-----------------------------------------------------------------------------
(* HTML of what HTML has returned.                                         *)

\* Each step keeps HAgain, but for a stray quote and for a script that is not
\* minified well; and a space is pending in a tag only after one.
LEMMA AgainAfter ==
    ASSUME NEW m, NEW t \in HText, HAgain(m, t), NEW c \in H!DocItems,
           m.at = "tag" /\ m.space /\ c = "'" => H!Last(m.out) = "=",
           c \in H!Delim => H!ContentsWell(m), H!IsMinifier(HText)
    PROVE  /\ \E v \in HText : HAgain(H!Step(m, c), v)
           /\ H!Step(m, c).at = "tag" /\ H!Step(m, c).space => c = "sp"
<1>1. m \in HStates
  BY DEF HAgain
<1>2. m.at \in HAts
  BY <1>1, HStateFacts
<1>3. CASE m.at = "text"
  BY <1>1, <1>3, AgainAfterText
<1>4. CASE m.at = "comment"
  BY <1>1, <1>4, AgainAfterComment
<1>5. CASE m.at = "tag"
  BY <1>1, <1>5, AgainAfterTag
<1>6. CASE m.at = "quoted"
  BY <1>1, <1>6, AgainAfterQuoted
<1>7. CASE m.at = "raw"
  BY <1>1, <1>7, AgainAfterRaw
<1>8. CASE m.at = "close"
  BY <1>1, <1>8, AgainAfterClose
<1>9. QED
  BY <1>2, <1>3, <1>4, <1>5, <1>6, <1>7, <1>8 DEF HAts

\* No quote is stray, and each script that ends is minified well.
Plain(d) ==
    /\ H!NoStrayQuote(d)
    /\ \A i \in 1..Len(d) : d[i] \in H!Delim => H!ContentsWell(H!Passes(d)[i - 1])

LEMMA PlainLast ==
    ASSUME NEW s \in HText, NEW c \in H!DocItems, Plain(Append(s, c)), H!IsMinifier(HText)
    PROVE  /\ Plain(s)
           /\ s # <<>> /\ H!Last(s) = "sp" /\ HAfter(s).at = "tag" /\ c = "'"
              => H!Last(HAfter(s).out) = "="
           /\ c \in H!Delim => H!ContentsWell(HAfter(s))
<1> DEFINE d == Append(s, c)
           n == Len(s)
           g == H!Passes(s)
           h == H!Passes(d)
           Kept(m) == m.at = "tag" => H!Last(m.out) = "="
<1>1. /\ n \in Nat /\ Len(d) = n + 1 /\ d[n + 1] = c /\ \A i \in 1..n : d[i] = s[i]
      /\ (s # <<>> <=> n > 0)
  BY HAppend, HTextFacts DEF HText
<1>2. \A k \in 0..n : h[k] = g[k]
  BY HPrefix
<1>3. /\ \A i \in 2..(n + 1) : d[i] = "'" /\ d[i - 1] = "sp" => Kept(h[i - 1])
      /\ \A i \in 1..(n + 1) : d[i] \in H!Delim => H!ContentsWell(h[i - 1])
  BY <1>1 DEF H!NoStrayQuote, Plain
<1>4. H!Last(s) = s[n] /\ HAfter(s) = g[n]
  BY DEF H!Last, HAfter
<1>5. Plain(s) <=> /\ \A i \in 2..n : s[i] = "'" /\ s[i - 1] = "sp" => Kept(g[i - 1])
                   /\ \A i \in 1..n : s[i] \in H!Delim => H!ContentsWell(g[i - 1])
  BY DEF H!NoStrayQuote, Plain
<1> HIDE DEF d, n, g, h, Kept
<1>6. Plain(s)
  <2>1. ASSUME NEW i \in 2..n, s[i] = "'", s[i - 1] = "sp" PROVE Kept(g[i - 1])
    <3>1. i \in 2..(n + 1) /\ i \in 1..n /\ i - 1 \in 1..n /\ i - 1 \in 0..n
      BY <1>1
    <3>2. d[i] = "'" /\ d[i - 1] = "sp" /\ h[i - 1] = g[i - 1]
      BY <1>1, <1>2, <2>1, <3>1
    <3>3. QED
      BY <1>3, <3>1, <3>2
  <2>2. ASSUME NEW i \in 1..n, s[i] \in H!Delim PROVE H!ContentsWell(g[i - 1])
    <3>1. i \in 1..(n + 1) /\ i - 1 \in 0..n
      BY <1>1
    <3>2. d[i] \in H!Delim /\ h[i - 1] = g[i - 1]
      BY <1>1, <1>2, <2>2, <3>1
    <3>3. QED
      BY <1>3, <3>1, <3>2
  <2>3. QED
    BY <1>5, <2>1, <2>2
<1>7. ASSUME s # <<>>, H!Last(s) = "sp", c = "'" PROVE Kept(HAfter(s))
  <2>1. n + 1 \in 2..(n + 1) /\ n \in 1..n /\ n \in 0..n /\ (n + 1) - 1 = n
    BY <1>1, <1>7
  <2>2. d[n + 1] = "'" /\ d[n] = "sp" /\ h[n] = HAfter(s)
    BY <1>1, <1>2, <1>4, <1>7, <2>1
  <2>3. QED
    BY <1>3, <2>1, <2>2
<1>8. ASSUME c \in H!Delim PROVE H!ContentsWell(HAfter(s))
  <2>1. n + 1 \in 1..(n + 1) /\ n \in 0..n /\ (n + 1) - 1 = n
    BY <1>1
  <2>2. d[n + 1] \in H!Delim /\ h[n] = HAfter(s)
    BY <1>1, <1>2, <1>4, <1>8, <2>1
  <2>3. QED
    BY <1>3, <2>1, <2>2
<1>9. QED
  BY <1>6, <1>7, <1>8 DEF Kept

\* Every such document ends in HAgain.
LEMMA AgainAll ==
    ASSUME H!IsMinifier(HText)
    PROVE  \A d \in HText : Plain(d) => \E t \in HText : HAgain(HAfter(d), t)
<1> DEFINE P(d) == /\ \E t \in HText : HAgain(HAfter(d), t)
                   /\ HAfter(d).at = "tag" /\ HAfter(d).space => d # <<>> /\ H!Last(d) = "sp"
           T == {n \in Nat : \A d \in HText : Len(d) = n /\ Plain(d) => P(d)}
<1>1. 0 \in T
  <2>1. P(<<>>)
    <3>1. HAfter(<<>>) = H!Start /\ H!Start \in HStates
      BY HAfterNothing, HAfterTyped, HItems
    <3>2. HIs(H!Start, <<>>, "text", FALSE, <<>>)
      BY <3>1 DEF HIs, H!Start
    <3>3. TextAgain(<<>>, H!Start)
      BY <3>2, HItems, TextAgainIs
    <3>4. HDone(<<>>)
      BY <3>1, <3>3, HItems, TextAgainSpaced, HDoneIs
    <3>5. HLead(<<>>, <<>>)
      BY HItems DEF HLead
    <3>6. HAgain(H!Start, <<>>)
      BY <3>1, <3>2, <3>3, <3>4, <3>5, HItems, AgainText DEF HIs
    <3>7. H!Start.at # "tag"
      BY DEF H!Start
    <3>8. QED
      BY <3>1, <3>6, <3>7, HItems
  <2>2. \A d \in HText : Len(d) = 0 => d = <<>>
    BY DEF HText
  <2> HIDE DEF P
  <2>3. QED
    BY <2>1, <2>2
<1>2. ASSUME NEW n \in Nat, n \in T PROVE n + 1 \in T
  <2>1. ASSUME NEW d \in HText, Len(d) = n + 1, Plain(d) PROVE P(d)
    <3> DEFINE s == H!Front(d)
               c == H!Last(d)
               m == HAfter(s)
    <3>1. s \in HText /\ c \in H!DocItems /\ Len(s) = n /\ Append(s, c) = d /\ d # <<>>
      <4>1. d # <<>>
        BY <1>2, <2>1, HItems
      <4>2. s \in HText /\ c \in H!DocItems /\ Len(s) = Len(d) - 1 /\ Append(s, c) = d
        BY <4>1, FrontFacts DEF HText
      <4>3. QED
        BY <1>2, <2>1, <4>1, <4>2
    <3>2. /\ Plain(s)
          /\ s # <<>> /\ H!Last(s) = "sp" /\ m.at = "tag" /\ c = "'" => H!Last(m.out) = "="
          /\ c \in H!Delim => H!ContentsWell(m)
      <4>1. Plain(Append(s, c))
        BY <2>1, <3>1
      <4> HIDE DEF s, c
      <4>2. QED
        BY <3>1, <4>1, PlainLast
    <3>3. P(s)
      <4> HIDE DEF P, s
      <4>1. QED
        BY <1>2, <3>1, <3>2
    <3>4. HAfter(d) = H!Step(m, c)
      <4>1. HAfter(Append(s, c)) = H!Step(m, c)
        BY <3>1, HAfterTyped
      <4>2. QED
        BY <3>1, <4>1
    <3> HIDE DEF s, c, m
    <3>5. PICK t \in HText : HAgain(m, t)
      BY <3>3 DEF m
    <3>6. m.at = "tag" /\ m.space /\ c = "'" => H!Last(m.out) = "="
      BY <3>2, <3>3 DEF m
    <3>7. /\ \E v \in HText : HAgain(H!Step(m, c), v)
          /\ H!Step(m, c).at = "tag" /\ H!Step(m, c).space => c = "sp"
      BY <3>1, <3>2, <3>5, <3>6, AgainAfter
    <3>8. QED
      BY <3>1, <3>4, <3>7 DEF c
  <2>2. \A d \in HText : Len(d) = n + 1 /\ Plain(d) => P(d)
    BY <2>1
  <2> HIDE DEF P
  <2>3. QED
    BY <2>2
<1>3. Nat \subseteq T
  <2> HIDE DEF T
  <2>1. QED
    BY <1>1, <1>2, Induction
<1>4. ASSUME NEW d \in HText, Plain(d) PROVE P(d)
  <2>1. Len(d) \in T
    BY <1>3, HTextFacts
  <2> HIDE DEF P
  <2>2. QED
    BY <1>4, <2>1
<1>5. QED
  BY <1>4

LEMMA DoneIsHTML ==
    ASSUME NEW o, NEW t, HLead(o, t), HDone(t)
    PROVE  H!TrimSpace(o) \in HText /\ H!HTML(H!TrimSpace(o)) = H!TrimSpace(o)
<1>1. PICK u \in HText : HTrail(t, u) /\ H!Finish(HAfter(u)) = u
  BY DEF HDone
<1>2. H!TrimSpace(o) = u
  BY <1>1, HTrimIs
<1>3. t \in HText /\ Len(t) \in Nat /\ Len(u) \in Nat
  BY HTextFacts DEF HLead
<1>4. HTrail(u, u)
  BY <1>1, <1>3 DEF HTrail
<1>5. u # <<>> => u[1] # "sp"
  <2>1. ASSUME u # <<>> PROVE u[1] # "sp"
    <3>1. 1 \in 1..Len(u) /\ t # <<>>
      BY <1>1, <1>3, <2>1 DEF HTrail, HText
    <3>2. QED
      BY <1>1, <3>1 DEF HTrail, HLead
  <2>2. QED
    BY <2>1
<1>6. HLead(u, u)
  BY <1>5 DEF HLead
<1>7. H!TrimSpace(u) = u
  BY <1>4, <1>6, HTrimIs
<1>8. H!HTML(u) = H!TrimSpace(H!Finish(HAfter(u)))
  BY DEF H!HTML, HAfter
<1>9. QED
  BY <1>1, <1>2, <1>7, <1>8

\* What the end of the document adds reads as itself, too.
LEMMA AgainFinish ==
    ASSUME NEW m, NEW t \in HText, HAgain(m, t), H!IsMinifier(HText), H!ContentsWell(m)
    PROVE  \E v \in HText : HLead(H!Finish(m), v) /\ HDone(v)
<1>1. /\ m \in HStates /\ HLead(m.out, t) /\ HDone(t) /\ HAgainAt(m, t)
      /\ m.out \in HText /\ m.held \in HText /\ m.at \in HAts
  BY HStateFacts DEF HAgain
<1>2. CASE m.at = "text"
  <2>1. H!Finish(m) = H!Spaced(m).out
    BY <1>2 DEF H!Finish
  <2>2. TextAgain(t, HAfter(t))
    BY <1>1, <1>2 DEF HAgainAt
  <2>3. QED
    BY <1>1, <1>2, <2>1, <2>2, SpacedAgain
<1>3. CASE m.at = "raw" /\ ~ H!Closer(m)
  <2>1. H!Finish(m) = m.out \o m.held
    BY <1>3 DEF H!Finish
  <2>2. t # <<>> /\ HDone(t \o m.held)
    BY <1>1, <1>3 DEF HAgainAt
  <2>3. t \o m.held \in HText /\ HLead(m.out \o m.held, t \o m.held)
    BY <1>1, <2>2, HConcat, HLeadConcat
  <2>4. QED
    BY <2>1, <2>2, <2>3
<1>4. CASE m.at = "raw" /\ H!Closer(m)
  <2> DEFINE k == H!CloserOf(m.tag[1])
             s == H!Contents(m, H!Front(m.held))
             v == Append(t \o s, k)
  <2>1. H!Finish(m) = m.out \o s \o <<H!Last(m.held)>>
    BY <1>4 DEF H!Finish
  <2>2. /\ s \in HText /\ H!Last(m.held) = k /\ k \in H!DocItems
        /\ v \in HText /\ HDone(v)
    BY <1>1, <1>4, RawContents
  <2>3. k # "sp"
    BY CloserIs
  <2>4. t # <<>>
    BY <1>1, <1>4 DEF HAgainAt
  <2> HIDE DEF s, k
  <2>5. HLead(m.out \o s, t \o s) /\ m.out \o s \in HText
    BY <1>1, <2>2, <2>4, HLeadConcat, HTextFacts
  <2>6. HLead(Append(m.out \o s, k), v)
    BY <2>2, <2>3, <2>5, HLeadAppend
  <2>7. H!Finish(m) = Append(m.out \o s, k)
    <3>1. (m.out \o s) \o <<k>> = Append(m.out \o s, k)
      BY <2>2, <2>5, HAppend
    <3>2. QED
      BY <2>1, <2>2, <3>1
  <2>8. QED
    BY <2>2, <2>6, <2>7
<1>5. CASE m.at \in {"comment", "tag", "quoted", "close"}
  <2>1. H!Finish(m) = m.out
    BY <1>5 DEF H!Finish
  <2>2. QED
    BY <1>1, <2>1
<1>6. QED
  BY <1>1, <1>2, <1>3, <1>4, <1>5 DEF HAts

\* HTML of a document that HTML has written changes nothing.
LEMMA HTMLAgain ==
    ASSUME NEW d \in HText, H!NoStrayQuote(d), H!ScriptsWell(d), H!IsMinifier(HText)
    PROVE  H!HTML(H!HTML(d)) = H!HTML(d)
<1>0. Plain(d) /\ H!ContentsWell(HAfter(d))
  BY DEF Plain, H!ScriptsWell, HAfter, HText
<1>1. PICK t \in HText : HAgain(HAfter(d), t)
  BY <1>0, AgainAll
<1>2. PICK v \in HText : HLead(H!Finish(HAfter(d)), v) /\ HDone(v)
  BY <1>0, <1>1, AgainFinish
<1>3. H!HTML(d) = H!TrimSpace(H!Finish(HAfter(d)))
  BY DEF H!HTML, HAfter
<1>4. QED
  BY <1>2, <1>3, DoneIsHTML

-----------------------------------------------------------------------------
(* How much the passes write.                                              *)

\* m has written no more than n items, the pending space included.
CSmall(m, n) ==
    /\ m.depth <= n /\ Len(m.out) <= n
    /\ m.space => Len(m.out) + 1 <= n

\* An item is written with at most the space that was pending.
LEMMA EmitSmall ==
    ASSUME NEW m \in CStates, NEW c \in CItems, c # "comment", NEW n \in Nat,
           m.depth <= n + 1, Len(m.out) <= n, m.space => Len(m.out) + 1 <= n
    PROVE  CSmall(C!Emit(m, c), n + 1)
<1> DEFINE f == C!Flushed(m, c)
<1>1. f \in CText /\ m.out \in CText
  BY FlushedTyped DEF CText, CStates
<1>2. f = m.out \/ (m.space /\ f = Append(m.out, "sp"))
  BY DEF C!Flushed
<1>3. C!Emit(m, c) = [out |-> Append(f, c), depth |-> m.depth, space |-> FALSE]
  BY DEF C!Emit
<1> HIDE DEF f
<1>4. Len(m.out) \in Nat /\ Len(Append(m.out, "sp")) = Len(m.out) + 1
      /\ Len(f) \in Nat /\ Len(Append(f, c)) = Len(f) + 1
  BY <1>1 DEF CText
<1>5. Len(f) <= n
  BY <1>2, <1>4
<1>6. Len(Append(f, c)) <= n + 1
  BY <1>4, <1>5
<1>7. QED
  BY <1>3, <1>6 DEF CSmall

LEMMA CStepSmall ==
    ASSUME NEW m \in CStates, NEW c \in CItems, NEW n \in Nat, CSmall(m, n)
    PROVE  CSmall(C!Step(m, c), n + 1)
<1>1. /\ m.out \in CText /\ m.depth \in Nat /\ Len(m.out) \in Nat
      /\ m.depth <= n /\ Len(m.out) <= n /\ (m.space => Len(m.out) + 1 <= n)
  BY DEF CSmall, CStates, CText
<1>2. CASE c \in {"sp", "comment"}
  <2>1. C!Step(m, c) = [m EXCEPT !.space = TRUE]
    BY <1>2, Zenon DEF C!Step
  <2>2. C!Step(m, c).depth = m.depth /\ C!Step(m, c).out = m.out
    BY <2>1 DEF CStates
  <2>3. QED
    BY <1>1, <2>2 DEF CSmall
<1>3. CASE c \in {"(", ")"}
  <2> DEFINE d == IF c = "(" THEN m.depth + 1 ELSE IF m.depth > 0 THEN m.depth - 1 ELSE 0
             w == [m EXCEPT !.depth = d]
  <2>1. C!Step(m, c) = C!Emit(w, c)
    <3>1. CASE c = "("
      BY <3>1 DEF C!Step
    <3>2. CASE c = ")"
      BY <3>2 DEF C!Step
    <3>3. QED
      BY <1>3, <3>1, <3>2
  <2>2. d \in Nat /\ d <= n + 1
    <3>1. d \in {m.depth + 1, m.depth - 1, 0} /\ d >= 0
      BY <1>1
    <3> HIDE DEF d
    <3>2. QED
      BY <1>1, <3>1
  <2> HIDE DEF d
  <2>3. w \in CStates /\ w.depth = d /\ w.out = m.out /\ (w.space <=> m.space)
    BY <2>2 DEF CStates
  <2> HIDE DEF w
  <2>4. CSmall(C!Emit(w, c), n + 1)
    BY <1>1, <1>3, <2>2, <2>3, EmitSmall
  <2>5. QED
    BY <2>1, <2>4
<1>4. CASE c = "semi"
  <2>1. C!Step(m, c) = C!Semicolon(m)
    BY <1>4 DEF C!Step
  <2>2. C!Semicolon(m) \in {m, [m EXCEPT !.space = FALSE], C!Emit(m, "semi")}
    BY DEF C!Semicolon
  <2>3. CSmall(m, n + 1)
    BY <1>1 DEF CSmall
  <2>4. CSmall([m EXCEPT !.space = FALSE], n + 1)
    <3> DEFINE w == [m EXCEPT !.space = FALSE]
    <3>1. w.depth = m.depth /\ w.out = m.out /\ ~ w.space
      BY DEF CStates
    <3> HIDE DEF w
    <3>2. CSmall(w, n + 1)
      BY <1>1, <3>1 DEF CSmall
    <3>3. QED
      BY <3>2 DEF w
  <2>5. CSmall(C!Emit(m, c), n + 1)
    BY <1>1, <1>4, EmitSmall
  <2>6. QED
    BY <1>4, <2>1, <2>2, <2>3, <2>4, <2>5
<1>5. CASE c = "rbrace"
  <2> DEFINE out  == IF m.out # <<>> /\ C!Last(m.out) = "semi" THEN C!Front(m.out) ELSE m.out
             back == [m EXCEPT !.out = out]
  <2>1. out \in CText /\ Len(out) \in Nat /\ Len(out) <= Len(m.out)
    BY <1>1 DEF CText, C!Front, C!Last
  <2>2. C!Step(m, c) = C!Emit(back, c)
    BY <1>5 DEF C!Step, C!CloseBrace
  <2> HIDE DEF out
  <2>3. back \in CStates /\ back.depth = m.depth /\ back.out = out /\ (back.space <=> m.space)
    BY <2>1 DEF CStates, CText
  <2> HIDE DEF back
  <2>4. CSmall(C!Emit(back, c), n + 1)
    BY <1>1, <1>5, <2>1, <2>3, EmitSmall
  <2>5. QED
    BY <2>2, <2>4
<1>6. CASE c \notin {"sp", "comment", "(", ")", "semi", "rbrace"}
  <2>1. C!Step(m, c) = C!Emit(m, c)
    BY <1>6 DEF C!Step
  <2>2. QED
    BY <1>1, <1>6, <2>1, EmitSmall
<1>7. QED
  BY <1>2, <1>3, <1>4, <1>5, <1>6

\* No pass has written and held more than it has read.
\* The tag that the pass is in, or has raw contents of, opens no script.
NoScript(m) ==
    m.at \in {"tag", "quoted", "raw"} => m.tag # <<>> /\ m.tag[1] # "<script"

LEMMA StepNoScript ==
    ASSUME NEW m \in HStates, NoScript(m), NEW c \in H!DocItems, c # "<script",
           H!IsMinifier(HText)
    PROVE  NoScript(H!Step(m, c))
<1> DEFINE x == H!Step(m, c)
<1>1. CASE m.at = "text"
  <2>1. x.at \in {"text", "comment"} \/ (x.at = "tag" /\ x.tag = <<c>>)
    BY <1>1, StepText DEF HIs
  <2> HIDE DEF x
  <2>2. <<c>> # <<>> /\ <<c>>[1] = c
    OBVIOUS
  <2>3. QED
    BY <2>1, <2>2 DEF NoScript, x
<1>2. CASE m.at \in {"tag", "quoted"}
  <2>1. x.tag = Append(m.tag, c)
    BY <1>2, StepTag, StepQuoted
  <2>2. m.tag # <<>> /\ m.tag[1] # "<script" /\ m.tag \in HText
    BY <1>2, HStateFacts DEF NoScript
  <2>3. Append(m.tag, c) # <<>> /\ Append(m.tag, c)[1] = m.tag[1]
    BY <2>2, TagAppend
  <2>4. QED
    BY <2>1, <2>2, <2>3 DEF NoScript
<1>3. CASE m.at = "raw"
  <2>1. x.tag = m.tag
    BY <1>3, StepRaw
  <2>2. QED
    BY <1>3, <2>1 DEF NoScript
<1>4. CASE m.at \in {"comment", "close"}
  <2>1. x.at \in {"text", "comment", "close"}
    BY <1>4, StepComment, StepClose DEF HIs
  <2>2. QED
    BY <2>1 DEF NoScript
<1>5. QED
  BY <1>1, <1>2, <1>3, <1>4, HStateFacts DEF HAts

\* The last item of d, and that what comes before it has no script if d has none.
LEMMA NoScriptLast ==
    ASSUME NEW s \in HText, NEW c \in H!DocItems, ~ H!Contains(Append(s, c), "<script")
    PROVE  ~ H!Contains(s, "<script") /\ c # "<script"
<1> DEFINE d == Append(s, c)
           n == Len(s)
<1>1. /\ n \in Nat /\ Len(d) = n + 1 /\ d[n + 1] = c /\ \A i \in 1..n : d[i] = s[i]
  BY HAppend, HTextFacts DEF HText
<1>2. H!Contains(s, "<script") <=> \E i \in 1..n : s[i] = "<script"
  BY DEF H!Contains
<1>3. \A i \in 1..(n + 1) : d[i] # "<script"
  BY <1>1 DEF H!Contains
<1> HIDE DEF d, n
<1>4. QED
  BY <1>1, <1>2, <1>3

LEMMA HAfterSmall ==
    ASSUME H!IsMinifier(HText)
    PROVE  \A d \in HText : ~ H!Contains(d, "<script") => HWeight(HAfter(d)) <= Len(d)
<1> DEFINE P(d) == HWeight(HAfter(d)) <= Len(d) /\ NoScript(HAfter(d))
           T == {n \in Nat : \A d \in HText : Len(d) = n /\ ~ H!Contains(d, "<script") => P(d)}
<1>1. 0 \in T
  <2>1. HWeight(HAfter(<<>>)) <= 0 /\ NoScript(HAfter(<<>>))
    <3>1. H!Start.out = <<>> /\ H!Start.held = <<>> /\ ~ H!Start.space
      BY DEF H!Start
    <3>2. HAfter(<<>>) = H!Start /\ H!Start \in HStates
      BY HAfterNothing, HAfterTyped, HItems
    <3>3. HWeight(H!Start) = 0
      <4>1. HWeight(H!Start) = Len(H!Start.out) + Len(H!Start.held)
        BY <3>1, <3>2, HWeightIs
      <4>2. QED
        BY <3>1, <4>1, HItems
    <3>4. NoScript(H!Start)
      BY DEF H!Start, NoScript
    <3>5. QED
      BY <3>2, <3>3, <3>4
  <2>2. \A d \in HText : Len(d) = 0 => d = <<>>
    BY DEF HText
  <2>3. QED
    BY <2>1, <2>2
<1>2. ASSUME NEW n \in Nat, n \in T PROVE n + 1 \in T
  <2>1. ASSUME NEW d \in HText, Len(d) = n + 1, ~ H!Contains(d, "<script") PROVE P(d)
    <3> DEFINE s == H!Front(d)
               c == H!Last(d)
               m == HAfter(s)
               x == HAfter(d)
    <3>1. s \in HText /\ c \in H!DocItems /\ Len(s) = n /\ Append(s, c) = d
      <4>1. d # <<>>
        BY <1>2, <2>1, HItems
      <4>2. s \in HText /\ c \in H!DocItems /\ Len(s) = Len(d) - 1 /\ Append(s, c) = d
        BY <4>1, FrontFacts DEF HText
      <4>3. QED
        BY <1>2, <2>1, <4>2
    <3>2. HWeight(m) <= n /\ NoScript(m) /\ c # "<script"
      <4>1. ~ H!Contains(s, "<script") /\ c # "<script"
        BY <2>1, <3>1, NoScriptLast
      <4>2. QED
        BY <1>2, <3>1, <4>1
    <3> HIDE DEF s, c
    <3>3. m \in HStates /\ x = H!Step(m, c)
      <4>1. m \in HStates /\ HAfter(Append(s, c)) = H!Step(m, c)
        BY <3>1, HAfterTyped
      <4>2. QED
        BY <3>1, <4>1
    <3> HIDE DEF m, x
    <3>4. HWeight(x) <= HWeight(m) + 1 /\ HWeight(x) \in Nat /\ HWeight(m) \in Nat
      <4>1. H!Step(m, c) \in HStates /\ HWeight(H!Step(m, c)) <= HWeight(m) + 1
        <5>1. m.at = "raw" => m.tag[1] # "<script"
          BY <3>2 DEF NoScript
        <5>2. QED
          BY <3>1, <3>3, <5>1, HStepTyped
      <4>2. HWeight(m) \in Nat /\ HWeight(H!Step(m, c)) \in Nat
        BY <3>3, <4>1, HWeightIs
      <4>3. QED
        BY <3>3, <4>1, <4>2
    <3>5. HWeight(x) <= n + 1 /\ NoScript(x)
      BY <3>1, <3>2, <3>3, <3>4, StepNoScript
    <3>6. QED
      BY <2>1, <3>5 DEF x
  <2>2. \A d \in HText : Len(d) = n + 1 /\ ~ H!Contains(d, "<script") => P(d)
    BY <2>1
  <2> HIDE DEF P
  <2>3. QED
    BY <2>2
<1>3. Nat \subseteq T
  <2> HIDE DEF T
  <2>1. QED
    BY <1>1, <1>2, Induction
<1>4. \A d \in HText : ~ H!Contains(d, "<script") => P(d)
  <2> HIDE DEF P
  <2>1. QED
    BY <1>3, HTextFacts
<1>5. QED
  BY <1>4

-----------------------------------------------------------------------------
(* The reader of scripts.                                                  *)

SAts == {"code", "slash", "line", "block", "star", "string", "stringEscape", "template",
         "templateEscape", "dollar", "regex", "class", "regexEscape", "classEscape",
         "flags"} \cup S!Invalid
SPlaces == {"code", "comment", "string", "template", "regex"}
SReaders == [at : SAts, open : Seq(Int), operand : BOOLEAN, word : Seq(S!Chars),
             place : Seq(SPlaces)]

\* Where a slash has just been read, it has its place.
SlashPlaced(r) == r.at = "slash" /\ r.open = <<>> => r.place # <<>>

\* x is r after at most one more character.
Reads(r, x) ==
    /\ x \in SReaders /\ SlashPlaced(x)
    /\ Len(x.place) \in {Len(r.place), Len(r.place) + 1}

LEMMA SReaderFacts ==
    ASSUME NEW r \in SReaders
    PROVE  /\ r.at \in SAts /\ r.open \in Seq(Int) /\ r.operand \in BOOLEAN
           /\ r.word \in Seq(S!Chars) /\ r.place \in Seq(SPlaces) /\ Len(r.place) \in Nat
BY DEF SReaders

LEMMA PlacedIs ==
    ASSUME NEW r \in SReaders, NEW p \in SPlaces
    PROVE  /\ S!Placed(r, p) \in SReaders
           /\ S!Placed(r, p).at = r.at /\ S!Placed(r, p).open = r.open
           /\ S!Placed(r, p).word = r.word
           /\ Len(S!Placed(r, p).place) = Len(r.place) + 1
<1> DEFINE q == IF r.open = <<>> THEN p ELSE "template"
           a == Append(r.place, q)
<1>1. a \in Seq(SPlaces) /\ Len(a) = Len(r.place) + 1
  <2>1. q \in SPlaces /\ r.place \in Seq(SPlaces)
    BY SReaderFacts DEF SPlaces
  <2> HIDE DEF q
  <2>2. QED
    BY <2>1
<1>2. S!Placed(r, p) = [r EXCEPT !.place = a]
  BY DEF S!Placed
<1> HIDE DEF a
<1>3. QED
  BY <1>1, <1>2 DEF SReaders

LEMMA EnterIs ==
    ASSUME NEW r \in SReaders, NEW a \in SAts
    PROVE  /\ S!Enter(r, a) \in SReaders
           /\ S!Enter(r, a).at = a /\ S!Enter(r, a).open = r.open
           /\ S!Enter(r, a).place = r.place
<1>1. S!Enter(r, a) = [r EXCEPT !.at = a, !.word = <<>>]
  BY DEF S!Enter
<1>2. <<>> \in Seq(S!Chars)
  OBVIOUS
<1>3. QED
  BY <1>1, <1>2 DEF SReaders

LEMMA EndedIs ==
    ASSUME NEW r \in SReaders
    PROVE  /\ S!Ended(r) \in SReaders
           /\ S!Ended(r).at = "code" /\ S!Ended(r).open = r.open
           /\ S!Ended(r).place = r.place
<1> DEFINE x == S!Enter(r, "code")
<1>1. x \in SReaders /\ x.at = "code" /\ x.open = r.open /\ x.place = r.place
  BY EnterIs DEF SAts
<1>2. S!Ended(r) = [x EXCEPT !.operand = TRUE]
  BY DEF S!Ended
<1> HIDE DEF x
<1>3. QED
  BY <1>1, <1>2 DEF SReaders

LEMMA SlashWasIs ==
    ASSUME NEW r \in SReaders, NEW p \in SPlaces, r.open = <<>> => r.place # <<>>
    PROVE  /\ S!SlashWas(r, p) \in SReaders
           /\ S!SlashWas(r, p).open = r.open
           /\ Len(S!SlashWas(r, p).place) = Len(r.place)
<1>1. CASE r.open # <<>>
  BY <1>1 DEF S!SlashWas
<1>2. CASE r.open = <<>>
  <2> DEFINE a == Append(S!Front(r.place), p)
  <2>1. r.place \in Seq(SPlaces) /\ r.place # <<>>
    BY <1>2, SReaderFacts
  <2>2. a \in Seq(SPlaces) /\ Len(a) = Len(r.place)
    BY <2>1 DEF S!Front
  <2>3. S!SlashWas(r, p) = [r EXCEPT !.place = a]
    BY <1>2 DEF S!SlashWas
  <2> HIDE DEF a
  <2>4. QED
    BY <2>2, <2>3 DEF SReaders
<1>3. QED
  BY <1>1, <1>2

\* A character with its place, anywhere but after a slash.
LEMMA ReadsPlaced ==
    ASSUME NEW r \in SReaders, NEW x \in SReaders, Len(x.place) = Len(r.place),
           NEW p \in SPlaces
    PROVE  Reads(r, S!Placed(x, p))
<1> DEFINE y == S!Placed(x, p)
<1>1. y \in SReaders /\ Len(y.place) = Len(r.place) + 1 /\ Len(r.place) \in Nat
  BY PlacedIs, SReaderFacts
<1> HIDE DEF y
<1>2. y.place # <<>>
  BY <1>1 DEF SReaders
<1>3. QED
  BY <1>1, <1>2 DEF Reads, SlashPlaced, y

\* What changes no place.
LEMMA ReadsSame ==
    ASSUME NEW r \in SReaders, NEW x, Reads(r, x), NEW y \in SReaders, y.place = x.place,
           y.at = x.at, x.at # "slash"
    PROVE  Reads(r, y)
BY DEF Reads, SlashPlaced

LEMMA ReadsEntered ==
    ASSUME NEW r \in SReaders, NEW a \in SAts
    PROVE  /\ \A p \in SPlaces : Reads(r, S!Placed(S!Enter(r, a), p))
           /\ a # "slash" => Reads(r, S!Enter(r, a))
<1> DEFINE x == S!Enter(r, a)
<1>1. x \in SReaders /\ x.at = a /\ x.open = r.open /\ x.place = r.place
  BY EnterIs
<1> HIDE DEF x
<1>2. \A p \in SPlaces : Reads(r, S!Placed(x, p))
  BY <1>1, ReadsPlaced
<1>3. a # "slash" => Reads(r, x)
  BY <1>1 DEF Reads, SlashPlaced
<1>4. QED
  BY <1>2, <1>3 DEF x

LEMMA ReadsEnded ==
    ASSUME NEW r \in SReaders
    PROVE  \A p \in SPlaces : Reads(r, S!Placed(S!Ended(r), p)) /\ S!Placed(S!Ended(r), p).at = "code"
BY EndedIs, ReadsPlaced, PlacedIs

LEMMA SNames ==
    /\ "code" \in SAts /\ "slash" \in SAts /\ "line" \in SAts /\ "block" \in SAts
    /\ "star" \in SAts /\ "string" \in SAts /\ "stringEscape" \in SAts
    /\ "template" \in SAts /\ "templateEscape" \in SAts /\ "dollar" \in SAts
    /\ "regex" \in SAts /\ "class" \in SAts /\ "regexEscape" \in SAts
    /\ "classEscape" \in SAts /\ "flags" \in SAts
    /\ "invalid" \in SAts /\ "badString" \in SAts /\ "badRegex" \in SAts
    /\ "code" \in SPlaces /\ "comment" \in SPlaces /\ "string" \in SPlaces
    /\ "template" \in SPlaces /\ "regex" \in SPlaces
BY DEF SAts, SPlaces, S!Invalid

\* The braces open in the substitution that was opened last.
LEMMA OpenCounts ==
    ASSUME NEW o \in Seq(Int)
    PROVE  /\ o # <<>> => /\ S!Front(o) \in Seq(Int)
                          /\ Append(S!Front(o), S!Last(o) - 1) \in Seq(Int)
                          /\ Append(S!Front(o), S!Last(o) + 1) \in Seq(Int)
           /\ Append(o, 0) \in Seq(Int)
<1>1. Append(o, 0) \in Seq(Int)
  OBVIOUS
<1>2. o # <<>> => S!Front(o) \in Seq(Int) /\ S!Last(o) \in Int
  BY DEF S!Front, S!Last
<1>3. ASSUME NEW f \in Seq(Int), NEW l \in Int
      PROVE  Append(f, l - 1) \in Seq(Int) /\ Append(f, l + 1) \in Seq(Int)
  OBVIOUS
<1>4. QED
  BY <1>1, <1>2, <1>3

LEMMA ReadsCode ==
    ASSUME NEW r \in SReaders, r.at # "slash", NEW c \in S!Chars
    PROVE  Reads(r, S!InCode(r, c))
<1>1. CASE c = "/"
  BY <1>1, ReadsEntered, SNames, Zenon DEF S!InCode, S!isJSIdentChar
<1>2. CASE c = "'"
  BY <1>2, ReadsEntered, SNames, Zenon DEF S!InCode, S!isJSIdentChar
<1>3. CASE c = "|"
  BY <1>3, ReadsEntered, SNames, Zenon DEF S!InCode, S!isJSIdentChar
<1>4. CASE c = "\n"
  BY <1>4, ReadsEntered, SNames, Zenon DEF S!InCode, S!isJSIdentChar
<1>5. CASE c = "\\"
  BY <1>5, ReadsEntered, SNames, Zenon DEF S!InCode, S!isJSIdentChar
<1> DEFINE p == S!Placed(r, "code")
           e == S!Placed(S!Ended(r), "code")
           n == S!Placed(S!Enter(r, "code"), "code")
           t == S!Placed(S!Enter(r, "template"), "template")
<1>6. p \in SReaders /\ p.at = r.at /\ p.open = r.open /\ Reads(r, p)
  BY PlacedIs, ReadsPlaced, SNames
<1>7. e \in SReaders /\ e.at = "code" /\ e.open = r.open /\ Reads(r, e)
  <2>1. S!Ended(r) \in SReaders /\ S!Ended(r).open = r.open
    BY EndedIs
  <2>2. e \in SReaders /\ e.open = r.open
    BY <2>1, PlacedIs, SNames
  <2>3. QED
    BY <2>2, ReadsEnded, SNames
<1>8. /\ n \in SReaders /\ n.at = "code" /\ n.open = r.open /\ Reads(r, n)
      /\ t \in SReaders /\ t.at = "template" /\ t.open = r.open /\ Reads(r, t)
  <2>1. /\ S!Enter(r, "code") \in SReaders /\ S!Enter(r, "code").open = r.open
        /\ S!Enter(r, "template") \in SReaders /\ S!Enter(r, "template").open = r.open
        /\ S!Enter(r, "code").at = "code" /\ S!Enter(r, "template").at = "template"
    BY EnterIs, SNames
  <2>2. n \in SReaders /\ n.at = "code" /\ n.open = r.open
    BY <2>1, PlacedIs, SNames
  <2>3. t \in SReaders /\ t.at = "template" /\ t.open = r.open
    BY <2>1, PlacedIs, SNames
  <2>4. QED
    BY <2>2, <2>3, ReadsEntered, SNames
<1>9. r.open \in Seq(Int) /\ r.word \in Seq(S!Chars)
  BY SReaderFacts
<1> HIDE DEF p, e, n, t
<1>10. CASE S!isJSIdentChar(c)
  <2> DEFINE word == (IF r.word = <<"+">> THEN <<>> ELSE r.word) \o <<c>>
             op == word # <<"return">>
             y == [p EXCEPT !.word = word, !.operand = op]
  <2>1. c \in {"a", "$", "return"}
    BY <1>10 DEF S!isJSIdentChar
  <2>2. c \notin {"/", "'", "|", "\n", "\\", "+", "rbrace", "lbrace", "*", "[", "]"}
    BY <2>1, Zenon
  <2>3. S!InCode(r, c) = y
    BY <1>10, <2>2, Zenon DEF S!InCode, p
  <2>4. word \in Seq(S!Chars) /\ op \in BOOLEAN
    BY <1>9
  <2> HIDE DEF word, op
  <2>5. y \in SReaders /\ y.at = p.at /\ y.place = p.place
    BY <1>6, <2>4 DEF SReaders
  <2> HIDE DEF y
  <2>6. QED
    BY <1>6, <2>3, <2>5, ReadsSame
<1>11. CASE c = "+" /\ r.word = <<"+">>
  BY <1>7, <1>11, Zenon DEF S!InCode, S!isJSIdentChar, e
<1>12. CASE c = "+" /\ r.word # <<"+">>
  <2> DEFINE y == [p EXCEPT !.word = <<"+">>, !.operand = FALSE]
  <2>1. S!InCode(r, c) = y
    BY <1>12, Zenon DEF S!InCode, S!isJSIdentChar, p
  <2>2. <<"+">> \in Seq(S!Chars)
    BY DEF S!Chars
  <2>3. y \in SReaders /\ y.at = p.at /\ y.place = p.place
    BY <1>6, <2>2 DEF SReaders
  <2> HIDE DEF y
  <2>4. QED
    BY <1>6, <2>1, <2>3, ReadsSame
<1>13. CASE c = "rbrace" /\ r.open # <<>> /\ S!Last(r.open) = 0
  <2> DEFINE o == S!Front(r.open)
             y == [t EXCEPT !.open = o]
  <2>1. S!InCode(r, c) = [t EXCEPT !.open = S!Front(t.open)]
    BY <1>13, Zenon DEF S!InCode, S!isJSIdentChar, t
  <2>2. S!InCode(r, c) = y
    BY <1>8, <2>1, Zenon
  <2>3. o \in Seq(Int)
    BY <1>9, <1>13, OpenCounts
  <2> HIDE DEF o
  <2>4. y \in SReaders /\ y.at = t.at /\ y.place = t.place
    BY <1>8, <2>3 DEF SReaders
  <2> HIDE DEF y
  <2>5. QED
    BY <1>8, <2>2, <2>4, ReadsSame
<1>14. CASE c = "rbrace" /\ ~ (r.open # <<>> /\ S!Last(r.open) = 0)
  <2> DEFINE o == IF r.open = <<>> THEN r.open ELSE Append(S!Front(r.open), S!Last(r.open) - 1)
             y == [e EXCEPT !.open = o]
  <2>1. S!InCode(r, c) = [e EXCEPT !.open = IF e.open = <<>> THEN e.open
                              ELSE Append(S!Front(e.open), S!Last(e.open) - 1)]
    BY <1>14, Zenon DEF S!InCode, S!isJSIdentChar, e
  <2>2. S!InCode(r, c) = y
    BY <1>7, <2>1, Zenon
  <2>3. o \in Seq(Int)
    BY <1>9, OpenCounts
  <2> HIDE DEF o
  <2>4. y \in SReaders /\ y.at = e.at /\ y.place = e.place
    BY <1>7, <2>3 DEF SReaders
  <2> HIDE DEF y
  <2>5. QED
    BY <1>7, <2>2, <2>4, ReadsSame
<1>15. CASE c = "lbrace"
  <2> DEFINE o == IF r.open = <<>> THEN r.open ELSE Append(S!Front(r.open), S!Last(r.open) + 1)
             y == [n EXCEPT !.operand = FALSE, !.open = o]
  <2>1. S!InCode(r, c) = [n EXCEPT !.operand = FALSE,
                                   !.open = IF n.open = <<>> THEN n.open
                                            ELSE Append(S!Front(n.open), S!Last(n.open) + 1)]
    BY <1>15, Zenon DEF S!InCode, S!isJSIdentChar, n
  <2>2. S!InCode(r, c) = y
    BY <1>8, <2>1, Zenon
  <2>3. o \in Seq(Int)
    BY <1>9, OpenCounts
  <2> HIDE DEF o
  <2>4. y \in SReaders /\ y.at = n.at /\ y.place = n.place
    BY <1>8, <2>3 DEF SReaders
  <2> HIDE DEF y
  <2>5. QED
    BY <1>8, <2>2, <2>4, ReadsSame
<1>16. CASE c \in {"*", "[", "]"}
  <2> DEFINE b == c = "]"
             y == [n EXCEPT !.operand = b]
  <2>1. S!InCode(r, c) = y
    BY <1>16, Zenon DEF S!InCode, S!isJSIdentChar, n
  <2>2. b \in BOOLEAN
    OBVIOUS
  <2> HIDE DEF b
  <2>3. y \in SReaders /\ y.at = n.at /\ y.place = n.place
    BY <1>8, <2>2 DEF SReaders
  <2> HIDE DEF y
  <2>4. QED
    BY <1>8, <2>1, <2>3, ReadsSame
<1>17. QED
  BY <1>1, <1>2, <1>3, <1>4, <1>5, <1>10, <1>11, <1>12, <1>13, <1>14, <1>15, <1>16, Zenon
     DEF S!Chars, S!isJSIdentChar

LEMMA ReadsRegex ==
    ASSUME NEW r \in SReaders, NEW c \in S!Chars
    PROVE  Reads(r, S!InRegex(r, c))
BY ReadsEntered, SNames, Zenon DEF S!InRegex

LEMMA ReadsTemplate ==
    ASSUME NEW r \in SReaders, NEW c \in S!Chars
    PROVE  Reads(r, S!InTemplate(r, c))
BY ReadsEntered, ReadsEnded, SNames, Zenon DEF S!InTemplate

LEMMA ReadsString ==
    ASSUME NEW r \in SReaders, NEW c \in S!Chars
    PROVE  Reads(r, S!InString(r, c))
BY ReadsEntered, ReadsEnded, ReadsPlaced, SNames, Zenon DEF S!InString

LEMMA ReadsClass ==
    ASSUME NEW r \in SReaders, NEW c \in S!Chars
    PROVE  Reads(r, S!InClass(r, c))
BY ReadsEntered, ReadsPlaced, SNames, Zenon DEF S!InClass

\* What has as many places reads like r.
LEMMA ReadsFrom ==
    ASSUME NEW r, NEW x, NEW y, Len(x.place) = Len(r.place), Reads(x, y)
    PROVE  Reads(r, y)
BY DEF Reads

LEMMA ReadsSlash ==
    ASSUME NEW r \in SReaders, r.open = <<>> => r.place # <<>>, NEW c \in S!Chars
    PROVE  Reads(r, S!AfterSlash(r, c))
<1>1. ASSUME NEW p \in SPlaces
      PROVE  LET x == S!SlashWas(r, p)
             IN  x \in SReaders /\ Len(x.place) = Len(r.place)
  BY SlashWasIs
<1>2. CASE c \in {"/", "*"}
  <2> DEFINE x == S!SlashWas(r, "comment")
  <2>1. S!AfterSlash(r, c) \in {S!Placed(S!Enter(x, "line"), "comment"),
                               S!Placed(S!Enter(x, "block"), "comment")}
    BY <1>2, Zenon DEF S!AfterSlash
  <2>2. x \in SReaders /\ Len(x.place) = Len(r.place)
    BY <1>1, SNames
  <2> HIDE DEF x
  <2>3. Reads(x, S!AfterSlash(r, c))
    BY <2>1, <2>2, ReadsEntered, SNames, Zenon
  <2>4. QED
    BY <2>2, <2>3, ReadsFrom
<1>3. CASE c \notin {"/", "*"} /\ r.operand
  <2> DEFINE x == S!Enter(r, "code")
             y == [x EXCEPT !.operand = FALSE]
  <2>1. x \in SReaders /\ x.at = "code" /\ x.place = r.place
    BY EnterIs, SNames
  <2>2. S!AfterSlash(r, c) = S!InCode(y, c)
    BY <1>3, Zenon DEF S!AfterSlash
  <2> HIDE DEF x
  <2>3. y \in SReaders /\ y.at # "slash" /\ y.place = r.place
    BY <2>1 DEF SReaders
  <2> HIDE DEF y
  <2>4. Reads(y, S!InCode(y, c))
    BY <2>3, ReadsCode
  <2>5. QED
    BY <2>2, <2>3, <2>4, ReadsFrom
<1>4. CASE c \notin {"/", "*"} /\ ~ r.operand
  <2> DEFINE x == S!SlashWas(r, "regex")
  <2>1. S!AfterSlash(r, c) = S!InRegex(x, c)
    BY <1>4, Zenon DEF S!AfterSlash
  <2>2. x \in SReaders /\ Len(x.place) = Len(r.place)
    BY <1>1, SNames
  <2> HIDE DEF x
  <2>3. Reads(x, S!InRegex(x, c))
    BY <2>2, ReadsRegex
  <2>4. QED
    BY <2>1, <2>2, <2>3, ReadsFrom
<1>5. QED
  BY <1>2, <1>3, <1>4

\* One more character is given at most one place, and the slash that may become
\* a part of what follows has one.
LEMMA ReadsOne ==
    ASSUME NEW r \in SReaders, SlashPlaced(r), NEW c \in S!Chars
    PROVE  Reads(r, S!Read(r, c))
<1>1. CASE r.at = "code"
  <2>1. S!Read(r, c) = S!InCode(r, c)
    BY <1>1, Zenon DEF S!Read
  <2>2. QED
    BY <1>1, <2>1, ReadsCode
<1>2. CASE r.at = "slash"
  <2>1. S!Read(r, c) = S!AfterSlash(r, c)
    BY <1>2, Zenon DEF S!Read
  <2>2. QED
    BY <1>2, <2>1, ReadsSlash DEF SlashPlaced
<1>3. CASE r.at = "line"
  <2>1. S!Read(r, c) \in {S!InCode(S!Enter(r, "code"), c), S!Placed(r, "comment")}
    BY <1>3, Zenon DEF S!Read
  <2> DEFINE x == S!Enter(r, "code")
  <2>2. x \in SReaders /\ x.at = "code" /\ x.place = r.place
    BY EnterIs, SNames
  <2> HIDE DEF x
  <2>3. Reads(x, S!InCode(x, c))
    BY <2>2, ReadsCode
  <2>4. Reads(r, S!InCode(x, c))
    BY <2>2, <2>3, ReadsFrom
  <2>5. Reads(r, S!Placed(r, "comment"))
    BY ReadsPlaced, SNames
  <2>6. QED
    BY <2>1, <2>4, <2>5 DEF x
<1>4. CASE r.at \in {"block", "star", "stringEscape", "templateEscape"}
  <2>1. S!AfterStar(c) \in SAts
    BY SNames, Zenon DEF S!AfterStar
  <2>2. \E a \in SAts, p \in SPlaces : S!Read(r, c) = S!Placed(S!Enter(r, a), p)
    BY <1>4, <2>1, SNames, Zenon DEF S!Read
  <2>3. QED
    BY <2>2, ReadsEntered
<1>5. CASE r.at = "string"
  BY <1>5, ReadsString, Zenon DEF S!Read
<1>6. CASE r.at = "template"
  BY <1>6, ReadsTemplate, Zenon DEF S!Read
<1>7. CASE r.at = "dollar"
  <2> DEFINE x == S!Placed(S!Enter(r, "code"), "template")
             y == [x EXCEPT !.open = Append(x.open, 0), !.operand = FALSE]
  <2>1. S!Read(r, c) \in {y, S!InTemplate(r, c)}
    BY <1>7, Zenon DEF S!Read
  <2>2. S!Enter(r, "code") \in SReaders /\ S!Enter(r, "code").at = "code"
    BY EnterIs, SNames
  <2>3. x \in SReaders /\ x.at = "code" /\ Reads(r, x)
    BY <2>2, PlacedIs, ReadsEntered, SNames
  <2> HIDE DEF x
  <2>4. Append(x.open, 0) \in Seq(Int)
    BY <2>3, SReaderFacts, OpenCounts
  <2>5. y \in SReaders /\ y.at = x.at /\ y.place = x.place
    BY <2>3, <2>4 DEF SReaders
  <2> HIDE DEF y
  <2>6. Reads(r, y)
    BY <2>3, <2>5, ReadsSame
  <2>7. QED
    BY <2>1, <2>6, ReadsTemplate
<1>8. CASE r.at = "regex"
  BY <1>8, ReadsRegex, Zenon DEF S!Read
<1>9. CASE r.at = "class"
  BY <1>9, ReadsClass, Zenon DEF S!Read
<1>10. CASE r.at \in {"regexEscape", "classEscape"}
  <2>1. \/ S!Read(r, c) = S!Enter(r, "badRegex")
        \/ S!Read(r, c) = S!Placed(S!Enter(r, "class"), "regex")
        \/ S!Read(r, c) = S!Placed(S!Enter(r, "regex"), "regex")
    BY <1>10, Zenon DEF S!Read
  <2>2. QED
    BY <2>1, ReadsEntered, SNames, Zenon
<1>11. CASE r.at = "flags"
  <2>1. S!Read(r, c) \in {S!Placed(r, "regex"), S!InCode(S!Ended(r), c)}
    BY <1>11, Zenon DEF S!Read
  <2> DEFINE x == S!Ended(r)
  <2>2. x \in SReaders /\ x.at = "code" /\ x.place = r.place
    BY EndedIs
  <2> HIDE DEF x
  <2>3. Reads(x, S!InCode(x, c))
    BY <2>2, ReadsCode
  <2>4. Reads(r, S!InCode(x, c))
    BY <2>2, <2>3, ReadsFrom
  <2>5. Reads(r, S!Placed(r, "regex"))
    BY ReadsPlaced, SNames
  <2>6. QED
    BY <2>1, <2>4, <2>5 DEF x
<1>12. CASE r.at \in S!Invalid
  <2>1. S!Read(r, c) = r
    BY <1>12, Zenon DEF S!Read, S!Invalid
  <2>2. QED
    BY <2>1, SReaderFacts DEF Reads
<1>13. QED
  <2>1. r.at \in SAts
    BY SReaderFacts
  <2>2. QED
    BY <1>1, <1>2, <1>3, <1>4, <1>5, <1>6, <1>7, <1>8, <1>9, <1>10, <1>11, <1>12, <2>1 DEF SAts

SPlacedReaders == {r \in SReaders : SlashPlaced(r)}

\* The reader has placed no more characters than it has read.
LEMMA ReadAllPlaces ==
    ASSUME NEW s \in Seq(S!Chars), NEW b \in SPlacedReaders, Len(b.place) = 0
    PROVE  S!ReadAll(b, s) \in SPlacedReaders /\ Len(S!ReadAll(b, s).place) <= Len(s)
<1> DEFINE n == Len(s)
           A == SPlacedReaders
           f == [i \in 1..n |-> [r \in A |-> S!Read(r, s[i])]]
           IsPass(p) == p = [i \in 0..n |-> IF i = 0 THEN b ELSE S!Read(p[i - 1], s[i])]
           q == CHOOSE p : IsPass(p)
<1>1. n \in Nat
  OBVIOUS
<1>2. \A i \in 1..n, r \in A :
        S!Read(r, s[i]) \in A /\ Len(S!Read(r, s[i]).place) \in {Len(r.place), Len(r.place) + 1}
  <2>1. ASSUME NEW i \in 1..n, NEW r \in A PROVE Reads(r, S!Read(r, s[i]))
    <3>1. s[i] \in S!Chars
      OBVIOUS
    <3>2. QED
      BY <3>1, ReadsOne DEF SPlacedReaders
  <2>2. QED
    BY <2>1 DEF Reads, SPlacedReaders
<1>3. f \in [1..n -> [A -> A]]
  BY <1>2
<1>4. PICK g \in [0..n -> A] : IsRun(g, f, b, n)
  <2> HIDE DEF f, n, A
  <2>1. b \in A
    BY DEF A
  <2>2. QED
    BY <1>1, <1>3, <2>1, RunExists
<1>5. IsPass(g)
  <2>1. ASSUME NEW i \in 0..n, i # 0 PROVE f[i][g[i - 1]] = S!Read(g[i - 1], s[i])
    BY <1>1, <1>4, <2>1
  <2>2. \A i \in 0..n : g[i] = IF i = 0 THEN b ELSE S!Read(g[i - 1], s[i])
    BY <1>1, <1>4, <2>1 DEF IsRun
  <2>3. QED
    BY <1>4, <2>2
<1>6. IsPass(q)
  BY <1>5
<1>7. S!ReadAll(b, s) = q[n]
  BY DEF S!ReadAll
<1> HIDE DEF q, A, f
<1> DEFINE T == {i \in Nat : i <= n => q[i] \in A /\ Len(q[i].place) <= i}
<1>8. 0 \in T
  <2>1. q[0] = b
    BY <1>1, <1>6
  <2>2. QED
    BY <2>1 DEF A
<1>9. ASSUME NEW i \in Nat, i \in T PROVE i + 1 \in T
  <2>1. SUFFICES ASSUME i + 1 <= n PROVE q[i + 1] \in A /\ Len(q[i + 1].place) <= i + 1
    OBVIOUS
  <2>2. q[i] \in A /\ Len(q[i].place) <= i
    BY <1>1, <1>9, <2>1
  <2>3. q[i + 1] = S!Read(q[i], s[i + 1]) /\ i + 1 \in 1..n
    BY <1>1, <1>6, <2>1
  <2>4. q[i + 1] \in A /\ Len(q[i + 1].place) \in {Len(q[i].place), Len(q[i].place) + 1}
    BY <1>2, <2>2, <2>3
  <2>5. Len(q[i].place) \in Nat
    BY <2>2, SReaderFacts DEF A, SPlacedReaders
  <2> DEFINE k == Len(q[i].place)
             l == Len(q[i + 1].place)
  <2>6. k \in Nat /\ k <= i /\ l \in {k, k + 1}
    BY <2>2, <2>4, <2>5
  <2> HIDE DEF k, l
  <2>7. l <= i + 1
    BY <2>6
  <2>8. QED
    BY <2>4, <2>7 DEF l
<1>10. Nat \subseteq T
  <2> HIDE DEF T
  <2>1. QED
    BY <1>8, <1>9, Induction
<1>11. QED
  BY <1>1, <1>7, <1>10 DEF A

-----------------------------------------------------------------------------
(* The invariant of the specification.                                     *)

CKept == CInv /\ input \in Seq(Items) /\ Len(input) <= MaxLen /\ CSmall(state, Len(input))

HKept == doc \in HText /\ more \in 0..MaxMore /\ pass = HAfter(doc)

SKept ==
    /\ script \in Seq(S!Chars) /\ chars \in 0..MaxChars
    /\ reader \in SPlacedReaders /\ Len(reader.place) <= Len(script)

MediaTypes == {MediaTypeHTML, MediaTypeCSS, MediaTypeJS, Unknown}

\* How much has been read of the file, and that the pass over it, or the
\* reader, is where it is after that.
IInv == mediaType \in MediaTypes /\ CKept /\ HKept /\ SKept

LEMMA CKeptInit == C!Init => CKept
<1> SUFFICES ASSUME C!Init PROVE CKept
  OBVIOUS
<1>1. input = <<>> /\ state = C!Start
  BY DEF C!Init
<1>2. Len(input) = 0 /\ input \in Seq(Items) /\ 0 <= MaxLen
  BY <1>1, CSSAssumption
<1>3. CSmall(C!Start, 0)
  BY DEF CSmall, C!Start
<1>4. QED
  BY <1>1, <1>2, <1>3, CInvInit DEF CKept

LEMMA CKeptNext == CKept /\ C!Next => CKept'
<1> SUFFICES ASSUME CKept, NEW c \in Items, C!Read(c) PROVE CKept'
  BY DEF C!Next
<1>1. CInv'
  BY CInvNext DEF CKept, C!Next
<1>2. /\ input \in Seq(Items) /\ input' = Append(input, c) /\ state' = C!Step(state, c)
      /\ Len(input) < MaxLen /\ CSmall(state, Len(input)) /\ state \in CStates
  BY DEF CKept, CInv, C!Read
<1>3. input' \in Seq(Items) /\ Len(input') = Len(input) + 1 /\ Len(input) \in Nat
  BY <1>2
<1>4. Len(input') <= MaxLen
  BY <1>2, <1>3, CSSAssumption
<1>5. CSmall(state', Len(input'))
  <2>1. c \in CItems
    BY DEF CItems
  <2>2. CSmall(C!Step(state, c), Len(input) + 1)
    BY <1>2, <1>3, <2>1, CStepSmall
  <2>3. QED
    BY <1>2, <1>3, <2>2
<1>6. QED
  BY <1>1, <1>3, <1>4, <1>5 DEF CKept

LEMMA HKeptInit == H!Init => HKept
<1> SUFFICES ASSUME H!Init PROVE HKept
  OBVIOUS
<1>1. doc \in Beginnings /\ more = 0 /\ pass = H!Passes(doc)[Len(doc)]
  BY DEF H!Init
<1>2. 0 \in 0..MaxMore
  BY HTMLAssumption
<1>3. doc \in HText
  BY <1>1, HTMLAssumption DEF HText
<1>4. QED
  BY <1>1, <1>2, <1>3 DEF HKept, HAfter

LEMMA HKeptNext ==
    ASSUME H!IsMinifier(HText)
    PROVE  HKept /\ H!Next => HKept'
<1> SUFFICES ASSUME HKept, NEW c \in H!DocItems, H!Read(c) PROVE HKept'
  BY DEF H!Next
<1>1. doc \in HText /\ more \in 0..MaxMore /\ pass = HAfter(doc)
  BY DEF HKept
<1>2. /\ doc' = Append(doc, c) /\ more' = more + 1 /\ more < MaxMore
      /\ pass' = H!Step(pass, c)
  BY DEF H!Read
<1>3. more' \in 0..MaxMore
  BY <1>1, <1>2, HTMLAssumption
<1>4. Append(doc, c) \in HText /\ HAfter(Append(doc, c)) = H!Step(HAfter(doc), c)
  BY <1>1, HTextFacts, HAfterTyped
<1>5. doc' \in HText /\ pass' = HAfter(doc')
  BY <1>1, <1>2, <1>4, Zenon
<1>6. QED
  BY <1>3, <1>5 DEF HKept, HAfter

LEMMA SKeptInit == S!Init => SKept
<1> SUFFICES ASSUME S!Init PROVE SKept
  OBVIOUS
<1>1. script \in Seq(S!Chars) /\ chars = 0 /\ reader = S!ReadAll(S!Begin, script)
  BY ScanAssumption DEF S!Init
<1>2. chars \in 0..MaxChars
  BY <1>1, ScanAssumption
<1>3. S!Begin \in SPlacedReaders /\ Len(S!Begin.place) = 0
  <2>1. S!Begin = [at |-> "code", open |-> <<>>, operand |-> FALSE, word |-> <<>>, place |-> <<>>]
    BY DEF S!Begin
  <2>2. S!Begin \in SReaders
    BY <2>1, SNames DEF SReaders
  <2>3. QED
    BY <2>1, <2>2 DEF SPlacedReaders, SlashPlaced
<1>4. reader \in SPlacedReaders /\ Len(reader.place) <= Len(script)
  BY <1>1, <1>3, ReadAllPlaces
<1>5. QED
  BY <1>1, <1>2, <1>4 DEF SKept

LEMMA SKeptNext == SKept /\ S!Next => SKept'
<1> SUFFICES ASSUME SKept, S!Next PROVE SKept'
  OBVIOUS
<1>1. PICK c \in S!Chars : script' = Append(script, c) /\ reader' = S!Read(reader, c)
  BY DEF S!Next
<1>2. chars < MaxChars /\ chars' = chars + 1
  BY DEF S!Next
<1>3. /\ script \in Seq(S!Chars) /\ chars \in 0..MaxChars
      /\ reader \in SPlacedReaders /\ Len(reader.place) <= Len(script)
  BY DEF SKept
<1>4. script' \in Seq(S!Chars) /\ Len(script') = Len(script) + 1 /\ Len(script) \in Nat
  BY <1>1, <1>3
<1>5. chars' \in 0..MaxChars
  BY <1>2, <1>3, ScanAssumption
<1>6. Reads(reader, reader')
  BY <1>1, <1>3, ReadsOne DEF SPlacedReaders
<1>7. reader' \in SPlacedReaders /\ Len(reader'.place) <= Len(script')
  <2>1. Len(reader.place) \in Nat
    BY <1>3, SReaderFacts DEF SPlacedReaders
  <2>2. QED
    BY <1>3, <1>4, <1>6, <2>1 DEF Reads, SPlacedReaders
<1>8. QED
  BY <1>4, <1>5, <1>7 DEF SKept

LEMMA IInvInit == Init => IInv
BY CKeptInit, HKeptInit, SKeptInit DEF Init, IInv, MediaTypes

\* What is not read stays where it is.
LEMMA KeptUnchanged ==
    /\ CKept /\ UNCHANGED cssVars => CKept'
    /\ HKept /\ UNCHANGED htmlVars => HKept'
    /\ SKept /\ UNCHANGED jsVars => SKept'
<1>1. CKept /\ UNCHANGED cssVars => CKept'
  BY DEF CKept, CInv, CAfter, cssVars
<1>2. HKept /\ UNCHANGED htmlVars => HKept'
  BY DEF HKept, HAfter, htmlVars
<1>3. SKept /\ UNCHANGED jsVars => SKept'
  BY DEF SKept, jsVars
<1>4. QED
  BY <1>1, <1>2, <1>3

LEMMA IInvNext ==
    ASSUME H!IsMinifier(HText)
    PROVE  IInv /\ [Next]_vars => IInv'
<1> SUFFICES ASSUME IInv, [Next]_vars PROVE IInv'
  OBVIOUS
<1>1. mediaType \in MediaTypes /\ CKept /\ HKept /\ SKept
  BY DEF IInv
<1>2. CASE ReadHTML
  BY <1>1, <1>2, HKeptNext, KeptUnchanged DEF ReadHTML, IInv
<1>3. CASE ReadCSS
  BY <1>1, <1>3, CKeptNext, KeptUnchanged DEF ReadCSS, IInv
<1>4. CASE ReadJS
  BY <1>1, <1>4, SKeptNext, KeptUnchanged DEF ReadJS, IInv
<1>5. CASE UNCHANGED vars
  BY <1>1, <1>5, KeptUnchanged DEF vars, IInv
<1>6. QED
  BY <1>2, <1>3, <1>4, <1>5 DEF Next

LEMMA IInvTyped ==
    ASSUME H!IsMinifier(HText)
    PROVE  IInv => TypeOK
<1> SUFFICES ASSUME IInv PROVE TypeOK
  OBVIOUS
<1>1. mediaType \in MediaTypes /\ CKept /\ HKept /\ SKept
  BY DEF IInv
<1>2. C!TypeOK
  <2>1. /\ input \in Seq(Items) /\ Len(input) <= MaxLen /\ Len(input) \in Nat
        /\ state \in CStates /\ CSmall(state, Len(input))
    BY <1>1 DEF CKept, CInv
  <2>2. state.out \in Seq((Items \cup {"sp"}) \ {"comment"}) /\ state.depth \in Nat
        /\ state.space \in BOOLEAN
    BY <2>1 DEF CStates, CItems
  <2>3. state.depth <= Len(input) /\ Len(state.out) <= Len(input)
    BY <2>1 DEF CSmall
  <2>4. state.depth \in 0..MaxLen
    BY <2>1, <2>2, <2>3, CSSAssumption
  <2>5. QED
    BY <2>1, <2>2, <2>3, <2>4 DEF C!TypeOK
<1>3. H!TypeOK
  <2>1. doc \in HText /\ more \in 0..MaxMore /\ pass = HAfter(doc)
    BY <1>1 DEF HKept
  <2>2. pass \in HStates /\ (H!Contains(doc, "<script") \/ HWeight(pass) <= Len(doc))
    BY <2>1, HAfterTyped, HAfterSmall
  <2>3. pass.at \in HAts /\ pass.space \in BOOLEAN /\ pass.tag \in HText /\ pass.held \in HText
        /\ pass.out \in HText
    BY <2>2, HStateFacts
  <2>4. ASSUME ~ H!Contains(doc, "<script") PROVE Len(pass.out) + Len(pass.held) <= Len(doc)
    <3> DEFINE a == Len(pass.out)
               b == Len(pass.held)
    <3>1. a \in Nat /\ b \in Nat /\ Len(doc) \in Nat
      BY <2>1, <2>3, HTextFacts
    <3>2. (pass.space => HWeight(pass) = a + b + 1) /\ (~ pass.space => HWeight(pass) = a + b)
      BY <2>2, HWeightIs
    <3> HIDE DEF a, b
    <3>3. a + b <= Len(doc)
      BY <2>2, <2>4, <3>1, <3>2
    <3>4. QED
      BY <3>3 DEF a, b
  <2>5. QED
    BY <2>1, <2>3, <2>4 DEF H!TypeOK, HText, HAts
<1>4. S!TypeOK
  BY <1>1 DEF SKept, S!TypeOK
<1>5. QED
  BY <1>1, <1>2, <1>3, <1>4 DEF TypeOK, MediaTypes

LEMMA IInvIdempotent ==
    ASSUME H!IsMinifier(HText)
    PROVE  IInv => Idempotent
<1> SUFFICES ASSUME IInv, mediaType # MediaTypeJS,
                    mediaType = MediaTypeHTML => H!NoStrayQuote(doc) /\ H!ScriptsWell(doc)
             PROVE  Bytes(mediaType, Bytes(mediaType, Source)) = Bytes(mediaType, Source)
  BY DEF Idempotent
<1>1. mediaType \in MediaTypes /\ CKept /\ HKept
  BY DEF IInv
<1>2. MediaTypeCSS # MediaTypeHTML /\ Unknown \notin {MediaTypeHTML, MediaTypeCSS}
  BY DEF MediaTypeCSS, MediaTypeHTML, Unknown
<1>3. CASE mediaType = MediaTypeHTML
  <2>1. \A in : Bytes(mediaType, in) = H!HTML(in)
    BY <1>2, <1>3 DEF Bytes
  <2>2. Source = doc
    BY <1>2, <1>3 DEF Source
  <2>3. H!HTML(H!HTML(doc)) = H!HTML(doc)
    BY <1>1, <1>3, HTMLAgain DEF HKept
  <2>4. QED
    BY <2>1, <2>2, <2>3
<1>4. CASE mediaType = MediaTypeCSS
  <2>1. \A in : Bytes(mediaType, in) = C!CSS(in)
    BY <1>2, <1>4 DEF Bytes
  <2>2. Source = input
    BY <1>4 DEF Source
  <2>3. C!CSS(C!CSS(input)) = C!CSS(input)
    BY <1>1, CInvAgain DEF CKept
  <2>4. QED
    BY <2>1, <2>2, <2>3
<1>5. CASE mediaType = Unknown
  <2>1. \A in : Bytes(mediaType, in) = in
    BY <1>2, <1>5 DEF Bytes
  <2>2. QED
    BY <2>1
<1>6. QED
  BY <1>1, <1>3, <1>4, <1>5 DEF MediaTypes

-----------------------------------------------------------------------------
(* The theorems, for every minifier of scripts that HTML may be given.     *)

\* However long the file is and whatever is in it, no pass over a stylesheet or
\* over a document without a script writes or holds more than it has read, nor
\* counts more parentheses than it has seen; the reader of scripts gives no
\* character two places.
THEOREM Typed ==
    ASSUME H!IsMinifier(Seq(H!DocItems))
    PROVE  Spec => []TypeOK
<1> H!IsMinifier(HText)
  BY DEF HText
<1>1. Init => IInv
  BY IInvInit
<1>2. IInv /\ [Next]_vars => IInv'
  BY IInvNext
<1>3. IInv => TypeOK
  BY IInvTyped
<1>4. QED
  BY <1>1, <1>2, <1>3, PTL DEF Spec

\* Bytes of what Bytes has returned changes nothing, of every stylesheet and of
\* every document without a stray quote in which the minifier of scripts, which
\* may fail, add items and be wrong elsewhere, finds nothing more to do in its
\* own output for the scripts of this document, and closes none of them early.
THEOREM MinifiedOnce ==
    ASSUME H!IsMinifier(Seq(H!DocItems))
    PROVE  Spec => []Idempotent
<1> H!IsMinifier(HText)
  BY DEF HText
<1>1. Init => IInv
  BY IInvInit
<1>2. IInv /\ [Next]_vars => IInv'
  BY IInvNext
<1>3. IInv => Idempotent
  BY IInvIdempotent
<1>4. QED
  BY <1>1, <1>2, <1>3, PTL DEF Spec
=============================================================================
