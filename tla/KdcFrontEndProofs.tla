------------------------- MODULE KdcFrontEndProofs -------------------------
(***************************************************************************)
(* For every text, every tree the parser may make of its tokens, and every *)
(* size of the symbol table: the tokens tile the text, numbers are worth   *)
(* what their digits say, and about the device in the tree kdalc prints an *)
(* error exactly if a name is taken twice where the symbol table has room  *)
(* for it or a bit range is inverted, and warns of the registers that      *)
(* share a byte.                                                           *)
(*                                                                         *)
(* The loop of the lexer is a recursive function of its position; LexInv   *)
(* is what each turn of it keeps, and a turn moves the position on.        *)
(***************************************************************************)
EXTENDS KdcFrontEnd, NatFacts, SequenceTheorems, FiniteSetTheorems

-----------------------------------------------------------------------------
(* Recursive functions.  That a recursive definition has a solution is     *)
(* shown once, for a body given as a function.                             *)

\* The value of the body at x, given g, depends on g only where the measure is
\* smaller than that of x.
Descends(D, V, measure, body) ==
  \A x \in D : \A g, h \in [D -> V] :
    (\A y \in D : measure[y] < measure[x] => g[y] = h[y])
      => body[<<x, g>>] = body[<<x, h>>]

SolvedBelow(D, body, measure, n, f) ==
  \A x \in D : measure[x] < n => f[x] = body[<<x, f>>]

Solves(D, body, f) == \A x \in D : f[x] = body[<<x, f>>]

LEMMA Recursion ==
  ASSUME NEW D, NEW V, V # {}, NEW bound \in Nat,
         NEW measure \in [D -> 0 .. bound],
         NEW body \in [D \X [D -> V] -> V],
         Descends(D, V, measure, body)
  PROVE  \E f \in [D -> V] : Solves(D, body, f)
<1> DEFINE Good(n) == \E f \in [D -> V] : SolvedBelow(D, body, measure, n, f)
           bad == {n \in Nat : ~Good(n)}
<1>1. Good(0)
  <2>1. PICK v \in V : TRUE
    OBVIOUS
  <2>2. [x \in D |-> v] \in [D -> V]
    OBVIOUS
  <2>3. \A x \in D : ~ (measure[x] < 0)
    BY SMT
  <2> QED BY <2>2, <2>3 DEF SolvedBelow
<1>2. ASSUME NEW n \in Nat, Good(n)
      PROVE  Good(n + 1)
  <2>1. PICK f \in [D -> V] : SolvedBelow(D, body, measure, n, f)
    BY <1>2
  <2> DEFINE g == [x \in D |-> body[<<x, f>>]]
  <2>2. g \in [D -> V]
    OBVIOUS
  <2>3. ASSUME NEW x \in D, measure[x] < n + 1
        PROVE  g[x] = body[<<x, g>>]
    <3>1. \A y \in D : measure[y] < measure[x] => f[y] = g[y]
      <4>1. \A y \in D : measure[y] < measure[x] => measure[y] < n
        BY <2>3, SMT
      <4> QED BY <2>1, <4>1 DEF SolvedBelow
    <3>2. body[<<x, f>>] = body[<<x, g>>]
      <4> HIDE DEF g
      <4> QED BY <2>2, <3>1 DEF Descends
    <3> QED BY <3>2
  <2> HIDE DEF g
  <2> QED BY <2>2, <2>3 DEF SolvedBelow
<1> HIDE DEF Good
<1>3. bad = {}
  <2> SUFFICES ASSUME bad # {} PROVE FALSE
    OBVIOUS
  <2>1. PICK n \in bad : \A m \in bad : n <= m
    BY LeastNat
  <2>2. n # 0
    BY <1>1
  <2>3. n \in Nat
    BY <2>1
  <2>4. n - 1 \in Nat /\ (n - 1) + 1 = n /\ ~ (n <= n - 1)
    BY <2>2, <2>3, Predecessor
  <2>5. Good(n - 1)
    BY <2>1, <2>4
  <2> QED BY <1>2, <2>1, <2>4, <2>5
<1>4. bound + 1 \in Nat /\ \A x \in D : measure[x] < bound + 1
  BY SMT
<1>5. Good(bound + 1)
  BY <1>3, <1>4
<1> QED BY <1>4, <1>5 DEF Good, SolvedBelow, Solves

-----------------------------------------------------------------------------
(* Positions.                                                              *)

\* j is the first position from k on that is in S, or n + 1.
IsFirst(j, k, n, S) ==
  /\ j \in k .. n + 1
  /\ j = n + 1 \/ j \in S
  /\ \A i \in k .. j - 1 : i \notin S

LEMMA FirstExists ==
  ASSUME NEW k \in Nat, NEW n \in Nat, k <= n + 1, NEW S
  PROVE  \E j : IsFirst(j, k, n, S)
<1> DEFINE T == {j \in k .. n + 1 : j = n + 1 \/ j \in S}
<1>1. T \subseteq Nat /\ n + 1 \in T
  BY SMT
<1>2. PICK j \in T : \A m \in T : j <= m
  BY <1>1, LeastNat
<1>3. \A i \in k .. j - 1 : i \in k .. n + 1 /\ ~ (j <= i)
  BY SMT
<1> QED BY <1>2, <1>3 DEF IsFirst

LEMMA SkipOverIsFirst ==
  ASSUME NEW src \in Seq(STRING), NEW k \in 1 .. Len(src) + 1, NEW S
  PROVE  /\ SkipOver(src, k, S) \in k .. Len(src) + 1
         /\ SkipOver(src, k, S) # Len(src) + 1 => src[SkipOver(src, k, S)] \notin S
         /\ \A i \in k .. SkipOver(src, k, S) - 1 : src[i] \in S
<1> DEFINE N == {j \in k .. Len(src) + 1 : src[j] \notin S}
<1>0. Len(src) \in Nat /\ k \in Nat /\ k <= Len(src) + 1
  BY LenProperties, SMT
<1>1. PICK j : IsFirst(j, k, Len(src), N)
  BY <1>0, FirstExists
<1>2. /\ j \in k .. Len(src) + 1
      /\ j = Len(src) + 1 \/ src[j] \notin S
      /\ \A i \in k .. j - 1 : ~ (src[i] \notin S)
  <2>1. j \in k .. Len(src) + 1 /\ \A i \in k .. j - 1 : i \in k .. Len(src) + 1
    BY <1>1, LenProperties, SMT DEF IsFirst
  <2> QED BY <1>1, <2>1 DEF IsFirst
<1> QED BY <1>2, Zenon DEF SkipOver, First

LEMMA SkipToIsFirst ==
  ASSUME NEW src \in Seq(STRING), NEW k \in 1 .. Len(src) + 1, NEW S
  PROVE  /\ SkipTo(src, k, S) \in k .. Len(src) + 1
         /\ SkipTo(src, k, S) # Len(src) + 1 => src[SkipTo(src, k, S)] \in S
         /\ \A i \in k .. SkipTo(src, k, S) - 1 : src[i] \notin S
<1> DEFINE N == {j \in k .. Len(src) + 1 : src[j] \in S}
<1>0. Len(src) \in Nat /\ k \in Nat /\ k <= Len(src) + 1
  BY LenProperties, SMT
<1>1. PICK j : IsFirst(j, k, Len(src), N)
  BY <1>0, FirstExists
<1>2. /\ j \in k .. Len(src) + 1
      /\ j = Len(src) + 1 \/ src[j] \in S
      /\ \A i \in k .. j - 1 : ~ (src[i] \in S)
  <2>1. j \in k .. Len(src) + 1 /\ \A i \in k .. j - 1 : i \in k .. Len(src) + 1
    BY <1>1, LenProperties, SMT DEF IsFirst
  <2> QED BY <1>1, <2>1 DEF IsFirst
<1> QED BY <1>2, Zenon DEF SkipTo, First

\* The end of a comment that there is.
Closes(src, j) == src[j] = "*" /\ At(src, j + 1) = "/"

LEMMA CommentEndIsFirst ==
  ASSUME NEW src \in Seq(STRING), NEW k \in 1 .. Len(src) + 1
  PROVE  /\ CommentEnd(src, k) \in k .. Len(src) + 1
         /\ CommentEnd(src, k) # Len(src) + 1 => Closes(src, CommentEnd(src, k))
         /\ \A i \in k .. CommentEnd(src, k) - 1 : ~Closes(src, i)
<1> DEFINE N == {j \in k .. Len(src) + 1 : Closes(src, j)}
<1>0. Len(src) \in Nat /\ k \in Nat /\ k <= Len(src) + 1
  BY LenProperties, SMT
<1>1. PICK j : IsFirst(j, k, Len(src), N)
  BY <1>0, FirstExists
<1>2. /\ j \in k .. Len(src) + 1
      /\ j = Len(src) + 1 \/ Closes(src, j)
      /\ \A i \in k .. j - 1 : ~Closes(src, i)
  <2>1. j \in k .. Len(src) + 1 /\ \A i \in k .. j - 1 : i \in k .. Len(src) + 1
    BY <1>1, LenProperties, SMT DEF IsFirst
  <2> QED BY <1>1, <2>1 DEF IsFirst
<1> QED BY <1>2, Zenon DEF CommentEnd, First, Closes

-----------------------------------------------------------------------------
(* Blanks and comments.                                                    *)

\* Whether there are only blanks and comments from i to j, given that of the
\* positions before.
GapStep(src, i, gap, j) ==
  \/ j = i - 1
  \/ j >= i /\ src[j] \in Blanks /\ gap[j - 1]
  \/ \E b \in i .. j - 1 : src[b] = "/" /\ Comment(src, b, j) /\ gap[b - 1]

LEMMA GapStepDescends ==
  ASSUME NEW src \in Seq(STRING), NEW i \in 1 .. Len(src) + 1,
         NEW j \in i - 1 .. Len(src),
         NEW g, NEW h, \A m \in i - 1 .. Len(src) : m < j => g[m] = h[m]
  PROVE  GapStep(src, i, g, j) <=> GapStep(src, i, h, j)
<1>1. Len(src) \in Nat
  BY LenProperties
<1>2. j >= i => j - 1 \in i - 1 .. Len(src) /\ j - 1 < j
  BY <1>1, SMT
<1>3. \A b \in i .. j - 1 : b - 1 \in i - 1 .. Len(src) /\ b - 1 < j
  BY <1>1, SMT
<1>4. j >= i => g[j - 1] = h[j - 1]
  BY <1>2
<1>5. \A b \in i .. j - 1 : g[b - 1] = h[b - 1]
  BY <1>3
<1> QED BY <1>4, <1>5, Zenon DEF GapStep

LEMMA GapsEquation ==
  ASSUME NEW src \in Seq(STRING), NEW i \in 1 .. Len(src) + 1
  PROVE  Gaps(src, i) = [j \in i - 1 .. Len(src) |-> GapStep(src, i, Gaps(src, i), j)]
<1> DEFINE D == i - 1 .. Len(src)
           measure == [j \in D |-> j]
           body == [p \in D \X [D -> BOOLEAN] |-> GapStep(src, i, p[2], p[1])]
<1>1. Len(src) \in Nat /\ D \subseteq Nat
  BY LenProperties, SMT
<1>2. measure \in [D -> 0 .. Len(src)]
  BY <1>1, SMT
<1>3. body \in [D \X [D -> BOOLEAN] -> BOOLEAN]
  <2>1. \A g, j : GapStep(src, i, g, j) \in BOOLEAN
    BY DEF GapStep
  <2> QED BY <2>1
<1>4. Descends(D, BOOLEAN, measure, body)
  <2> SUFFICES ASSUME NEW j \in D, NEW g \in [D -> BOOLEAN], NEW h \in [D -> BOOLEAN],
                      \A m \in D : measure[m] < measure[j] => g[m] = h[m]
               PROVE  body[<<j, g>>] = body[<<j, h>>]
    BY Zenon DEF Descends
  <2>1. \A m \in D : m < j => g[m] = h[m]
    OBVIOUS
  <2>2. GapStep(src, i, g, j) = GapStep(src, i, h, j)
    <3>1. GapStep(src, i, g, j) <=> GapStep(src, i, h, j)
      BY <2>1, GapStepDescends
    <3>2. \A f : GapStep(src, i, f, j) \in BOOLEAN
      BY DEF GapStep
    <3> QED BY <3>1, <3>2
  <2> QED BY <2>2
<1>5. PICK f \in [D -> BOOLEAN] : Solves(D, body, f)
  <2> HIDE DEF D, measure, body
  <2> QED BY <1>1, <1>2, <1>3, <1>4, Recursion
<1>6. \A j \in D : f[j] = GapStep(src, i, f, j)
  BY <1>5 DEF Solves
<1>7. f = [j \in D |-> GapStep(src, i, f, j)]
  BY <1>6
<1> QED BY <1>7, Zenon DEF Gaps, GapStep

\* A gap begins empty, and goes on with a blank or with a comment.
LEMMA GapGrows ==
  ASSUME NEW src \in Seq(STRING), NEW i \in 1 .. Len(src) + 1
  PROVE  /\ Gaps(src, i)[i - 1]
         /\ \A j \in i .. Len(src) :
              src[j] \in Blanks /\ Gaps(src, i)[j - 1] => Gaps(src, i)[j]
         /\ \A j \in i .. Len(src) : \A b \in i .. j - 1 :
              src[b] = "/" /\ Comment(src, b, j) /\ Gaps(src, i)[b - 1]
                => Gaps(src, i)[j]
<1>1. Len(src) \in Nat
  BY LenProperties
<1>2. \A j \in i - 1 .. Len(src) : Gaps(src, i)[j] = GapStep(src, i, Gaps(src, i), j)
  <2> DEFINE G == Gaps(src, i)
  <2>1. G = [j \in i - 1 .. Len(src) |-> GapStep(src, i, G, j)]
    BY GapsEquation
  <2> HIDE DEF G
  <2>2. \A j \in i - 1 .. Len(src) : G[j] = GapStep(src, i, G, j)
    BY <2>1, Zenon
  <2> QED BY <2>2 DEF G
<1>3. i - 1 \in i - 1 .. Len(src)
  BY <1>1, SMT
<1>4. \A j \in i .. Len(src) : j \in i - 1 .. Len(src) /\ j >= i
  BY <1>1, SMT
<1> QED BY <1>2, <1>3, <1>4, Zenon DEF GapStep

-----------------------------------------------------------------------------
(* Strings.                                                                *)

StopStep(src, stop, k) ==
  CASE k > Len(src) -> Len(src) + 1
    [] k <= Len(src) /\ src[k] \in {"\"", "\n"} -> k
    [] k <= Len(src) /\ src[k] = "\\" -> stop[k + 2]
    [] OTHER -> stop[k + 1]

\* The four cases of it.
LEMMA StopCases ==
  ASSUME NEW src \in Seq(STRING), NEW stop, NEW k \in 1 .. Len(src) + 2
  PROVE  \/ k > Len(src) /\ StopStep(src, stop, k) = Len(src) + 1
         \/ k <= Len(src) /\ StopStep(src, stop, k) = k
         \/ k <= Len(src) /\ src[k] = "\\" /\ StopStep(src, stop, k) = stop[k + 2]
         \/ /\ k <= Len(src) /\ src[k] \notin {"\"", "\n", "\\"}
            /\ StopStep(src, stop, k) = stop[k + 1]
<1>1. k > Len(src) \/ k <= Len(src)
  BY LenProperties, SMT
<1>2. ~ (k > Len(src) /\ k <= Len(src))
  BY LenProperties, SMT
<1>3. "\"" # "\\" /\ "\n" # "\\"
  BY SMT
<1> QED BY <1>1, <1>2, <1>3, Zenon DEF StopStep

LEMMA StringStopsEquation ==
  ASSUME NEW src \in Seq(STRING)
  PROVE  StringStops(src) =
           [k \in 1 .. Len(src) + 2 |-> StopStep(src, StringStops(src), k)]
<1> DEFINE D == 1 .. Len(src) + 2
           V == 1 .. Len(src) + 1
           measure == [k \in D |-> Len(src) + 2 - k]
           body == [p \in D \X [D -> V] |-> StopStep(src, p[2], p[1])]
<1>1. Len(src) \in Nat /\ Len(src) + 1 \in V /\ Len(src) + 2 \in Nat
  BY LenProperties, SMT
<1>2. measure \in [D -> 0 .. Len(src) + 2]
  BY <1>1, SMT
<1>3. body \in [D \X [D -> V] -> V]
  <2>1. ASSUME NEW g \in [D -> V], NEW k \in D
        PROVE  StopStep(src, g, k) \in V
    <3>1. k <= Len(src) => k \in V /\ k + 1 \in D /\ k + 2 \in D
      BY <1>1, SMT
    <3> HIDE DEF D, V
    <3>2. k <= Len(src) => g[k + 1] \in V /\ g[k + 2] \in V
      BY <3>1
    <3>3. k \in 1 .. Len(src) + 2
      BY DEF D
    <3>4. \/ StopStep(src, g, k) = Len(src) + 1
          \/ k <= Len(src) /\ StopStep(src, g, k) \in {k, g[k + 1], g[k + 2]}
      BY <3>3, StopCases
    <3> QED BY <1>1, <3>1, <3>2, <3>4
  <2> QED BY <2>1
<1>4. Descends(D, V, measure, body)
  <2> SUFFICES ASSUME NEW k \in D, NEW g \in [D -> V], NEW h \in [D -> V],
                      \A m \in D : measure[m] < measure[k] => g[m] = h[m]
               PROVE  body[<<k, g>>] = body[<<k, h>>]
    BY Zenon DEF Descends
  <2>1. k <= Len(src) => g[k + 1] = h[k + 1] /\ g[k + 2] = h[k + 2]
    <3>1. k <= Len(src) => /\ k + 1 \in D /\ Len(src) + 2 - (k + 1) < Len(src) + 2 - k
                           /\ k + 2 \in D /\ Len(src) + 2 - (k + 2) < Len(src) + 2 - k
      BY <1>1, SMT
    <3> QED BY <3>1
  <2>2. StopStep(src, g, k) = StopStep(src, h, k)
    <3>1. CASE k <= Len(src)
      BY <2>1, <3>1, Zenon DEF StopStep
    <3>2. CASE ~ (k <= Len(src))
      <4>1. k > Len(src)
        BY <1>1, <3>2, SMT
      <4> QED BY <3>2, <4>1, Zenon DEF StopStep
    <3> QED BY <3>1, <3>2
  <2> QED BY <2>2
<1>5. PICK f \in [D -> V] : Solves(D, body, f)
  <2> HIDE DEF D, V, measure, body
  <2> QED BY <1>1, <1>2, <1>3, <1>4, Recursion
<1>6. \A k \in D : f[k] = StopStep(src, f, k)
  BY <1>5 DEF Solves
<1>7. f = [k \in D |-> StopStep(src, f, k)]
  BY <1>6
<1> QED BY <1>7, Zenon DEF StringStops, StopStep

\* A string stops behind where its text goes on, and not past the end by more
\* than one position.
LEMMA StringStopBehind ==
  ASSUME NEW src \in Seq(STRING), NEW k \in 1 .. Len(src) + 1
  PROVE  StringStop(src, k) \in k .. Len(src) + 1
<1> DEFINE n == Len(src)
           stop == StringStops(src)
           Fine(j) == stop[j] \in Nat /\ stop[j] <= n + 1 /\ (stop[j] >= j \/ stop[j] = n + 1)
           bad == {m \in Nat : \E j \in 1 .. n + 2 : m = n + 2 - j /\ ~Fine(j)}
<1>1. n \in Nat
  BY LenProperties
<1>2. \A j \in 1 .. n + 2 : stop[j] = StopStep(src, stop, j)
  <2>1. stop = [j \in 1 .. Len(src) + 2 |-> StopStep(src, stop, j)]
    BY StringStopsEquation
  <2> HIDE DEF stop
  <2> QED BY <2>1, Zenon
<1>3. bad = {}
  <2> SUFFICES ASSUME bad # {} PROVE FALSE
    OBVIOUS
  <2>1. PICK m \in bad : \A o \in bad : m <= o
    BY LeastNat
  <2>2. PICK j \in 1 .. n + 2 : m = n + 2 - j /\ ~Fine(j)
    BY <2>1
  <2>3. ASSUME NEW i \in 1 .. n + 2, i > j PROVE Fine(i)
    <3>1. n + 2 - i \in Nat /\ ~ (m <= n + 2 - i)
      BY <1>1, <2>2, <2>3, SMT
    <3> HIDE DEF Fine
    <3> QED BY <2>1, <3>1
  <2>4. j <= n => j + 1 \in 1 .. n + 2 /\ j + 1 > j /\ j + 2 \in 1 .. n + 2 /\ j + 2 > j
    BY <1>1, SMT
  <2>5. j <= n => Fine(j + 1) /\ Fine(j + 2)
    BY <2>3, <2>4
  <2>6. \/ j > n /\ stop[j] = n + 1
        \/ j <= n /\ stop[j] \in {j, stop[j + 2], stop[j + 1]}
    <3>1. stop[j] = StopStep(src, stop, j)
      BY <1>2
    <3>2. j \in 1 .. Len(src) + 2
      OBVIOUS
    <3> HIDE DEF stop
    <3>3. \/ j > Len(src) /\ StopStep(src, stop, j) = Len(src) + 1
          \/ j <= Len(src) /\ StopStep(src, stop, j) \in {j, stop[j + 2], stop[j + 1]}
      BY <3>2, StopCases
    <3> QED BY <3>1, <3>3
  <2> HIDE DEF n, stop
  <2>7. CASE j > n /\ stop[j] = n + 1
    <3>1. n + 1 \in Nat /\ n + 1 <= n + 1
      BY <1>1, SMT
    <3> QED BY <2>2, <2>7, <3>1
  <2>8. CASE j <= n /\ stop[j] = j
    <3>1. j \in Nat /\ j <= n + 1 /\ j >= j
      BY <1>1, <2>8, SMT
    <3> QED BY <2>2, <2>8, <3>1
  <2>9. ASSUME NEW i \in {j + 1, j + 2}, j <= n, stop[j] = stop[i] PROVE FALSE
    <3>1. Fine(i)
      BY <2>5, <2>9
    <3>2. \A x \in Nat : x >= i => x >= j
      BY <2>9, SMT
    <3> QED BY <2>2, <2>9, <3>1, <3>2
  <2> QED BY <2>6, <2>7, <2>8, <2>9
<1>4. Fine(k)
  <2>1. k \in 1 .. n + 2 /\ n + 2 - k \in Nat
    BY <1>1, SMT
  <2> HIDE DEF Fine, n
  <2> QED BY <1>3, <2>1
<1> HIDE DEF n, stop
<1>5. stop[k] \in k .. n + 1
  <2>1. k \in 1 .. n + 1
    BY DEF n
  <2> QED BY <1>1, <1>4, <2>1, SMT
<1> QED BY <1>5 DEF StringStop, stop, n

-----------------------------------------------------------------------------
(* Numbers.                                                                *)

\* f is built up from a by the step, which is given as a function.
Folds(f, a, m, n, step) ==
  \A j \in m .. n : f[j] = IF j = m THEN a ELSE step[<<j, f[j - 1]>>]

LEMMA Fold ==
  ASSUME NEW V, NEW a \in V, NEW m \in Nat, NEW n \in Nat,
         NEW step \in [(m + 1 .. n) \X V -> V]
  PROVE  \E f \in [m .. n -> V] : Folds(f, a, m, n, step)
<1> DEFINE D == m .. n
           measure == [j \in D |-> j]
           next(g, j) == IF j = m THEN a ELSE step[<<j, g[j - 1]>>]
           body == [p \in D \X [D -> V] |-> next(p[2], p[1])]
<1>1. D \subseteq Nat /\ \A j \in D : j # m => j \in m + 1 .. n /\ j - 1 \in D /\ j - 1 < j
  BY SMT
<1>2. measure \in [D -> 0 .. n]
  BY <1>1, SMT
<1>3. body \in [D \X [D -> V] -> V]
  <2>1. ASSUME NEW g \in [D -> V], NEW j \in D PROVE next(g, j) \in V
    <3> HIDE DEF D
    <3>1. j # m => <<j, g[j - 1]>> \in (m + 1 .. n) \X V
      BY <1>1
    <3> QED BY <3>1
  <2> HIDE DEF next
  <2> QED BY <2>1
<1>4. Descends(D, V, measure, body)
  <2> SUFFICES ASSUME NEW j \in D, NEW g \in [D -> V], NEW h \in [D -> V],
                      \A i \in D : measure[i] < measure[j] => g[i] = h[i]
               PROVE  body[<<j, g>>] = body[<<j, h>>]
    BY Zenon DEF Descends
  <2>1. j # m => g[j - 1] = h[j - 1]
    BY <1>1
  <2>2. next(g, j) = next(h, j)
    BY <2>1, Zenon
  <2> HIDE DEF next
  <2> QED BY <2>2
<1>5. PICK f \in [D -> V] : Solves(D, body, f)
  <2> HIDE DEF D, measure, body
  <2> QED BY <1>2, <1>3, <1>4, Recursion
<1>6. \A j \in D : f[j] = next(f, j)
  <2> HIDE DEF next
  <2> QED BY <1>5 DEF Solves
<1> QED BY <1>6 DEF Folds

Bases == {2, 10, 16}

\* The pieces from k to last are digits in that base.
DigitRun(src, k, last, base) == \A j \in k .. last : src[j] \in DigitsOf(base)

LEMMA DigitValues ==
  \A base : \A d \in DigitsOf(base) : d \in DOMAIN DigitValue /\ DigitValue[d] \in Nat
BY DigitsAssumption, SMT DEF DigitsOf

LEMMA ValuesEquation ==
  ASSUME NEW src \in Seq(STRING), NEW k \in 1 .. Len(src) + 1,
         NEW last \in k - 1 .. Len(src), NEW base \in Bases,
         DigitRun(src, k, last, base)
  PROVE  /\ Values(src, k, last, base) \in [k - 1 .. last -> Nat]
         /\ \A j \in k - 1 .. last :
              Values(src, k, last, base)[j] =
                IF j = k - 1 THEN 0
                ELSE Values(src, k, last, base)[j - 1] * base + DigitValue[src[j]]
<1> DEFINE step == [p \in ((k - 1) + 1 .. last) \X Nat |-> p[2] * base + DigitValue[src[p[1]]]]
           F(f) == [j \in k - 1 .. last |->
                      IF j = k - 1 THEN 0 ELSE f[j - 1] * base + DigitValue[src[j]]]
<1>1. k - 1 \in Nat /\ last \in Nat /\ Len(src) \in Nat /\ 0 \in Nat /\ base \in Nat
  BY LenProperties, SMT DEF Bases
<1>2. (k - 1) + 1 .. last = k .. last
  BY <1>1, SMT
<1>3. step \in [((k - 1) + 1 .. last) \X Nat -> Nat]
  <2>1. ASSUME NEW j \in k .. last, NEW v \in Nat
        PROVE  v * base + DigitValue[src[j]] \in Nat
    <3>1. DigitValue[src[j]] \in Nat
      BY DigitValues DEF DigitRun
    <3>2. v * base \in Nat
      BY <1>1, SMT
    <3> QED BY <3>1, <3>2, SMT
  <2> QED BY <1>2, <2>1
<1>4. PICK f \in [k - 1 .. last -> Nat] : Folds(f, 0, k - 1, last, step)
  <2> HIDE DEF step
  <2> QED BY <1>1, <1>3, Fold
<1>5. \A j \in k - 1 .. last : j # k - 1 =>
        j \in (k - 1) + 1 .. last /\ j - 1 \in k - 1 .. last
  BY <1>1, SMT
<1>6. \A j \in k - 1 .. last :
        f[j] = IF j = k - 1 THEN 0 ELSE f[j - 1] * base + DigitValue[src[j]]
  <2> SUFFICES ASSUME NEW j \in k - 1 .. last, j # k - 1
               PROVE  step[<<j, f[j - 1]>>] = f[j - 1] * base + DigitValue[src[j]]
    BY <1>4 DEF Folds
  <2>1. <<j, f[j - 1]>> \in ((k - 1) + 1 .. last) \X Nat
    BY <1>5
  <2> QED BY <2>1
<1>7. f = F(f)
  BY <1>6
<1>8. Values(src, k, last, base) = CHOOSE g : g = F(g)
  BY Zenon DEF Values
<1> DEFINE w == Values(src, k, last, base)
<1> HIDE DEF w
<1>9. w = F(w)
  <2> HIDE DEF F
  <2> QED BY <1>7, <1>8, Zenon DEF w
<1>10. \A j \in k - 1 .. last :
         w[j] = IF j = k - 1 THEN 0 ELSE w[j - 1] * base + DigitValue[src[j]]
  BY <1>9, Zenon
<1>12. \A j \in k - 1 .. last : w[j] \in Nat
  <2> DEFINE S == {j \in k - 1 .. last : w[j] \in Nat}
  <2>1. k - 1 \in S
    BY <1>1, <1>10, SMT
  <2>2. ASSUME NEW j \in (k - 1) + 1 .. last, j - 1 \in S PROVE j \in S
    <3>1. j \in k - 1 .. last /\ j # k - 1
      BY <1>1, SMT
    <3>2. w[j] = w[j - 1] * base + DigitValue[src[j]] /\ w[j - 1] \in Nat
      BY <1>10, <2>2, <3>1
    <3>3. <<j, w[j - 1]>> \in ((k - 1) + 1 .. last) \X Nat
      BY <2>2
    <3>4. step[<<j, w[j - 1]>>] = w[j - 1] * base + DigitValue[src[j]]
      BY <3>3
    <3> HIDE DEF step
    <3> QED BY <1>3, <3>1, <3>2, <3>3, <3>4
  <2> HIDE DEF S
  <2>3. \A j \in k - 1 .. last : j \in S
    BY <1>1, <2>1, <2>2, Upwards
  <2> QED BY <2>3 DEF S
<1>13. w \in [k - 1 .. last -> Nat]
  BY <1>9, <1>12, Zenon
<1> QED BY <1>10, <1>13 DEF w

\* A value that is cut off at LongMax digit by digit is cut off there in the end.
LEMMA SaturatingStep ==
  ASSUME NEW v \in Nat, NEW d \in Nat, NEW base \in Bases
  PROVE  Saturating(Lesser(v, LongMax) * base + d) = Lesser(v * base + d, LongMax)
<1>1. CASE v < LongMax
  BY <1>1 DEF Saturating, Lesser
<1>2. CASE ~ (v < LongMax)
  <2>1. LongMax * base + d >= LongMax /\ v * base + d >= LongMax
    BY <1>2, LongMaxAssumption, SMT DEF Bases
  <2>2. LongMax * base + d \in Nat /\ v * base + d \in Nat
    BY LongMaxAssumption, SMT DEF Bases
  <2> QED BY <1>2, <2>1, <2>2, LongMaxAssumption, SMT DEF Saturating, Lesser
<1> QED BY <1>1, <1>2

\* What strtoll reads of a run of digits is the value of the run, or LongMax.
LEMMA DigitsAtRun ==
  ASSUME NEW src \in Seq(STRING), NEW k \in 1 .. Len(src) + 1, NEW base \in Bases,
         NEW last, last = SkipOver(src, k, DigitsOf(base)) - 1
  PROVE  /\ last \in k - 1 .. Len(src)
         /\ DigitRun(src, k, last, base)
         /\ Values(src, k, last, base)[last] \in Nat
         /\ DigitsAt(src, k, base) = Lesser(Values(src, k, last, base)[last], LongMax)
<1> DEFINE v == Values(src, k, last, base)
           G(f) == [j \in k - 1 .. last |->
                      IF j = k - 1 THEN 0
                      ELSE Saturating(f[j - 1] * base + DigitValue[src[j]])]
           w == DigitsRead(src, k, base)
           f == [j \in k - 1 .. last |-> Lesser(v[j], LongMax)]
<1>1. Len(src) \in Nat
  BY LenProperties
<1>2. last \in k - 1 .. Len(src) /\ DigitRun(src, k, last, base)
  <2>1. SkipOver(src, k, DigitsOf(base)) \in k .. Len(src) + 1
    BY SkipOverIsFirst
  <2>2. \A j \in k .. SkipOver(src, k, DigitsOf(base)) - 1 : src[j] \in DigitsOf(base)
    BY SkipOverIsFirst
  <2> QED BY <1>1, <2>1, <2>2 DEF DigitRun
<1>3. v \in [k - 1 .. last -> Nat]
  BY <1>2, ValuesEquation
<1>4. \A j \in k - 1 .. last :
        v[j] = IF j = k - 1 THEN 0 ELSE v[j - 1] * base + DigitValue[src[j]]
  BY <1>2, ValuesEquation
<1> HIDE DEF v
<1>5. \A j \in k - 1 .. last : j # k - 1 =>
        /\ j \in k .. last /\ j - 1 \in k - 1 .. last
        /\ DigitValue[src[j]] \in Nat /\ v[j - 1] \in Nat
  <2>1. \A j \in k - 1 .. last : j # k - 1 => j \in k .. last /\ j - 1 \in k - 1 .. last
    BY <1>1, <1>2, SMT
  <2> QED BY <1>2, <1>3, <2>1, DigitValues DEF DigitRun
<1>6. \A j \in k - 1 .. last : j # k - 1 =>
        Saturating(Lesser(v[j - 1], LongMax) * base + DigitValue[src[j]])
          = Lesser(v[j], LongMax)
  BY <1>4, <1>5, SaturatingStep
<1>7. Lesser(0, LongMax) = 0
  BY LongMaxAssumption, SMT DEF Lesser
<1>8. f = G(f)
  <2>1. \A j \in k - 1 .. last :
          Lesser(v[j], LongMax) =
            IF j = k - 1 THEN 0
            ELSE Saturating(Lesser(v[j - 1], LongMax) * base + DigitValue[src[j]])
    BY <1>4, <1>6, <1>7
  <2>2. \A j \in k - 1 .. last : j # k - 1 => f[j - 1] = Lesser(v[j - 1], LongMax)
    BY <1>5
  <2> QED BY <2>1, <2>2
<1>9. w = CHOOSE g : g = G(g)
  BY Zenon DEF DigitsRead
<1> HIDE DEF w
<1>10. w = G(w)
  <2> HIDE DEF G, f
  <2> QED BY <1>8, <1>9, Zenon
<1>11. \A j \in k - 1 .. last :
         w[j] = IF j = k - 1 THEN 0
                ELSE Saturating(w[j - 1] * base + DigitValue[src[j]])
  BY <1>10, Zenon
<1>12. \A j \in k - 1 .. last : w[j] = Lesser(v[j], LongMax)
  <2> DEFINE S == {j \in k - 1 .. last : w[j] = Lesser(v[j], LongMax)}
  <2>1. k - 1 \in S
    BY <1>1, <1>2, <1>4, <1>7, <1>11
  <2>2. ASSUME NEW j \in (k - 1) + 1 .. last, j - 1 \in S PROVE j \in S
    <3>1. j \in k - 1 .. last /\ j # k - 1
      BY <1>1, <1>2, SMT
    <3> QED BY <1>6, <1>11, <2>2, <3>1
  <2>3. k - 1 \in Nat /\ last \in Nat
    BY <1>1, <1>2, SMT
  <2> HIDE DEF S
  <2>4. \A j \in k - 1 .. last : j \in S
    BY <2>1, <2>2, <2>3, Upwards
  <2> QED BY <2>4 DEF S
<1>13. last \in k - 1 .. last
  BY <1>1, <1>2, SMT
<1>14. DigitsAt(src, k, base) = w[last]
  BY DEF DigitsAt, w
<1> QED BY <1>2, <1>3, <1>12, <1>13, <1>14 DEF v

LEMMA DigitsAtNat ==
  ASSUME NEW src \in Seq(STRING), NEW k \in 1 .. Len(src) + 1, NEW base \in Bases
  PROVE  DigitsAt(src, k, base) \in Nat
<1> DEFINE last == SkipOver(src, k, DigitsOf(base)) - 1
<1>1. \E v \in Nat : DigitsAt(src, k, base) = Lesser(v, LongMax)
  <2> HIDE DEF last
  <2>1. last = SkipOver(src, k, DigitsOf(base)) - 1
    BY DEF last
  <2> QED BY <2>1, DigitsAtRun
<1> QED BY <1>1, LongMaxAssumption DEF Lesser

LEMMA AtInside ==
  ASSUME NEW src \in Seq(STRING), NEW k \in Nat
  PROVE  /\ k <= Len(src) => At(src, k) = src[k]
         /\ At(src, k) # "NUL" => k <= Len(src)
BY DEF At

LEMMA AfterPrefixInside ==
  ASSUME NEW src \in Seq(STRING), NEW k \in 1 .. Len(src) + 1, NEW base
  PROVE  AfterPrefix(src, k, base) \in 1 .. Len(src) + 1
<1>1. Len(src) \in Nat /\ k + 1 \in Nat
  BY LenProperties, SMT
<1>2. At(src, k + 1) = "x" => k + 1 <= Len(src)
  BY <1>1, AtInside
<1> QED BY <1>1, <1>2, SMT DEF AfterPrefix

LEMMA StrToLLInt ==
  ASSUME NEW src \in Seq(STRING), NEW k \in 1 .. Len(src) + 1, NEW base \in Bases
  PROVE  StrToLL(src, k, base) \in Int
<1> DEFINE m == SkipOver(src, k, Blanks)
<1>1. m \in 1 .. Len(src) + 1 /\ m \in Nat /\ Len(src) \in Nat
  <2>1. m \in k .. Len(src) + 1
    BY SkipOverIsFirst
  <2> HIDE DEF m
  <2> QED BY <2>1, LenProperties, SMT
<1> HIDE DEF m
<1>2. At(src, m) \in {"-", "+"} => m + 1 \in 1 .. Len(src) + 1
  <2>1. At(src, m) \in {"-", "+"} => m <= Len(src)
    BY <1>1, AtInside
  <2> QED BY <1>1, <2>1, SMT
<1>3. \A j \in 1 .. Len(src) + 1 : DigitsAt(src, AfterPrefix(src, j, base), base) \in Nat
  BY AfterPrefixInside, DigitsAtNat
<1>4. SignedAt(src, m, base) \in Int
  <2>1. CASE At(src, m) = "-"
    <3>1. SignedAt(src, m, base) = -DigitsAt(src, AfterPrefix(src, m + 1, base), base)
      BY <2>1, Zenon DEF SignedAt
    <3>2. DigitsAt(src, AfterPrefix(src, m + 1, base), base) \in Nat
      BY <1>2, <1>3, <2>1
    <3> QED BY <3>1, <3>2, SMT
  <2>2. CASE At(src, m) = "+"
    <3>1. SignedAt(src, m, base) = DigitsAt(src, AfterPrefix(src, m + 1, base), base)
      <4>1. "+" # "-"
        BY SMT
      <4> QED BY <2>2, <4>1, Zenon DEF SignedAt
    <3>2. DigitsAt(src, AfterPrefix(src, m + 1, base), base) \in Nat
      BY <1>2, <1>3, <2>2
    <3> QED BY <3>1, <3>2, SMT
  <2>3. CASE At(src, m) \notin {"-", "+"}
    <3>1. SignedAt(src, m, base) = DigitsAt(src, AfterPrefix(src, m, base), base)
      BY <2>3, Zenon DEF SignedAt
    <3>2. DigitsAt(src, AfterPrefix(src, m, base), base) \in Nat
      BY <1>1, <1>3
    <3> QED BY <3>1, <3>2, SMT
  <2> QED BY <2>1, <2>2, <2>3
<1> QED BY <1>4 DEF StrToLL, m

\* A run ends where a piece is not in the set.
LEMMA SkipOverStops ==
  ASSUME NEW src \in Seq(STRING), NEW k \in 1 .. Len(src) + 1, NEW S,
         NEW j \in k .. Len(src), src[j] \notin S
  PROVE  SkipOver(src, k, S) <= j
<1> DEFINE m == SkipOver(src, k, S)
<1>1. m \in k .. Len(src) + 1 /\ \A i \in k .. m - 1 : src[i] \in S
  BY SkipOverIsFirst
<1> HIDE DEF m
<1>2. ~ (m <= j) => j \in k .. m - 1
  BY <1>1, LenProperties, SMT
<1> QED BY <1>1, <1>2 DEF m

\* The digits begin at k, and the token is what a literal makes of them.
LEMMA LiteralRead ==
  ASSUME NEW src \in Seq(STRING), NEW k \in 1 .. Len(src) + 1, NEW base \in Bases,
         NEW token, BaseOf(token.type) = base, DigitsFrom(token) = k,
         token.last = SkipOver(src, k, DigitsOf(base)) - 1,
         token.value = StrToLL(src, k, base)
  PROVE  NumberRead(src, token)
<1> DEFINE last == token.last
           end == SkipOver(src, k, DigitsOf(base))
<1>1. Len(src) \in Nat /\ end \in k .. Len(src) + 1 /\ \A i \in k .. end - 1 : src[i] \in DigitsOf(base)
  BY LenProperties, SkipOverIsFirst
<1>2. last = end - 1
  OBVIOUS
<1> HIDE DEF end
<1>3. CASE end = k
  <2>1. k > last
    BY <1>1, <1>2, <1>3, SMT
  <2> QED BY <2>1 DEF NumberRead
<1>4. CASE end # k
  <2>1. k \in 1 .. Len(src) /\ k \in k .. end - 1 /\ k \in Nat /\ k + 1 \in Nat /\ k <= Len(src)
    BY <1>1, <1>4, SMT
  <2>2. src[k] \in DigitsOf(base) /\ At(src, k) = src[k]
    BY <1>1, <2>1, AtInside
  <2>3. src[k] \notin Blanks /\ src[k] \notin {"+", "-"}
    BY <2>2, DigitsAssumption DEF DigitsOf
  <2>4. SkipOver(src, k, Blanks) = k
    <3>1. SkipOver(src, k, Blanks) \in k .. Len(src) + 1
      BY SkipOverIsFirst
    <3>2. SkipOver(src, k, Blanks) <= k
      <4>1. k \in k .. Len(src)
        BY <2>1, SMT
      <4> QED BY <2>3, <4>1, SkipOverStops
    <3> QED BY <3>1, <3>2, SMT
  <2>5. token.value = DigitsAt(src, AfterPrefix(src, k, base), base)
    BY <2>2, <2>3, <2>4, Zenon DEF StrToLL, SignedAt
  <2>6. CASE base = 16 /\ At(src, k) = "0" /\ At(src, k + 1) = "x"
    <3>1. k + 1 <= Len(src) /\ src[k + 1] = "x"
      BY <2>1, <2>6, AtInside
    <3>2. src[k + 1] \notin DigitsOf(base) /\ k + 1 \in k .. Len(src)
      BY <2>1, <3>1, DigitsAssumption DEF DigitsOf
    <3>3. end <= k + 1
      BY <3>2, SkipOverStops DEF end
    <3>4. last + 1 = k + 1
      BY <1>1, <1>2, <1>4, <3>3, SMT
    <3> QED BY <2>6, <3>4 DEF NumberRead
  <2>7. CASE ~ (base = 16 /\ At(src, k) = "0" /\ At(src, k + 1) = "x")
    <3>1. token.value = DigitsAt(src, k, base)
      BY <2>5, <2>7, Zenon DEF AfterPrefix
    <3>2. DigitsAt(src, k, base) = Lesser(Values(src, k, last, base)[last], LongMax)
      <4>1. last = SkipOver(src, k, DigitsOf(base)) - 1
        OBVIOUS
      <4> HIDE DEF last
      <4> QED BY <4>1, DigitsAtRun
    <3>3. ValueOf(src, token) = Values(src, k, last, base)[last]
      BY Zenon DEF ValueOf
    <3> QED BY <3>1, <3>2, <3>3, Zenon DEF NumberRead
  <2> QED BY <2>6, <2>7
<1> QED BY <1>3, <1>4

-----------------------------------------------------------------------------
(* The turns of the loop.                                                  *)

NumberTypes == {"INT", "HEX", "BINLIT"}

TokenOf(lx, k, type, value) ==
  [type |-> type, first |-> lx.pos, last |-> k - 1, line |-> lx.line, value |-> value]

\* What is from p to before k is a blank or a comment.
Skips(src, p, k) ==
  \/ k = p + 1 /\ src[p] \in Blanks
  \/ src[p] = "/" /\ Comment(src, p, k - 1)

Moves(src, lx, new, k) == new = MoveTo(lx, k) /\ Skips(src, lx.pos, k)

Emits(src, lx, new, k) ==
  \E type \in TokenTypes, value \in Int :
    /\ new = Emit(lx, k, type, value)
    /\ type \in NumberTypes => NumberRead(src, TokenOf(lx, k, type, value))

TurnsTo(src, lx, new, k) ==
  new = Reject(lx, k) \/ Moves(src, lx, new, k) \/ Emits(src, lx, new, k)

\* A turn of the loop rejects something, passes over something or makes a token,
\* and does so by moving on.
Turn(src, lx, new) == \E k \in lx.pos + 1 .. Len(src) + 1 : TurnsTo(src, lx, new, k)

\* Inside the text.
Inside(src, lx) ==
  /\ src \in Seq(STRING) /\ Len(src) \in Nat
  /\ lx.src = src /\ lx.pos \in 1 .. Len(src) /\ lx.pos \in Nat
  /\ At(src, lx.pos) = src[lx.pos]
  /\ At(src, lx.pos + 1) # "NUL" =>
       lx.pos + 1 <= Len(src) /\ At(src, lx.pos + 1) = src[lx.pos + 1]

LEMMA WordTurns ==
  ASSUME NEW src, NEW lx, Inside(src, lx), src[lx.pos] \in Letters
  PROVE  Turn(src, lx, Word(lx))
<1> DEFINE k == SkipOver(src, lx.pos, IdentChars)
           type == Classify(SubSeq(src, lx.pos, k - 1))
<1>1. k \in lx.pos + 1 .. Len(src) + 1
  <2>1. lx.pos \in 1 .. Len(src) + 1 /\ src \in Seq(STRING) /\ Len(src) \in Nat
        /\ lx.pos \in 1 .. Len(src)
    BY SMT DEF Inside
  <2>2. k \in lx.pos .. Len(src) + 1 /\ (k # Len(src) + 1 => src[k] \notin IdentChars)
    BY <2>1, SkipOverIsFirst
  <2>3. src[lx.pos] \in IdentChars
    BY DEF IdentChars
  <2> HIDE DEF k
  <2>4. k # lx.pos
    BY <2>1, <2>2, <2>3, SMT
  <2> QED BY <2>1, <2>2, <2>4, SMT
<1>2. Word(lx) = Emit(lx, k, type, 0)
  <2>1. lx.src = src
    BY DEF Inside
  <2> QED BY <2>1, Zenon DEF Word, WordTo, Slice
<1>3. type \in TokenTypes /\ type \notin NumberTypes
  BY DEF Classify, TokenTypes, NumberTypes
<1>4. 0 \in Int
  BY SMT
<1> HIDE DEF k, type
<1>5. Emits(src, lx, Word(lx), k)
  BY <1>2, <1>3, <1>4 DEF Emits
<1> QED BY <1>1, <1>5 DEF Turn, TurnsTo

LEMMA LiteralTurns ==
  ASSUME NEW src, NEW lx, Inside(src, lx), NEW type \in NumberTypes, NEW base \in Bases,
         NEW k \in 1 .. Len(src) + 1,
         base = BaseOf(type), k = IF type = "INT" THEN lx.pos ELSE lx.pos + 2,
         type = "INT" => src[lx.pos] \in DigitsOf(10)
  PROVE  Turn(src, lx, Literal(lx, k, base, type))
<1> DEFINE e == SkipOver(src, k, DigitsOf(base))
           value == StrToLL(src, k, base)
<1>1. /\ lx.pos \in 1 .. Len(src) /\ lx.pos \in Nat /\ src \in Seq(STRING)
      /\ Len(src) \in Nat /\ lx.src = src
  BY DEF Inside
<1>2. e \in lx.pos + 1 .. Len(src) + 1
  <2>1. e \in k .. Len(src) + 1 /\ (e # Len(src) + 1 => src[e] \notin DigitsOf(base))
    BY <1>1, SkipOverIsFirst
  <2> HIDE DEF e
  <2>2. CASE type = "INT"
    <3>1. base = 10 /\ k = lx.pos
      BY <2>2 DEF BaseOf
    <3>2. e # lx.pos
      BY <1>1, <2>1, <2>2, <3>1, SMT
    <3> QED BY <1>1, <2>1, <3>1, <3>2, SMT
  <2>3. CASE type # "INT"
    BY <1>1, <2>1, <2>3, SMT
  <2> QED BY <2>2, <2>3
<1>3. Literal(lx, k, base, type) = Emit(lx, e, type, value)
  BY <1>1, Zenon DEF Literal
<1>4. value \in Int
  BY <1>1, StrToLLInt
<1>5. NumberRead(src, TokenOf(lx, e, type, value))
  <2> DEFINE token == TokenOf(lx, e, type, value)
  <2>1. /\ token.type = type /\ token.first = lx.pos
        /\ token.last = e - 1 /\ token.value = value
    BY DEF TokenOf
  <2> HIDE DEF token
  <2>2. DigitsFrom(token) = k /\ BaseOf(token.type) = base
    BY <2>1 DEF DigitsFrom
  <2>3. token.last = SkipOver(src, k, DigitsOf(base)) - 1 /\ token.value = StrToLL(src, k, base)
    BY <2>1
  <2>4. NumberRead(src, token)
    BY <1>1, <2>2, <2>3, LiteralRead
  <2> QED BY <2>4 DEF token
<1>6. type \in TokenTypes
  BY DEF TokenTypes, NumberTypes
<1> HIDE DEF e, value
<1>7. Emits(src, lx, Literal(lx, k, base, type), e)
  BY <1>3, <1>4, <1>5, <1>6 DEF Emits
<1> QED BY <1>2, <1>7 DEF Turn, TurnsTo

LEMMA NumberTurns ==
  ASSUME NEW src, NEW lx, Inside(src, lx), src[lx.pos] \in Decimals
  PROVE  Turn(src, lx, Number(lx))
<1>1. /\ lx.pos \in 1 .. Len(src) /\ lx.pos \in Nat /\ src \in Seq(STRING)
      /\ Len(src) \in Nat /\ lx.src = src
      /\ At(src, lx.pos + 1) # "NUL" => lx.pos + 1 <= Len(src)
  BY DEF Inside
<1>2. At(src, lx.pos + 1) # "NUL" => lx.pos + 2 \in 1 .. Len(src) + 1
  BY <1>1, SMT
<1>3. lx.pos \in 1 .. Len(src) + 1
  BY <1>1, SMT
<1>4. src[lx.pos] \in DigitsOf(10)
  BY DigitsAssumption DEF Decimals, DigitsOf
<1>5. "x" # "NUL" /\ "b" # "NUL" /\ "x" # "b"
  BY SMT
<1>6. \/ /\ At(src, lx.pos + 1) = "x"
         /\ Number(lx) = Literal(lx, lx.pos + 2, 16, "HEX")
      \/ /\ At(src, lx.pos + 1) = "b"
         /\ Number(lx) = Literal(lx, lx.pos + 2, 2, "BINLIT")
      \/ Number(lx) = Literal(lx, lx.pos, 10, "INT")
  BY <1>1, <1>5, Zenon DEF Number
<1>7. 16 = BaseOf("HEX") /\ 2 = BaseOf("BINLIT") /\ 10 = BaseOf("INT")
  BY DEF BaseOf
<1>8. {2, 10, 16} \subseteq Bases /\ {"HEX", "BINLIT", "INT"} \subseteq NumberTypes
  BY DEF Bases, NumberTypes
<1>9. CASE At(src, lx.pos + 1) = "x" /\ Number(lx) = Literal(lx, lx.pos + 2, 16, "HEX")
  BY <1>2, <1>5, <1>7, <1>8, <1>9, LiteralTurns
<1>10. CASE At(src, lx.pos + 1) = "b" /\ Number(lx) = Literal(lx, lx.pos + 2, 2, "BINLIT")
  BY <1>2, <1>5, <1>7, <1>8, <1>10, LiteralTurns
<1>11. CASE Number(lx) = Literal(lx, lx.pos, 10, "INT")
  BY <1>3, <1>4, <1>7, <1>8, <1>11, LiteralTurns
<1> QED BY <1>6, <1>9, <1>10, <1>11

LEMMA StringTurns ==
  ASSUME NEW src, NEW lx, Inside(src, lx)
  PROVE  Turn(src, lx, StringLiteral(lx))
<1> DEFINE stop == StringStop(src, lx.pos + 1)
           k == Lesser(stop, Len(src)) + 1
<1>1. /\ lx.pos \in 1 .. Len(src) /\ lx.pos \in Nat /\ src \in Seq(STRING)
      /\ Len(src) \in Nat /\ lx.src = src
  BY DEF Inside
<1>2. stop \in lx.pos + 1 .. Len(src) + 1
  <2>1. lx.pos + 1 \in 1 .. Len(src) + 1
    BY <1>1, SMT
  <2> QED BY <1>1, <2>1, StringStopBehind
<1>3. StringLiteral(lx) = StringTo(lx, stop)
  BY <1>1, Zenon DEF StringLiteral
<1> HIDE DEF stop
<1>4. k \in lx.pos + 1 .. Len(src) + 1
  BY <1>1, <1>2, SMT DEF Lesser
<1>5. \/ StringTo(lx, stop) = Reject(lx, stop)
      \/ StringTo(lx, stop) = Emit(lx, k, "STRING", 0)
  BY <1>1, Zenon DEF StringTo
<1> HIDE DEF k
<1>6. 0 \in Int /\ "STRING" \in TokenTypes /\ "STRING" \notin NumberTypes
  BY DEF TokenTypes, NumberTypes
<1>7. CASE StringTo(lx, stop) = Reject(lx, stop)
  BY <1>2, <1>3, <1>7 DEF Turn, TurnsTo
<1>8. CASE StringTo(lx, stop) = Emit(lx, k, "STRING", 0)
  <2>1. Emits(src, lx, StringLiteral(lx), k)
    BY <1>3, <1>6, <1>8 DEF Emits
  <2> QED BY <1>4, <2>1 DEF Turn, TurnsTo
<1> QED BY <1>5, <1>7, <1>8

LEMMA PairsInside ==
  \A c, c1 : <<c, c1>> \in Pairs => c1 # "NUL"
BY DEF Pairs

LEMMA PunctTurns ==
  ASSUME NEW src, NEW lx, Inside(src, lx)
  PROVE  Turn(src, lx, Slice(lx, lx.pos + PunctLength(src[lx.pos], At(src, lx.pos + 1)), "PUNCT"))
<1> DEFINE c1 == At(src, lx.pos + 1)
           k == lx.pos + PunctLength(src[lx.pos], c1)
<1>1. /\ lx.pos \in 1 .. Len(src) /\ lx.pos \in Nat /\ Len(src) \in Nat
      /\ c1 # "NUL" => lx.pos + 1 <= Len(src)
  BY DEF Inside
<1>2. <<src[lx.pos], c1>> \in Pairs => c1 # "NUL"
  BY PairsInside
<1>3. k \in lx.pos + 1 .. Len(src) + 1
  <2> HIDE DEF c1
  <2> QED BY <1>1, <1>2, SMT DEF PunctLength
<1>4. 0 \in Int /\ "PUNCT" \in TokenTypes /\ "PUNCT" \notin NumberTypes
  BY DEF TokenTypes, NumberTypes
<1> HIDE DEF k
<1>5. Slice(lx, k, "PUNCT") = Emit(lx, k, "PUNCT", 0)
  BY Zenon DEF Slice
<1>6. Emits(src, lx, Slice(lx, k, "PUNCT"), k)
  BY <1>4, <1>5 DEF Emits
<1> QED BY <1>3, <1>6 DEF Turn, TurnsTo, k

\* What a token becomes by its first piece.
ByKind(c, quote, word, number, string, punct, other) ==
  CASE c \in Letters -> word
    [] c \in Decimals -> number
    [] c = quote -> string
    [] c \in Singles -> punct
    [] OTHER -> other

OfKind(c, token, word, number, string, punct, other) ==
  \/ c \in Letters /\ token = word
  \/ c \in Decimals /\ token = number
  \/ token = string \/ token = punct \/ token = other

LEMMA ByKindCases ==
  ASSUME NEW c, NEW quote, NEW word, NEW number, NEW string, NEW punct, NEW other
  PROVE  OfKind(c, ByKind(c, quote, word, number, string, punct, other),
                word, number, string, punct, other)
<1> DEFINE r == ByKind(c, quote, word, number, string, punct, other)
<1>1. CASE c \in Letters
  <2>1. r = word \/ (c \in Decimals /\ r = number) \/ r = string \/ r = punct \/ r = other
    BY SMT DEF ByKind
  <2> QED BY <1>1, <2>1 DEF OfKind
<1>2. CASE c \notin Letters /\ c \in Decimals
  <2>1. (c \in Letters /\ r = word) \/ r = number \/ r = string \/ r = punct \/ r = other
    BY SMT DEF ByKind
  <2> QED BY <1>2, <2>1 DEF OfKind
<1>3. CASE c \notin Letters /\ c \notin Decimals
  BY <1>3, SMT DEF ByKind, OfKind
<1> QED BY <1>1, <1>2, <1>3

LEMMA TokenTurns ==
  ASSUME NEW src, NEW lx, Inside(src, lx)
  PROVE  Turn(src, lx, Token(lx, src[lx.pos], At(src, lx.pos + 1)))
<1> DEFINE c == src[lx.pos]
           c1 == At(src, lx.pos + 1)
<1>1. \/ c \in Letters /\ Token(lx, c, c1) = Word(lx)
      \/ c \in Decimals /\ Token(lx, c, c1) = Number(lx)
      \/ Token(lx, c, c1) = StringLiteral(lx)
      \/ Token(lx, c, c1) = Slice(lx, lx.pos + PunctLength(c, c1), "PUNCT")
      \/ Token(lx, c, c1) = Reject(lx, lx.pos + 1)
  <2> HIDE DEF c, c1
  <2> DEFINE punct == Slice(lx, lx.pos + PunctLength(c, c1), "PUNCT")
             other == Reject(lx, lx.pos + 1)
  <2>1. Token(lx, c, c1) = ByKind(c, "\"", Word(lx), Number(lx), StringLiteral(lx), punct, other)
    BY Zenon DEF Token, ByKind
  <2>2. OfKind(c, Token(lx, c, c1), Word(lx), Number(lx), StringLiteral(lx), punct, other)
    BY <2>1, ByKindCases
  <2> QED BY <2>2 DEF OfKind
<1>2. Turn(src, lx, Reject(lx, lx.pos + 1))
  <2>1. lx.pos + 1 \in lx.pos + 1 .. Len(src) + 1
    BY SMT DEF Inside
  <2> QED BY <2>1 DEF Turn, TurnsTo
<1>3. Turn(src, lx, StringLiteral(lx))
  BY StringTurns
<1>4. Turn(src, lx, Slice(lx, lx.pos + PunctLength(c, c1), "PUNCT"))
  BY PunctTurns
<1>5. c \in Letters => Turn(src, lx, Word(lx))
  BY WordTurns
<1>6. c \in Decimals => Turn(src, lx, Number(lx))
  BY NumberTurns
<1> HIDE DEF c, c1
<1>7. Turn(src, lx, Token(lx, c, c1))
  BY <1>1, <1>2, <1>3, <1>4, <1>5, <1>6
<1> QED BY <1>7 DEF c, c1

LEMMA LineCommentTurns ==
  ASSUME NEW src, NEW lx, Inside(src, lx), src[lx.pos] = "/", At(src, lx.pos + 1) = "/"
  PROVE  Turn(src, lx, LineComment(lx))
<1> DEFINE p == lx.pos
           k == SkipTo(src, p + 2, {"\n"})
<1>1. /\ p \in 1 .. Len(src) /\ p \in Nat /\ src \in Seq(STRING)
      /\ Len(src) \in Nat /\ lx.src = src /\ p + 1 <= Len(src) /\ src[p + 1] = "/"
  BY SMT DEF Inside
<1>2. p + 2 \in 1 .. Len(src) + 1
  BY <1>1, SMT
<1>3. /\ k \in p + 2 .. Len(src) + 1
      /\ k # Len(src) + 1 => src[k] \in {"\n"}
      /\ \A i \in p + 2 .. k - 1 : src[i] \notin {"\n"}
  BY <1>1, <1>2, SkipToIsFirst
<1>4. LineComment(lx) = MoveTo(lx, k)
  BY <1>1, Zenon DEF LineComment
<1> HIDE DEF k
<1>5. NoNewline(src, p, k - 1)
  <2>1. \A i \in p .. k - 1 : i = p \/ i = p + 1 \/ i \in p + 2 .. k - 1
    BY <1>1, <1>3, SMT
  <2>2. src[p] # "\n" /\ src[p + 1] # "\n"
    BY <1>1, SMT
  <2> QED BY <1>3, <2>1, <2>2 DEF NoNewline
<1>6. k - 1 > p /\ (k - 1) + 1 = k /\ (k - 1 < Len(src) => k # Len(src) + 1)
  BY <1>1, <1>3, SMT
<1>7. Comment(src, p, k - 1)
  BY <1>3, <1>5, <1>6 DEF Comment
<1>8. k \in p + 1 .. Len(src) + 1
  BY <1>1, <1>3, SMT
<1>9. Moves(src, lx, LineComment(lx), k)
  BY <1>4, <1>7 DEF Moves, Skips
<1> QED BY <1>8, <1>9 DEF Turn, TurnsTo

LEMMA BlockCommentTurns ==
  ASSUME NEW src, NEW lx, Inside(src, lx), src[lx.pos] = "/", At(src, lx.pos + 1) = "*"
  PROVE  Turn(src, lx, BlockComment(lx))
<1> DEFINE p == lx.pos
           j == CommentEnd(src, p + 2)
<1>1. /\ p \in 1 .. Len(src) /\ p \in Nat /\ src \in Seq(STRING)
      /\ Len(src) \in Nat /\ lx.src = src /\ p + 1 <= Len(src) /\ src[p + 1] = "*"
  BY SMT DEF Inside
<1>2. p + 2 \in 1 .. Len(src) + 1
  BY <1>1, SMT
<1>3. /\ j \in p + 2 .. Len(src) + 1
      /\ j # Len(src) + 1 => Closes(src, j)
      /\ \A i \in p + 2 .. j - 1 : ~Closes(src, i)
  BY <1>1, <1>2, CommentEndIsFirst
<1>4. BlockComment(lx) = IF j > Len(src) THEN Reject(lx, Len(src) + 1) ELSE MoveTo(lx, j + 2)
  BY <1>1, Zenon DEF BlockComment
<1> HIDE DEF j
<1>5. CASE j > Len(src)
  <2>1. Len(src) + 1 \in p + 1 .. Len(src) + 1
    BY <1>1, SMT
  <2> QED BY <1>4, <1>5, <2>1 DEF Turn, TurnsTo
<1>6. CASE ~ (j > Len(src))
  <2>1. j # Len(src) + 1 /\ j \in Nat /\ j + 1 \in Nat
    BY <1>1, <1>3, <1>6, SMT
  <2>2. src[j] = "*" /\ j + 1 <= Len(src) /\ src[j + 1] = "/"
    <3>1. src[j] = "*" /\ At(src, j + 1) = "/"
      BY <1>3, <2>1 DEF Closes
    <3>2. j + 1 <= Len(src)
      BY <1>1, <2>1, <3>1, AtInside
    <3> QED BY <1>1, <2>1, <3>1, <3>2, AtInside
  <2>3. /\ (j + 2) - 1 = j + 1 /\ (j + 1) - 1 = j /\ j + 1 >= p + 3
        /\ j + 2 \in p + 1 .. Len(src) + 1
    BY <1>1, <1>3, <2>1, <2>2, SMT
  <2>4. \A k \in p + 3 .. (j + 1) - 1 : <<src[k - 1], src[k]>> # <<"*", "/">>
    <3> SUFFICES ASSUME NEW k \in p + 3 .. (j + 1) - 1 
                 PROVE  ~ (src[k - 1] = "*" /\ src[k] = "/")
      OBVIOUS
    <3>1. k - 1 \in p + 2 .. j - 1 /\ (k - 1) + 1 = k /\ k \in Nat /\ k <= Len(src)
      BY <1>1, <1>3, <2>2, SMT
    <3>2. At(src, k) = src[k]
      BY <1>1, <3>1, AtInside
    <3>3. ~Closes(src, k - 1)
      BY <1>3, <3>1
    <3> QED BY <3>1, <3>2, <3>3 DEF Closes
  <2>5. Comment(src, p, j + 1)
    BY <2>2, <2>3, <2>4 DEF Comment
  <2>6. Moves(src, lx, BlockComment(lx), j + 2)
    BY <1>4, <1>6, <2>3, <2>5 DEF Moves, Skips
  <2> QED BY <2>3, <2>6 DEF Turn, TurnsTo
<1> QED BY <1>5, <1>6

LEMMA LexTurnTurns ==
  ASSUME NEW src, NEW lx, Inside(src, lx)
  PROVE  Turn(src, lx, LexTurn(lx, At(src, lx.pos), At(src, lx.pos + 1)))
<1> DEFINE c == At(src, lx.pos)
           c1 == At(src, lx.pos + 1)
<1>1. c = src[lx.pos]
  BY DEF Inside
<1>2. \/ c \in Blanks /\ LexTurn(lx, c, c1) = MoveTo(lx, lx.pos + 1)
      \/ <<c, c1>> = <<"/", "/">> /\ LexTurn(lx, c, c1) = LineComment(lx)
      \/ <<c, c1>> = <<"/", "*">> /\ LexTurn(lx, c, c1) = BlockComment(lx)
      \/ LexTurn(lx, c, c1) = Token(lx, c, c1)
  <2> HIDE DEF c, c1
  <2> QED BY SMT DEF LexTurn
<1>3. c \in Blanks => Turn(src, lx, MoveTo(lx, lx.pos + 1))
  <2>1. lx.pos + 1 \in lx.pos + 1 .. Len(src) + 1
    BY SMT DEF Inside
  <2>2. c \in Blanks => Moves(src, lx, MoveTo(lx, lx.pos + 1), lx.pos + 1)
    BY <1>1 DEF Moves, Skips
  <2> QED BY <2>1, <2>2 DEF Turn, TurnsTo
<1>4. c = "/" /\ c1 = "/" => Turn(src, lx, LineComment(lx))
  BY <1>1, LineCommentTurns
<1>5. c = "/" /\ c1 = "*" => Turn(src, lx, BlockComment(lx))
  BY <1>1, BlockCommentTurns
<1>6. Turn(src, lx, Token(lx, c, c1))
  BY <1>1, TokenTurns
<1> HIDE DEF c, c1
<1>7. Turn(src, lx, LexTurn(lx, c, c1))
  <2>1. /\ <<c, c1>> = <<"/", "/">> => c = "/" /\ c1 = "/"
        /\ <<c, c1>> = <<"/", "*">> => c = "/" /\ c1 = "*"
    OBVIOUS
  <2> QED BY <1>2, <1>3, <1>4, <1>5, <1>6, <2>1
<1> QED BY <1>7 DEF c, c1

-----------------------------------------------------------------------------
(* What every turn of the loop keeps.                                      *)

LEMMA NewlinesNat ==
  ASSUME NEW src, NEW i \in Int, NEW j \in Int
  PROVE  /\ IsFiniteSet({k \in i .. j : src[k] = "\n"})
         /\ Newlines(src, i, j) \in Nat
<1>1. IsFiniteSet(i .. j)
  BY FS_Interval
<1>2. {k \in i .. j : src[k] = "\n"} \in SUBSET (i .. j)
  OBVIOUS
<1>3. IsFiniteSet({k \in i .. j : src[k] = "\n"})
  BY <1>1, <1>2, FS_Subset
<1> QED BY <1>3, FS_CardinalityType DEF Newlines

LEMMA NewlinesSplit ==
  ASSUME NEW src, NEW p \in Nat \ {0}, NEW k \in Nat, k >= p
  PROVE  Newlines(src, 1, k - 1) = Newlines(src, 1, p - 1) + Newlines(src, p, k - 1)
<1> DEFINE N(i, j) == {m \in i .. j : src[m] = "\n"}
<1>1. N(1, k - 1) = N(1, p - 1) \union N(p, k - 1)
  <2>1. 1 .. k - 1 = (1 .. p - 1) \union (p .. k - 1)
    BY SMT
  <2> QED BY <2>1
<1>2. N(1, p - 1) \intersect N(p, k - 1) = {}
  <2>1. (1 .. p - 1) \intersect (p .. k - 1) = {}
    BY SMT
  <2> QED BY <2>1
<1>3. 1 \in Int /\ p - 1 \in Int /\ p \in Int /\ k - 1 \in Int
  BY SMT
<1>4. IsFiniteSet(N(1, p - 1)) /\ IsFiniteSet(N(p, k - 1))
  BY <1>3, NewlinesNat
<1>5. /\ Newlines(src, 1, k - 1) = Cardinality(N(1, k - 1))
      /\ Newlines(src, 1, p - 1) = Cardinality(N(1, p - 1))
      /\ Newlines(src, p, k - 1) = Cardinality(N(p, k - 1))
  BY DEF Newlines
<1>6. Newlines(src, 1, p - 1) \in Nat /\ Newlines(src, p, k - 1) \in Nat
  BY <1>3, NewlinesNat
<1> HIDE DEF N
<1>7. Cardinality(N(1, p - 1) \union N(p, k - 1))
        = Cardinality(N(1, p - 1)) + Cardinality(N(p, k - 1)) - Cardinality({})
  BY <1>2, <1>4, FS_Union
<1>8. Cardinality({}) = 0
  BY FS_EmptySet
<1>9. Newlines(src, 1, k - 1) = Newlines(src, 1, p - 1) + Newlines(src, p, k - 1) - 0
  BY <1>1, <1>5, <1>7, <1>8, Zenon
<1> QED BY <1>6, <1>9, SMT

\* The k-th token stands where it should.
Placed(src, tokens, k) ==
  /\ tokens[k].first > EndBefore(tokens, k)
  /\ tokens[k].last \in tokens[k].first .. Len(src)
  /\ tokens[k].line = 1 + Newlines(src, 1, tokens[k].first - 1)
  /\ Gaps(src, EndBefore(tokens, k) + 1)[tokens[k].first - 1]

\* The tokens and the blanks and comments make up the text in front of pos.
Laid(src, tokens, pos) ==
  /\ \A k \in DOMAIN tokens : Placed(src, tokens, k)
  /\ EndBefore(tokens, Len(tokens) + 1) \in 0 .. pos - 1
  /\ Gaps(src, EndBefore(tokens, Len(tokens) + 1) + 1)[pos - 1]

Numbers(src, tokens) ==
  \A k \in DOMAIN tokens : tokens[k].type \in NumberTypes => NumberRead(src, tokens[k])

LexInv(src, lx) ==
  /\ lx \in Lexers(src)
  /\ lx.line = 1 + Newlines(src, 1, lx.pos - 1)
  /\ ~lx.had_error => Laid(src, lx.tokens, lx.pos)
  /\ Numbers(src, lx.tokens)

\* A lexer by its fields.
Lexer(src, pos, line, tokens, had_error) ==
  [src |-> src, pos |-> pos, line |-> line, tokens |-> tokens, had_error |-> had_error]

LEMMA MovedLexer ==
  ASSUME NEW src, NEW p, NEW line, NEW tokens, NEW had_error, NEW k
  PROVE  MoveTo(Lexer(src, p, line, tokens, had_error), k) =
           Lexer(src, k, line + Newlines(src, p, k - 1), tokens, had_error)
<1> DEFINE lx == Lexer(src, p, line, tokens, had_error)
           n == lx.line + Newlines(lx.src, lx.pos, k - 1)
<1>1. lx.src = src /\ lx.pos = p /\ lx.line = line
  BY DEF Lexer
<1>2. [lx EXCEPT !.pos = k] = Lexer(src, k, line, tokens, had_error)
  BY DEF Lexer
<1> HIDE DEF lx
<1>3. MoveTo(lx, k) = [[lx EXCEPT !.pos = k] EXCEPT !.line = n]
  BY SMT DEF MoveTo
<1>4. n = line + Newlines(src, p, k - 1)
  BY <1>1
<1> HIDE DEF n
<1>5. [Lexer(src, k, line, tokens, had_error) EXCEPT !.line = n]
        = Lexer(src, k, n, tokens, had_error)
  BY DEF Lexer
<1>6. MoveTo(lx, k) = Lexer(src, k, n, tokens, had_error)
  BY <1>2, <1>3, <1>5, Zenon
<1> QED BY <1>4, <1>6 DEF lx

\* What a move, a rejection and a token leave.
LEMMA Moved ==
  ASSUME NEW src, NEW lx \in Lexers(src), NEW k \in 1 .. Len(src) + 1, Len(src) \in Nat
  PROVE  LET line == lx.line + Newlines(src, lx.pos, k - 1)
         IN  /\ MoveTo(lx, k) = Lexer(src, k, line, lx.tokens, lx.had_error)
             /\ MoveTo(lx, k) \in Lexers(src)
<1> DEFINE line == lx.line + Newlines(src, lx.pos, k - 1)
<1>1. lx = Lexer(src, lx.pos, lx.line, lx.tokens, lx.had_error)
  BY DEF Lexers, Lexer
<1>2. MoveTo(lx, k) = Lexer(src, k, line, lx.tokens, lx.had_error)
  BY <1>1, MovedLexer
<1>3. lx.pos \in Int /\ k - 1 \in Int /\ lx.line \in Nat
  BY SMT DEF Lexers
<1>4. Newlines(src, lx.pos, k - 1) \in Nat
  BY <1>3, NewlinesNat
<1>5. line \in Nat
  BY <1>3, <1>4, SMT
<1> HIDE DEF line
<1>6. Lexer(src, k, line, lx.tokens, lx.had_error) \in Lexers(src)
  BY <1>5 DEF Lexer, Lexers
<1> QED BY <1>2, <1>6 DEF line

LEMMA Rejected ==
  ASSUME NEW src, NEW lx \in Lexers(src), NEW k \in 1 .. Len(src) + 1, Len(src) \in Nat
  PROVE  /\ Reject(lx, k) \in Lexers(src)
         /\ Reject(lx, k).pos = k
         /\ Reject(lx, k).line = lx.line + Newlines(src, lx.pos, k - 1)
         /\ Reject(lx, k).tokens = lx.tokens
         /\ Reject(lx, k).had_error
<1> DEFINE ly == MoveTo(lx, k)
<1>1. ly \in Lexers(src)
  BY Moved
<1>2. /\ ly.pos = k /\ ly.line = lx.line + Newlines(src, lx.pos, k - 1)
      /\ ly.tokens = lx.tokens
  BY Moved DEF Lexer
<1>3. Reject(lx, k) = [ly EXCEPT !.had_error = TRUE]
  BY DEF Reject
<1> HIDE DEF ly
<1>4. [ly EXCEPT !.had_error = TRUE] \in Lexers(src)
  BY <1>1 DEF Lexers
<1>5. LET r == [ly EXCEPT !.had_error = TRUE]
      IN  r.pos = ly.pos /\ r.line = ly.line /\ r.tokens = ly.tokens /\ r.had_error
  BY <1>1 DEF Lexers
<1> QED BY <1>2, <1>3, <1>4, <1>5

WithToken(lx, token) == [lx EXCEPT !.tokens = Append(@, token)]

LEMMA LexerWithToken ==
  ASSUME NEW src, NEW p, NEW line, NEW tokens, NEW had_error, NEW token
  PROVE  WithToken(Lexer(src, p, line, tokens, had_error), token)
           = Lexer(src, p, line, Append(tokens, token), had_error)
BY DEF WithToken, Lexer

LEMMA Emitted ==
  ASSUME NEW src, NEW lx \in Lexers(src), NEW k \in 1 .. Len(src) + 1, Len(src) \in Nat,
         NEW type \in TokenTypes, NEW value \in Int
  PROVE  LET line == lx.line + Newlines(src, lx.pos, k - 1)
             tokens == Append(lx.tokens, TokenOf(lx, k, type, value))
         IN  /\ Emit(lx, k, type, value) = Lexer(src, k, line, tokens, lx.had_error)
             /\ Emit(lx, k, type, value) \in Lexers(src)
<1> DEFINE token == TokenOf(lx, k, type, value)
           line == lx.line + Newlines(src, lx.pos, k - 1)
           lz == Lexer(src, lx.pos, lx.line, lx.tokens, lx.had_error)
           ly == WithToken(lx, token)
<1>1. lx = lz
  BY DEF Lexers, Lexer
<1>2. token \in Tokens
  BY SMT DEF TokenOf, Tokens, Lexers
<1>3. Emit(lx, k, type, value) = MoveTo(ly, k)
  BY Zenon DEF Emit, TokenOf, WithToken
<1> HIDE DEF token
<1>4. WithToken(lz, token)
        = Lexer(src, lx.pos, lx.line, Append(lx.tokens, token), lx.had_error)
  BY LexerWithToken
<1>5. ly = Lexer(src, lx.pos, lx.line, Append(lx.tokens, token), lx.had_error)
  BY <1>1, <1>4
<1>6. Append(lx.tokens, token) \in Seq(Tokens)
  BY <1>2 DEF Lexers
<1>7. ly \in Lexers(src)
  <2> HIDE DEF ly
  <2> QED BY <1>5, <1>6 DEF Lexer, Lexers
<1>8. MoveTo(ly, k) = Lexer(src, k, line, Append(lx.tokens, token), lx.had_error)
  BY <1>5, MovedLexer
<1> HIDE DEF ly
<1>9. MoveTo(ly, k) \in Lexers(src)
  BY <1>7, Moved
<1> QED BY <1>3, <1>8, <1>9 DEF token

LEMMA LineKept ==
  ASSUME NEW src \in Seq(STRING), NEW lx, LexInv(src, lx),
         NEW k \in lx.pos + 1 .. Len(src) + 1
  PROVE  lx.line + Newlines(src, lx.pos, k - 1) = 1 + Newlines(src, 1, k - 1)
<1>1. /\ lx.pos \in Nat \ {0} /\ k \in Nat /\ k >= lx.pos /\ 1 \in Int /\ lx.pos \in Int
      /\ lx.pos - 1 \in Int /\ k - 1 \in Int
  BY LenProperties, SMT DEF LexInv, Lexers
<1>2. Newlines(src, 1, k - 1) = Newlines(src, 1, lx.pos - 1) + Newlines(src, lx.pos, k - 1)
  BY <1>1, NewlinesSplit
<1>3. Newlines(src, 1, lx.pos - 1) \in Nat /\ Newlines(src, lx.pos, k - 1) \in Nat
  BY <1>1, NewlinesNat
<1>4. lx.line = 1 + Newlines(src, 1, lx.pos - 1)
  BY DEF LexInv
<1> HIDE DEF LexInv
<1> QED BY <1>2, <1>3, <1>4, SMT

\* The gap behind the last token grows.
LEMMA LaidOn ==
  ASSUME NEW src \in Seq(STRING), NEW tokens, NEW pos \in 1 .. Len(src),
         Laid(src, tokens, pos),
         NEW k \in pos + 1 .. Len(src) + 1, Skips(src, pos, k)
  PROVE  Laid(src, tokens, k)
<1> DEFINE e == EndBefore(tokens, Len(tokens) + 1)
           i == e + 1
<1>1. e \in 0 .. pos - 1 /\ Gaps(src, e + 1)[pos - 1]
  BY DEF Laid
<1> HIDE DEF e
<1>2. Len(src) \in Nat
  BY LenProperties
<1>3. i \in 1 .. Len(src) + 1 /\ pos \in i .. Len(src) /\ k - 1 \in i .. Len(src)
      /\ e \in 0 .. k - 1
  BY <1>1, <1>2, SMT
<1>4. Gaps(src, i)[k - 1]
  <2>1. CASE k = pos + 1 /\ src[pos] \in Blanks
    <3>1. Gaps(src, i)[pos]
      BY <1>1, <1>3, <2>1, GapGrows
    <3>2. k - 1 = pos
      BY <2>1, SMT
    <3> QED BY <3>1, <3>2
  <2>2. CASE src[pos] = "/" /\ Comment(src, pos, k - 1)
    <3>1. k - 1 > pos
      <4>1. k - 1 > pos \/ k - 1 >= pos + 3
        BY <2>2 DEF Comment
      <4> QED BY <4>1, SMT
    <3>2. pos \in i .. (k - 1) - 1
      BY <1>2, <1>3, <3>1, SMT
    <3> QED BY <1>1, <1>3, <2>2, <3>2, GapGrows
  <2> QED BY <2>1, <2>2 DEF Skips
<1> QED BY <1>3, <1>4 DEF Laid, e

\* A token is laid behind the others.
LEMMA LaidNext ==
  ASSUME NEW src \in Seq(STRING), NEW tokens \in Seq(Tokens), NEW pos \in 1 .. Len(src),
         Laid(src, tokens, pos),
         NEW k \in pos + 1 .. Len(src) + 1, NEW token \in Tokens,
         token.first = pos, token.last = k - 1,
         token.line = 1 + Newlines(src, 1, pos - 1)
  PROVE  Laid(src, Append(tokens, token), k)
<1> DEFINE n == Len(tokens)
           s == Append(tokens, token)
           e == EndBefore(tokens, n + 1)
<1>1. /\ Len(src) \in Nat /\ n \in Nat /\ Len(s) = n + 1 /\ DOMAIN s = 1 .. n + 1
      /\ DOMAIN tokens = 1 .. n /\ s[n + 1] = token
      /\ \A j \in 1 .. n : s[j] = tokens[j]
  BY LenProperties, AppendProperties
<1>2. e \in 0 .. pos - 1 /\ Gaps(src, e + 1)[pos - 1] /\ \A j \in 1 .. n : Placed(src, tokens, j)
  BY <1>1 DEF Laid
<1> HIDE DEF n, s
<1>3. \A j \in 1 .. n + 1 : EndBefore(s, j) = EndBefore(tokens, j)
  <2> SUFFICES ASSUME NEW j \in 1 .. n + 1, j # 1 PROVE s[j - 1].last = tokens[j - 1].last
    BY DEF EndBefore
  <2>1. j - 1 \in 1 .. n
    BY <1>1, SMT
  <2> QED BY <1>1, <2>1
<1>4. \A j \in 1 .. n : Placed(src, s, j)
  <2>1. \A j \in 1 .. n : j \in 1 .. n + 1
    BY <1>1, SMT
  <2> QED BY <1>1, <1>2, <1>3, <2>1 DEF Placed
<1>5. n + 1 \in 1 .. n + 1
  BY <1>1, SMT
<1>6. Placed(src, s, n + 1)
  <2>1. pos > e /\ k - 1 \in pos .. Len(src)
    BY <1>1, <1>2, SMT
  <2>2. EndBefore(s, n + 1) = e
    BY <1>3, <1>5
  <2> HIDE DEF e
  <2> QED BY <1>1, <1>2, <2>1, <2>2 DEF Placed
<1>7. \A j \in DOMAIN s : Placed(src, s, j)
  <2>1. \A j \in 1 .. n + 1 : j \in 1 .. n \/ j = n + 1
    BY <1>1, SMT
  <2> QED BY <1>1, <1>4, <1>6, <2>1
<1>8. EndBefore(s, Len(s) + 1) = k - 1
  <2>1. Len(s) + 1 # 1 /\ (Len(s) + 1) - 1 = n + 1
    BY <1>1, SMT
  <2> QED BY <1>1, <2>1 DEF EndBefore
<1>9. k - 1 \in 0 .. k - 1 /\ k \in 1 .. Len(src) + 1 /\ (k - 1) + 1 = k
  BY <1>1, SMT
<1>10. Gaps(src, k)[k - 1]
  BY <1>9, GapGrows
<1> QED BY <1>7, <1>8, <1>9, <1>10 DEF Laid, s

LEMMA TurnKeeps ==
  ASSUME NEW src \in Seq(STRING), NEW lx, LexInv(src, lx), NEW new,
         NEW k \in lx.pos + 1 .. Len(src) + 1, TurnsTo(src, lx, new, k)
  PROVE  LexInv(src, new) /\ new.pos = k
<1>1. /\ lx \in Lexers(src) /\ Len(src) \in Nat /\ lx.pos \in 1 .. Len(src)
      /\ k \in 1 .. Len(src) + 1 /\ lx.tokens \in Seq(Tokens)
  <2>1. lx \in Lexers(src) /\ Len(src) \in Nat
    BY LenProperties DEF LexInv
  <2>2. lx.pos \in 1 .. Len(src) + 1 /\ lx.tokens \in Seq(Tokens)
    BY <2>1 DEF Lexers
  <2> QED BY <2>1, <2>2, SMT
<1>2. lx.line + Newlines(src, lx.pos, k - 1) = 1 + Newlines(src, 1, k - 1)
  BY LineKept
<1>3. ~lx.had_error => Laid(src, lx.tokens, lx.pos)
  BY DEF LexInv
<1>4. Numbers(src, lx.tokens) /\ lx.line = 1 + Newlines(src, 1, lx.pos - 1)
  BY DEF LexInv
<1>5. CASE new = Reject(lx, k)
  <2>1. /\ new \in Lexers(src) /\ new.pos = k /\ new.tokens = lx.tokens /\ new.had_error
        /\ new.line = lx.line + Newlines(src, lx.pos, k - 1)
    BY <1>1, <1>5, Rejected
  <2> QED BY <1>2, <1>4, <2>1 DEF LexInv
<1>6. CASE Moves(src, lx, new, k)
  <2> DEFINE line == lx.line + Newlines(src, lx.pos, k - 1)
  <2>1. new \in Lexers(src) /\ new = Lexer(src, k, line, lx.tokens, lx.had_error)
    BY <1>1, <1>6, Moved DEF Moves
  <2> HIDE DEF line
  <2>2. /\ new.pos = k /\ new.line = line /\ new.tokens = lx.tokens
        /\ new.had_error = lx.had_error
    BY <2>1 DEF Lexer
  <2>3. ~lx.had_error => Laid(src, lx.tokens, k)
    BY <1>1, <1>3, <1>6, LaidOn DEF Moves
  <2> QED BY <1>2, <1>4, <2>1, <2>2, <2>3 DEF LexInv, line
<1>7. CASE Emits(src, lx, new, k)
  <2>1. PICK type \in TokenTypes, value \in Int :
          /\ new = Emit(lx, k, type, value)
          /\ type \in NumberTypes => NumberRead(src, TokenOf(lx, k, type, value))
    BY <1>7 DEF Emits
  <2> DEFINE line == lx.line + Newlines(src, lx.pos, k - 1)
             token == TokenOf(lx, k, type, value)
             tokens == Append(lx.tokens, token)
  <2>2. new \in Lexers(src) /\ new = Lexer(src, k, line, tokens, lx.had_error)
    BY <1>1, <2>1, Emitted
  <2>3. /\ token.type = type /\ token.first = lx.pos
        /\ token.last = k - 1 /\ token.line = lx.line
    BY DEF TokenOf
  <2>4. token \in Tokens
    BY <1>1, SMT DEF TokenOf, Tokens, Lexers
  <2>5. type \in NumberTypes => NumberRead(src, token)
    BY <2>1
  <2> HIDE DEF line, token
  <2>6. ~lx.had_error => Laid(src, tokens, k)
    BY <1>1, <1>3, <1>4, <2>3, <2>4, LaidNext
  <2>7. Numbers(src, tokens)
    <3>1. DOMAIN tokens = 1 .. Len(lx.tokens) + 1 /\ Len(lx.tokens) \in Nat
          /\ tokens[Len(lx.tokens) + 1] = token
          /\ \A j \in 1 .. Len(lx.tokens) : tokens[j] = lx.tokens[j]
          /\ DOMAIN lx.tokens = 1 .. Len(lx.tokens)
      BY <1>1, <2>4, LenProperties, AppendProperties
    <3>2. \A j \in 1 .. Len(lx.tokens) + 1 : j \in 1 .. Len(lx.tokens) \/ j = Len(lx.tokens) + 1
      BY <3>1, SMT
    <3> HIDE DEF tokens
    <3> QED BY <1>4, <2>3, <2>5, <3>1, <3>2 DEF Numbers
  <2> HIDE DEF tokens
  <2>8. /\ new.pos = k /\ new.line = line /\ new.tokens = tokens
        /\ new.had_error = lx.had_error
    BY <2>2 DEF Lexer
  <2> QED BY <1>2, <2>2, <2>6, <2>7, <2>8 DEF LexInv, line
<1> QED BY <1>5, <1>6, <1>7 DEF TurnsTo

-----------------------------------------------------------------------------
(* The loop.                                                               *)

LexStep(src, after, lx) ==
  IF AtEnd(lx) THEN lx
  ELSE after[LexTurn(lx, At(src, lx.pos), At(src, lx.pos + 1))]

LEMMA NotAtEnd ==
  ASSUME NEW src \in Seq(STRING), NEW lx \in Lexers(src), ~AtEnd(lx)
  PROVE  Inside(src, lx)
<1>1. lx.src = src /\ lx.pos \in 1 .. Len(src) + 1 /\ Len(src) \in Nat
  BY LenProperties DEF Lexers
<1>2. ~ (lx.pos > Len(src))
  BY <1>1 DEF AtEnd
<1>3. lx.pos \in 1 .. Len(src) /\ lx.pos \in Nat /\ lx.pos + 1 \in Nat /\ lx.pos <= Len(src)
  BY <1>1, <1>2, SMT
<1>4. /\ At(src, lx.pos) = src[lx.pos]
      /\ At(src, lx.pos + 1) # "NUL" =>
           lx.pos + 1 <= Len(src) /\ At(src, lx.pos + 1) = src[lx.pos + 1]
  BY <1>3, AtInside
<1> QED BY <1>1, <1>3, <1>4 DEF Inside

LEMMA TurnAdvances ==
  ASSUME NEW src \in Seq(STRING), NEW lx \in Lexers(src), NEW new,
         NEW k \in lx.pos + 1 .. Len(src) + 1, TurnsTo(src, lx, new, k)
  PROVE  new \in Lexers(src) /\ new.pos = k
<1>1. Len(src) \in Nat /\ k \in 1 .. Len(src) + 1
  BY LenProperties, SMT DEF Lexers
<1>2. CASE new = Reject(lx, k)
  BY <1>1, <1>2, Rejected
<1>3. CASE Moves(src, lx, new, k)
  BY <1>1, <1>3, Moved DEF Moves, Lexer
<1>4. CASE Emits(src, lx, new, k)
  BY <1>1, <1>4, Emitted DEF Emits, Lexer
<1> QED BY <1>2, <1>3, <1>4 DEF TurnsTo

LEMMA LoopEquation ==
  ASSUME NEW src \in Seq(STRING)
  PROVE  Loop(src) = [lx \in Lexers(src) |-> LexStep(src, Loop(src), lx)]
<1> DEFINE D == Lexers(src)
           measure == [lx \in D |-> Len(src) + 1 - lx.pos]
           next(lx) == LexTurn(lx, At(src, lx.pos), At(src, lx.pos + 1))
           body == [p \in D \X [D -> D] |-> LexStep(src, p[2], p[1])]
<1>1. Len(src) \in Nat /\ \A lx \in D : lx.pos \in 1 .. Len(src) + 1
  BY LenProperties DEF Lexers
<1>2. D # {}
  <2>1. 1 \in 1 .. Len(src) + 1 /\ 0 \in Nat /\ FALSE \in BOOLEAN
    BY <1>1, SMT
  <2>2. <<>> \in Seq(Tokens)
    BY EmptySeq
  <2>3. [src |-> src, pos |-> 1, line |-> 0, tokens |-> <<>>, had_error |-> FALSE] \in D
    BY <2>1, <2>2 DEF Lexers
  <2> QED BY <2>3
<1>3. measure \in [D -> 0 .. Len(src)]
  <2>1. \A lx \in D : Len(src) + 1 - lx.pos \in 0 .. Len(src)
    BY <1>1, SMT
  <2> QED BY <2>1
<1>4. ASSUME NEW lx \in D, ~AtEnd(lx)
      PROVE  next(lx) \in D /\ measure[next(lx)] < measure[lx]
  <2>1. PICK k \in lx.pos + 1 .. Len(src) + 1 : TurnsTo(src, lx, next(lx), k)
    BY <1>4, NotAtEnd, LexTurnTurns DEF Turn
  <2> HIDE DEF next
  <2>2. next(lx) \in D /\ next(lx).pos = k
    BY <2>1, TurnAdvances
  <2>3. Len(src) + 1 - k < Len(src) + 1 - lx.pos
    BY <1>1, <2>1, SMT
  <2> QED BY <2>2, <2>3
<1>5. body \in [D \X [D -> D] -> D]
  <2>1. ASSUME NEW g \in [D -> D], NEW lx \in D PROVE LexStep(src, g, lx) \in D
    <3>1. ~AtEnd(lx) => g[next(lx)] \in D
      <4> HIDE DEF D, next
      <4> QED BY <1>4
    <3> QED BY <3>1, Zenon DEF LexStep
  <2> QED BY <2>1
<1>6. Descends(D, D, measure, body)
  <2> SUFFICES ASSUME NEW lx \in D, NEW g \in [D -> D], NEW h \in [D -> D],
                      \A m \in D : measure[m] < measure[lx] => g[m] = h[m]
               PROVE  body[<<lx, g>>] = body[<<lx, h>>]
    BY Zenon DEF Descends
  <2>1. ~AtEnd(lx) => g[next(lx)] = h[next(lx)]
    <3> HIDE DEF D, measure, next
    <3> QED BY <1>4
  <2>2. LexStep(src, g, lx) = LexStep(src, h, lx)
    BY <2>1, Zenon DEF LexStep
  <2> HIDE DEF D
  <2> QED BY <2>2
<1>7. PICK f \in [D -> D] : Solves(D, body, f)
  <2> HIDE DEF D, measure, body
  <2> QED BY <1>1, <1>2, <1>3, <1>5, <1>6, Recursion
<1>8. \A lx \in D : f[lx] = LexStep(src, f, lx)
  <2> HIDE DEF D
  <2> QED BY <1>7 DEF Solves
<1>9. f = [lx \in D |-> LexStep(src, f, lx)]
  <2> HIDE DEF D
  <2> QED BY <1>8
<1> QED BY <1>9, Zenon DEF Loop, LexStep

\* The loop ends at the end of the text, and keeps what its turns keep.
LEMMA LoopEnds ==
  ASSUME NEW src \in Seq(STRING), NEW lx, LexInv(src, lx)
  PROVE  LexInv(src, Loop(src)[lx]) /\ Loop(src)[lx].pos = Len(src) + 1
<1> DEFINE after == Loop(src)
           next(ly) == LexTurn(ly, At(src, ly.pos), At(src, ly.pos + 1))
           Fine(ly) == LexInv(src, after[ly]) /\ after[ly].pos = Len(src) + 1
           bad == {m \in Nat : \E ly : LexInv(src, ly) /\ m = Len(src) + 1 - ly.pos /\ ~Fine(ly)}
<1>1. Len(src) \in Nat
  BY LenProperties
<1>2. \A ly : LexInv(src, ly) =>
        /\ ly \in Lexers(src) /\ ly.pos \in 1 .. Len(src) + 1
        /\ Len(src) + 1 - ly.pos \in Nat
  <2> SUFFICES ASSUME NEW ly, LexInv(src, ly)
               PROVE  ly \in Lexers(src) /\ ly.pos \in 1 .. Len(src) + 1
                      /\ Len(src) + 1 - ly.pos \in Nat
    OBVIOUS
  <2>1. ly \in Lexers(src) /\ ly.pos \in 1 .. Len(src) + 1
    BY DEF LexInv, Lexers
  <2> QED BY <1>1, <2>1, SMT
<1>3. \A ly \in Lexers(src) : after[ly] = LexStep(src, after, ly)
  <2>1. after = [ly \in Lexers(src) |-> LexStep(src, after, ly)]
    BY LoopEquation
  <2> HIDE DEF after
  <2> QED BY <2>1, Zenon
<1> HIDE DEF after
<1>4. bad = {}
  <2> SUFFICES ASSUME bad # {} PROVE FALSE
    OBVIOUS
  <2>1. PICK m \in bad : \A o \in bad : m <= o
    BY LeastNat
  <2>2. PICK ly : LexInv(src, ly) /\ m = Len(src) + 1 - ly.pos /\ ~Fine(ly)
    BY <2>1
  <2>3. ly \in Lexers(src) /\ ly.pos \in 1 .. Len(src) + 1
    BY <1>2, <2>2
  <2>4. CASE AtEnd(ly)
    <3>1. ly.src = src
      BY <2>3 DEF Lexers
    <3>2. ly.pos = Len(src) + 1
      BY <1>1, <2>3, <2>4, <3>1, SMT DEF AtEnd
    <3>3. after[ly] = ly
      BY <1>3, <2>3, <2>4 DEF LexStep
    <3> QED BY <2>2, <3>2, <3>3
  <2>5. CASE ~AtEnd(ly)
    <3>1. PICK k \in ly.pos + 1 .. Len(src) + 1 : TurnsTo(src, ly, next(ly), k)
      BY <2>3, <2>5, NotAtEnd, LexTurnTurns DEF Turn
    <3>2. after[ly] = after[next(ly)]
      BY <1>3, <2>3, <2>5, Zenon DEF LexStep
    <3> HIDE DEF next
    <3>3. LexInv(src, next(ly)) /\ next(ly).pos = k
      BY <2>2, <3>1, TurnKeeps
    <3>4. Len(src) + 1 - k \in Nat /\ ~ (Len(src) + 1 - ly.pos <= Len(src) + 1 - k)
      BY <1>1, <2>3, <3>1, SMT
    <3>5. Fine(next(ly))
      <4> HIDE DEF Fine
      <4>1. ~Fine(next(ly)) => Len(src) + 1 - k \in bad
        BY <3>3, <3>4
      <4>2. Len(src) + 1 - k \notin bad
        <5> HIDE DEF bad
        <5> QED BY <2>1, <2>2, <3>4
      <4> QED BY <4>1, <4>2
    <3> QED BY <2>2, <3>2, <3>5
  <2> QED BY <2>4, <2>5
<1>5. Fine(lx)
  <2> HIDE DEF Fine
  <2> QED BY <1>2, <1>4
<1> QED BY <1>5 DEF after

LEMMA LexStartInv ==
  ASSUME NEW src \in Seq(STRING)
  PROVE  LexInv(src, LexStart(src))
<1> DEFINE lx == LexStart(src)
<1>1. Len(src) \in Nat /\ 1 \in 1 .. Len(src) + 1 /\ 1 \in Nat
  BY LenProperties, SMT
<1>2. <<>> \in Seq(Tokens) /\ Len(<<>>) = 0 /\ DOMAIN <<>> = {}
  BY EmptySeq, LenProperties, SMT
<1>3. /\ lx.src = src /\ lx.pos = 1 /\ lx.line = 1
      /\ lx.tokens = <<>> /\ ~lx.had_error
  BY DEF LexStart
<1>4. lx \in Lexers(src)
  BY <1>1, <1>2 DEF LexStart, Lexers
<1>5. Newlines(src, 1, 0) = 0
  <2>1. {k \in 1 .. 0 : src[k] = "\n"} = {}
    BY SMT
  <2> QED BY <2>1, FS_EmptySet DEF Newlines
<1>6. EndBefore(<<>>, Len(<<>>) + 1) = 0
  BY <1>2 DEF EndBefore
<1>7. Gaps(src, 1)[0]
  <2>1. Gaps(src, 1)[1 - 1]
    BY <1>1, GapGrows
  <2>2. 1 - 1 = 0
    BY SMT
  <2> QED BY <2>1, <2>2
<1>8. Laid(src, <<>>, 1)
  <2>1. 1 - 1 = 0 /\ 0 + 1 = 1 /\ 0 \in 0 .. 0
    BY SMT
  <2>2. \A k \in DOMAIN <<>> : Placed(src, <<>>, k)
    BY <1>2
  <2> QED BY <1>6, <1>7, <2>1, <2>2, Zenon DEF Laid
<1>9. Numbers(src, <<>>)
  BY <1>2, Zenon DEF Numbers
<1>10. 1 - 1 = 0 /\ 1 = 1 + 0
  BY SMT
<1> HIDE DEF lx
<1> QED BY <1>3, <1>4, <1>5, <1>8, <1>9, <1>10 DEF LexInv, lx

\* What the end-of-file token is put behind.
LEMMA LexInvAtEnd ==
  ASSUME NEW src \in Seq(STRING), NEW lx, LexInv(src, lx), lx.pos = Len(src) + 1
  PROVE  LET end == Emit(lx, Len(src) + 1, "EOF", 0)
         IN  /\ end.tokens = Append(lx.tokens, TokenOf(lx, Len(src) + 1, "EOF", 0))
             /\ end.had_error = lx.had_error
<1> DEFINE token == TokenOf(lx, Len(src) + 1, "EOF", 0)
           line == lx.line + Newlines(src, lx.pos, (Len(src) + 1) - 1)
<1>1. Len(src) \in Nat /\ lx \in Lexers(src) /\ "EOF" \in TokenTypes /\ 0 \in Int
  BY LenProperties DEF LexInv, TokenTypes
<1>2. Len(src) + 1 \in 1 .. Len(src) + 1
  BY <1>1, SMT
<1>3. Emit(lx, Len(src) + 1, "EOF", 0)
        = Lexer(src, Len(src) + 1, line, Append(lx.tokens, token), lx.had_error)
  BY <1>1, <1>2, Emitted
<1> HIDE DEF token, line
<1> QED BY <1>3 DEF Lexer, token

LEMMA LexedTiles ==
  ASSUME NEW src \in Seq(STRING)
  PROVE  /\ Lex(src).tokens \in Seq(Tokens) /\ Lex(src).had_error \in BOOLEAN
         /\ ~Lex(src).had_error => Tile(src, Lex(src).tokens)
         /\ Numbers(src, Lex(src).tokens)
<1> DEFINE lx == Loop(src)[LexStart(src)]
           n == Len(lx.tokens)
           token == TokenOf(lx, Len(src) + 1, "EOF", 0)
           s == Append(lx.tokens, token)
<1>1. LexInv(src, lx) /\ lx.pos = Len(src) + 1
  BY LexStartInv, LoopEnds
<1>2. Lex(src).tokens = s /\ Lex(src).had_error = lx.had_error
  <2> HIDE DEF lx
  <2> QED BY <1>1, LexInvAtEnd DEF Lex, lx
<1> HIDE DEF lx
<1>3. lx \in Lexers(src) /\ lx.tokens \in Seq(Tokens) /\ Len(src) \in Nat /\ lx.line \in Nat
  BY <1>1, LenProperties DEF LexInv, Lexers
<1>4. /\ token.type = "EOF" /\ token.first = Len(src) + 1
      /\ token.line = 1 + Newlines(src, 1, Len(src))
  <2>1. token.type = "EOF" /\ token.first = lx.pos /\ token.line = lx.line
    BY DEF TokenOf
  <2>2. lx.line = 1 + Newlines(src, 1, lx.pos - 1) /\ lx.pos - 1 = Len(src)
    BY <1>1, <1>3 DEF LexInv
  <2> QED BY <1>1, <2>1, <2>2
<1>5. token \in Tokens
  BY <1>1, <1>3, SMT DEF TokenOf, Tokens, TokenTypes
<1> HIDE DEF token
<1>6. /\ n \in Nat /\ Len(s) = n + 1 /\ DOMAIN s = 1 .. n + 1
      /\ DOMAIN lx.tokens = 1 .. n /\ s[n + 1] = token
      /\ \A j \in 1 .. n : s[j] = lx.tokens[j]
      /\ s \in Seq(Tokens)
  BY <1>3, <1>5, LenProperties, AppendProperties
<1>10. lx.had_error \in BOOLEAN
  BY <1>3 DEF Lexers
<1> HIDE DEF s, n
<1>7. \A j \in 1 .. n + 1 : j \in 1 .. n \/ j = n + 1
  BY <1>6, SMT
<1>8. Numbers(src, s)
  <2>1. \A j \in 1 .. n : lx.tokens[j].type \in NumberTypes => NumberRead(src, lx.tokens[j])
    BY <1>1, <1>6 DEF LexInv, Numbers
  <2>2. "EOF" \notin NumberTypes
    BY DEF NumberTypes
  <2> QED BY <1>4, <1>6, <1>7, <2>1, <2>2 DEF Numbers
<1>9. ASSUME ~lx.had_error PROVE Tile(src, s)
  <2> DEFINE e == EndBefore(lx.tokens, n + 1)
  <2>1. Laid(src, lx.tokens, Len(src) + 1)
    BY <1>1, <1>9 DEF LexInv
  <2>2. /\ \A j \in 1 .. n : Placed(src, lx.tokens, j)
        /\ e \in 0 .. (Len(src) + 1) - 1 /\ Gaps(src, e + 1)[(Len(src) + 1) - 1]
    BY <1>6, <2>1 DEF Laid, n
  <2>3. \A j \in 1 .. n + 1 : EndBefore(s, j) = EndBefore(lx.tokens, j)
    <3> SUFFICES ASSUME NEW j \in 1 .. n + 1, j # 1 PROVE s[j - 1].last = lx.tokens[j - 1].last
      BY DEF EndBefore
    <3>1. j - 1 \in 1 .. n
      BY <1>6, SMT
    <3> QED BY <1>6, <3>1
  <2> DEFINE Good(k) ==
               /\ s[k].first > EndBefore(s, k)
               /\ IF k = Len(s) THEN s[k].type = "EOF"
                  ELSE s[k].last \in s[k].first .. Len(src)
               /\ s[k].line = 1 + Newlines(src, 1, s[k].first - 1)
               /\ Gaps(src, EndBefore(s, k) + 1)[s[k].first - 1]
  <2>4. ASSUME NEW j \in 1 .. n PROVE Good(j)
    <3>1. j \in 1 .. n + 1 /\ j # n + 1
      BY <1>6, SMT
    <3>2. Placed(src, lx.tokens, j) /\ s[j] = lx.tokens[j]
      BY <1>6, <2>2
    <3> QED BY <1>6, <2>3, <3>1, <3>2, Zenon DEF Placed
  <2>5. Good(n + 1)
    <3>1. n + 1 \in 1 .. n + 1
      BY <1>6, SMT
    <3>2. EndBefore(s, n + 1) = e
      BY <2>3, <3>1
    <3> HIDE DEF e
    <3>3. (Len(src) + 1) - 1 = Len(src) /\ Len(src) + 1 > e
      BY <1>3, <2>2, SMT
    <3> QED BY <1>4, <1>6, <2>2, <3>2, <3>3
  <2>6. \A k \in DOMAIN s : Good(k)
    <3> HIDE DEF Good
    <3> QED BY <1>6, <1>7, <2>4, <2>5
  <2>7. s # <<>> /\ s[Len(s)].first = Len(src) + 1
    <3>1. Len(s) # 0
      BY <1>6, SMT
    <3>2. Len(<<>>) = 0
      BY EmptySeq
    <3> QED BY <1>4, <1>6, <3>1, <3>2
  <2> QED BY <2>6, <2>7, Zenon DEF Tile
<1> QED BY <1>2, <1>6, <1>8, <1>9, <1>10

-----------------------------------------------------------------------------
(* The symbol table.                                                       *)

Kinds == {"register", "signal", "capability", "config"}

\* Symbol tables and analyses of the names in N.
Tables(N, A) == Seq([name : N, kind : Kinds, access : A])

Analyses(N, A) ==
  [globals : Tables(N, A), errors : Nat, overlaps : SUBSET (Nat \X Nat)]

NamesIn(symtab) == {symtab[j].name : j \in DOMAIN symtab}

LEMMA KnownIsNamed ==
  ASSUME NEW N, NEW A, NEW symtab \in Tables(N, A), NEW name
  PROVE  Known(symtab, name) <=> name \in NamesIn(symtab)
<1> DEFINE n == Len(symtab)
           P == {j \in 1 .. n : symtab[j].name = name}
<1>1. n \in Nat /\ DOMAIN symtab = 1 .. n /\ P \subseteq Nat
      /\ \A j \in 1 .. n : symtab[j] \in [name : N, kind : Kinds, access : A]
  <2> DEFINE E == [name : N, kind : Kinds, access : A]
  <2>1. symtab \in Seq(E)
    BY DEF Tables
  <2> HIDE DEF E
  <2>2. n \in Nat /\ DOMAIN symtab = 1 .. n /\ \A j \in 1 .. n : symtab[j] \in E
    BY <2>1, LenProperties, ElementOfSeq
  <2>3. P \subseteq Nat
    BY SMT
  <2> QED BY <2>2, <2>3 DEF E
<1>2. CASE name \in NamesIn(symtab)
  <2>1. P # {}
    BY <1>1, <1>2 DEF NamesIn
  <2>2. PICK k \in P : \A m \in P : k <= m
    BY <1>1, <2>1, LeastNat
  <2>3. \A j \in 1 .. k - 1 : j \in 1 .. n /\ ~ (k <= j)
    BY <1>1, SMT
  <2>4. /\ k \in DOMAIN symtab /\ symtab[k].name = name
        /\ \A j \in 1 .. k - 1 : symtab[j].name # name
    BY <1>1, <2>2, <2>3
  <2> DEFINE c == CHOOSE i \in DOMAIN symtab :
                    /\ symtab[i].name = name
                    /\ \A j \in 1 .. i - 1 : symtab[j].name # name
  <2>5. c \in DOMAIN symtab
    BY <2>4, Zenon
  <2>6. Find(symtab, name) = symtab[c]
    BY <2>4, Zenon DEF Find
  <2> HIDE DEF c
  <2>7. symtab[c].kind \in Kinds
    BY <1>1, <2>5
  <2>8. NoSymbol.kind \notin Kinds
    BY DEF NoSymbol, Kinds
  <2> QED BY <1>2, <2>6, <2>7, <2>8, Zenon DEF Known
<1>3. CASE name \notin NamesIn(symtab)
  <2>1. Find(symtab, name) = NoSymbol
    BY <1>3, Zenon DEF Find, NamesIn
  <2> QED BY <1>3, <2>1, Zenon DEF Known
<1> QED BY <1>2, <1>3

\* Table r is table s with a name more, or s when that is full.
EnteredIn(s, r, name) ==
  IF Len(s) < SymtabMax
  THEN Len(r) = Len(s) + 1 /\ NamesIn(r) = NamesIn(s) \union {name}
  ELSE r = s

\* A table with one more name, if there is room for it.
LEMMA Pushed ==
  ASSUME NEW N, NEW A, NEW symtab \in Tables(N, A),
         NEW name \in N, NEW kind \in Kinds, NEW access \in A
  PROVE  LET r == Push(symtab, name, kind, access)
         IN  /\ r \in Tables(N, A) /\ Len(symtab) \in Nat
             /\ Len(r) \in Nat /\ Len(r) <= Len(symtab) + 1
             /\ Len(symtab) < SymtabMax => NamesIn(r) = NamesIn(symtab) \union {name}
             /\ EnteredIn(symtab, r, name)
<1> DEFINE n == Len(symtab)
           e == [name |-> name, kind |-> kind, access |-> access]
           s == Append(symtab, e)
           E == [name : N, kind : Kinds, access : A]
<1>1. symtab \in Seq(E) /\ e \in E
  BY DEF Tables
<1>2. n \in Nat /\ DOMAIN symtab = 1 .. n
  BY <1>1, LenProperties
<1>3. e.name = name
  OBVIOUS
<1> HIDE DEF E, e
<1>4. /\ s \in Seq(E) /\ Len(s) = n + 1 /\ DOMAIN s = 1 .. n + 1
      /\ s[n + 1] = e /\ \A j \in 1 .. n : s[j] = symtab[j]
  BY <1>1, LenProperties, AppendProperties
<1> HIDE DEF s, n
<1>5. NamesIn(s) = NamesIn(symtab) \union {name}
  <2>1. \A j \in 1 .. n + 1 : j \in 1 .. n \/ j = n + 1
    BY <1>2, SMT
  <2>2. n + 1 \in 1 .. n + 1 /\ \A j \in 1 .. n : j \in 1 .. n + 1
    BY <1>2, SMT
  <2>3. ASSUME NEW m PROVE m \in NamesIn(s) <=> m \in NamesIn(symtab) \union {name}
    BY <1>2, <1>3, <1>4, <2>1, <2>2 DEF NamesIn
  <2> QED BY <2>3
<1>6. CASE n >= SymtabMax
  <2>1. Push(symtab, name, kind, access) = symtab
    BY <1>6, Zenon DEF Push, n
  <2>2. ~ (n < SymtabMax) /\ n <= n + 1
    BY <1>2, <1>6, SymtabAssumption, SMT
  <2> QED BY <1>1, <1>2, <2>1, <2>2 DEF Tables, E, n, EnteredIn
<1>7. CASE ~ (n >= SymtabMax)
  <2>1. Push(symtab, name, kind, access) = s
    BY <1>7, Zenon DEF Push, n, s, e
  <2>2. n + 1 \in Nat /\ n + 1 <= n + 1 /\ n < SymtabMax
    BY <1>2, <1>7, SymtabAssumption, SMT
  <2> QED BY <1>2, <1>4, <1>5, <2>1, <2>2 DEF Tables, E, n, EnteredIn
<1> QED BY <1>6, <1>7

\* An analysis by its fields.
AnalysisOf(globals, errors, overlaps) ==
  [globals |-> globals, errors |-> errors, overlaps |-> overlaps]

FirstNamed(decls, k) == \A i \in 1 .. k - 1 : decls[i].name # decls[k].name

LEMMA CheckNameFields ==
  ASSUME NEW N, NEW A, "rw" \in A, NEW a \in Analyses(N, A), NEW name \in N, NEW kind \in Kinds
  PROVE  LET r == CheckName(a, name, kind)
         IN  /\ r \in Analyses(N, A) /\ r.overlaps = a.overlaps
             /\ Len(r.globals) \in Nat /\ Len(a.globals) \in Nat
             /\ Len(r.globals) <= Len(a.globals) + 1
             /\ Len(a.globals) < SymtabMax =>
                  NamesIn(r.globals) = NamesIn(a.globals) \union {name}
             /\ r.errors = 0 <=> a.errors = 0 /\ name \notin NamesIn(a.globals)
             /\ r.errors = 0 => EnteredIn(a.globals, r.globals, name)
<1> DEFINE g == Push(a.globals, name, kind, "rw")
           r == CheckName(a, name, kind)
<1>1. /\ a.globals \in Tables(N, A) /\ a.errors \in Nat /\ a.overlaps \in SUBSET (Nat \X Nat)
      /\ a = AnalysisOf(a.globals, a.errors, a.overlaps)
  BY DEF Analyses, AnalysisOf
<1>2. /\ g \in Tables(N, A) /\ Len(a.globals) \in Nat
      /\ Len(g) \in Nat /\ Len(g) <= Len(a.globals) + 1
      /\ Len(a.globals) < SymtabMax => NamesIn(g) = NamesIn(a.globals) \union {name}
      /\ EnteredIn(a.globals, g, name)
  BY <1>1, Pushed
<1>3. Known(a.globals, name) <=> name \in NamesIn(a.globals)
  BY <1>1, KnownIsNamed
<1> HIDE DEF g
<1>4. CASE Known(a.globals, name)
  <2>1. r = [a EXCEPT !.errors = @ + 1]
    BY <1>4 DEF CheckName
  <2>2. /\ r \in Analyses(N, A) /\ r.globals = a.globals
        /\ r.overlaps = a.overlaps /\ r.errors = a.errors + 1
    BY <2>1 DEF Analyses
  <2> HIDE DEF r
  <2>3. r.errors # 0 /\ Len(a.globals) <= Len(a.globals) + 1
    BY <1>1, <1>2, <2>2, SMT
  <2>4. NamesIn(a.globals) = NamesIn(a.globals) \union {name}
    BY <1>3, <1>4
  <2> QED BY <1>2, <1>3, <1>4, <2>2, <2>3, <2>4 DEF r
<1>5. CASE ~Known(a.globals, name)
  <2>1. r = [a EXCEPT !.globals = g]
    BY <1>5 DEF CheckName, g
  <2>2. /\ r \in Analyses(N, A) /\ r.globals = g
        /\ r.overlaps = a.overlaps /\ r.errors = a.errors
    BY <1>2, <2>1 DEF Analyses
  <2> HIDE DEF r
  <2> QED BY <1>2, <1>3, <1>5, <2>2 DEF r
<1> QED BY <1>4, <1>5

\* r is a with a name more, if there was room for it.
AddsName(N, A, a, r, name) ==
  /\ r \in Analyses(N, A)
  /\ Len(r.globals) \in Nat /\ Len(r.globals) <= Len(a.globals) + 1
  /\ Len(a.globals) < SymtabMax => NamesIn(r.globals) = NamesIn(a.globals) \union {name}

LEMMA AddCapabilityFields ==
  ASSUME NEW N, NEW A, "rw" \in A, NEW a \in Analyses(N, A), NEW name \in N
  PROVE  LET r == AddCapability(a, name)
         IN  /\ AddsName(N, A, a, r, name) /\ r.overlaps = a.overlaps /\ r.errors = a.errors
             /\ EnteredIn(a.globals, r.globals, name)
<1> DEFINE g == Push(a.globals, name, "capability", "rw")
           r == AddCapability(a, name)
<1>1. a.globals \in Tables(N, A) /\ "capability" \in Kinds
  BY DEF Analyses, Kinds
<1>2. /\ g \in Tables(N, A) /\ Len(a.globals) \in Nat
      /\ Len(g) \in Nat /\ Len(g) <= Len(a.globals) + 1
      /\ Len(a.globals) < SymtabMax => NamesIn(g) = NamesIn(a.globals) \union {name}
      /\ EnteredIn(a.globals, g, name)
  BY <1>1, Pushed
<1> HIDE DEF g
<1>3. r = [a EXCEPT !.globals = g]
  BY DEF AddCapability, g
<1>4. /\ r \in Analyses(N, A) /\ r.globals = g
      /\ r.overlaps = a.overlaps /\ r.errors = a.errors
  BY <1>2, <1>3 DEF Analyses
<1> HIDE DEF r
<1>5. AddsName(N, A, a, r, name)
  BY <1>2, <1>4 DEF AddsName
<1> QED BY <1>2, <1>4, <1>5 DEF r

NamesUpTo(decls, k) == {decls[i].name : i \in 1 .. k}

\* After k of n declarations.
Grown(N, A, a, r, decls, n, k) ==
  /\ r \in Analyses(N, A)
  /\ Len(r.globals) \in Nat /\ Len(a.globals) \in Nat
  /\ Len(r.globals) <= Len(a.globals) + k
  /\ Len(a.globals) + n <= SymtabMax =>
       NamesIn(r.globals) = NamesIn(a.globals) \union NamesUpTo(decls, k)

LEMMA TableLength ==
  ASSUME NEW N, NEW A, NEW a \in Analyses(N, A)
  PROVE  Len(a.globals) \in Nat
BY LenProperties DEF Analyses, Tables

LEMMA TableGrows ==
  ASSUME NEW N, NEW A, NEW f, NEW n \in Nat, NEW decls, f[0] \in Analyses(N, A),
         \A k \in 1 .. n : f[k - 1] \in Analyses(N, A) =>
           AddsName(N, A, f[k - 1], f[k], decls[k].name)
  PROVE  \A k \in 0 .. n : Grown(N, A, f[0], f[k], decls, n, k)
<1> DEFINE S == {k \in 0 .. n : Grown(N, A, f[0], f[k], decls, n, k)}
<1>1. Grown(N, A, f[0], f[0], decls, n, 0)
  <2>1. NamesUpTo(decls, 0) = {}
    <3>1. 1 .. 0 = {}
      BY SMT
    <3> QED BY <3>1 DEF NamesUpTo
  <2>2. Len(f[0].globals) \in Nat
    BY TableLength
  <2>3. Len(f[0].globals) <= Len(f[0].globals) + 0
    BY <2>2, SMT
  <2> QED BY <2>1, <2>2, <2>3 DEF Grown
<1>2. ASSUME NEW k \in 0 + 1 .. n, k - 1 \in S PROVE k \in S
  <2>1. /\ k \in 1 .. n /\ k \in 0 .. n /\ k - 1 \in 0 .. n /\ k \in Nat
        /\ \A i \in 1 .. k : i \in 1 .. k - 1 \/ i = k
        /\ \A i \in 1 .. k - 1 : i \in 1 .. k
        /\ k \in 1 .. k
    BY SMT
  <2>2. Grown(N, A, f[0], f[k - 1], decls, n, k - 1)
    BY <1>2
  <2>3. AddsName(N, A, f[k - 1], f[k], decls[k].name)
    BY <2>1, <2>2 DEF Grown
  <2>4. NamesUpTo(decls, k) = NamesUpTo(decls, k - 1) \union {decls[k].name}
    <3>1. ASSUME NEW m
          PROVE  m \in NamesUpTo(decls, k) <=> m \in NamesUpTo(decls, k - 1) \union {decls[k].name}
      BY <2>1 DEF NamesUpTo
    <3> QED BY <3>1
  <2>5. /\ Len(f[k - 1].globals) \in Nat /\ Len(f[0].globals) \in Nat /\ Len(f[k].globals) \in Nat
        /\ Len(f[k - 1].globals) <= Len(f[0].globals) + (k - 1)
        /\ Len(f[k].globals) <= Len(f[k - 1].globals) + 1
    BY <2>2, <2>3 DEF Grown, AddsName
  <2>6. Len(f[k].globals) <= Len(f[0].globals) + k
    <3>1. \A x, y, z \in Nat : x <= y + (k - 1) /\ z <= x + 1 => z <= y + k
      BY <2>1, SMT
    <3> QED BY <2>5, <3>1
  <2>7. Len(f[0].globals) + n <= SymtabMax => Len(f[k - 1].globals) < SymtabMax
    BY <2>1, <2>5, SymtabAssumption, SMT
  <2> QED BY <2>1, <2>2, <2>3, <2>4, <2>5, <2>6, <2>7 DEF Grown, AddsName
<1>3. 0 \in 0 .. n /\ 0 \in Nat
  BY SMT
<1> HIDE DEF S
<1>4. \A k \in 0 .. n : k \in S
  <2>1. 0 \in S
    BY <1>1, <1>3 DEF S
  <2> QED BY <1>2, <1>3, <2>1, Upwards
<1> QED BY <1>4 DEF S

\* Declarations whose names are in N.
Decls(N, decls) == Len(decls) \in Nat /\ \A k \in 1 .. Len(decls) : decls[k].name \in N

LEMMA NamesCheckedEquation ==
  ASSUME NEW N, NEW A, "rw" \in A, NEW a \in Analyses(N, A), NEW decls, Decls(N, decls),
         NEW kind \in Kinds
  PROVE  /\ NamesChecked(a, decls, kind)[0] = a
         /\ \A k \in 1 .. Len(decls) :
              NamesChecked(a, decls, kind)[k] =
                CheckName(NamesChecked(a, decls, kind)[k - 1], decls[k].name, kind)
<1> DEFINE V == Analyses(N, A)
           n == Len(decls)
           step == [p \in (0 + 1 .. n) \X V |-> CheckName(p[2], decls[p[1]].name, kind)]
           F(f) == [k \in 0 .. n |-> IF k = 0 THEN a ELSE CheckName(f[k - 1], decls[k].name, kind)]
<1>1. n \in Nat /\ 0 \in Nat /\ 0 + 1 .. n = 1 .. n /\ 0 \in 0 .. n
      /\ (\A k \in 0 .. n : k # 0 => k \in 1 .. n /\ k - 1 \in 0 .. n)
      /\ (\A k \in 1 .. n : k # 0 /\ k \in 0 .. n)
  <2>1. n \in Nat
    BY DEF Decls
  <2> HIDE DEF n
  <2> QED BY <2>1, SMT
<1>2. step \in [(0 + 1 .. n) \X V -> V]
  <2>1. ASSUME NEW k \in 0 + 1 .. n, NEW b \in V PROVE CheckName(b, decls[k].name, kind) \in V
    BY <1>1, CheckNameFields DEF Decls
  <2> HIDE DEF V
  <2> QED BY <2>1
<1>3. PICK f \in [0 .. n -> V] : Folds(f, a, 0, n, step)
  <2> HIDE DEF step, V
  <2>1. a \in V
    BY DEF V
  <2> QED BY <1>1, <1>2, <2>1, Fold
<1>4. f = F(f)
  <2>1. \A k \in 0 .. n : f[k] = IF k = 0 THEN a ELSE CheckName(f[k - 1], decls[k].name, kind)
    <3> SUFFICES ASSUME NEW k \in 0 .. n, k # 0
                 PROVE  step[<<k, f[k - 1]>>] = CheckName(f[k - 1], decls[k].name, kind)
      BY <1>1, <1>3 DEF Folds
    <3>1. <<k, f[k - 1]>> \in (0 + 1 .. n) \X V
      BY <1>1
    <3> QED BY <3>1
  <2> HIDE DEF V
  <2> QED BY <2>1
<1> DEFINE w == NamesChecked(a, decls, kind)
<1>5. w = CHOOSE g : g = F(g)
  BY Zenon DEF NamesChecked
<1> HIDE DEF w
<1>6. w = F(w)
  <2> HIDE DEF F
  <2> QED BY <1>4, <1>5, Zenon
<1>7. \A k \in 0 .. n : w[k] = IF k = 0 THEN a ELSE CheckName(w[k - 1], decls[k].name, kind)
  BY <1>6, Zenon
<1> QED BY <1>1, <1>7 DEF w

\* What the check of names leaves.
LEMMA CheckedNames ==
  ASSUME NEW N, NEW A, "rw" \in A, NEW a \in Analyses(N, A), NEW decls, Decls(N, decls),
         NEW kind \in Kinds
  PROVE  LET r == CheckNames(a, decls, kind)
         IN  r \in Analyses(N, A) /\ r.overlaps = a.overlaps
<1> DEFINE n == Len(decls)
           f == NamesChecked(a, decls, kind)
           S == {k \in 0 .. n : f[k] \in Analyses(N, A) /\ f[k].overlaps = a.overlaps}
<1>1. n \in Nat /\ 0 \in Nat /\ 0 \in 0 .. n /\ n \in 0 .. n
  BY SMT DEF Decls
<1>2. f[0] = a /\ \A k \in 1 .. n : f[k] = CheckName(f[k - 1], decls[k].name, kind)
  BY NamesCheckedEquation
<1> HIDE DEF f, n
<1>3. \A k \in 1 .. n : decls[k].name \in N
  BY DEF Decls, n
<1>4. ASSUME NEW k \in 0 + 1 .. n, k - 1 \in S PROVE k \in S
  <2>1. k \in 1 .. n /\ k \in 0 .. n
    BY <1>1, SMT
  <2>2. f[k - 1] \in Analyses(N, A) /\ f[k - 1].overlaps = a.overlaps
    BY <1>4
  <2>3. f[k] \in Analyses(N, A) /\ f[k].overlaps = f[k - 1].overlaps
    BY <1>2, <1>3, <2>1, <2>2, CheckNameFields
  <2> QED BY <2>1, <2>2, <2>3
<1>5. \A k \in 0 .. n : k \in S
  <2>1. 0 \in S
    BY <1>1, <1>2
  <2> HIDE DEF S
  <2> QED BY <1>1, <1>4, <2>1, Upwards
<1>6. f[n] \in Analyses(N, A) /\ f[n].overlaps = a.overlaps
  BY <1>1, <1>5
<1>7. CheckNames(a, decls, kind) = f[n]
  BY DEF CheckNames, f, n
<1> QED BY <1>6, <1>7

LEMMA CapabilitiesAddedEquation ==
  ASSUME NEW N, NEW A, "rw" \in A, NEW a \in Analyses(N, A), NEW caps, Decls(N, caps)
  PROVE  /\ CapabilitiesAdded(a, caps)[0] = a
         /\ \A k \in 1 .. Len(caps) :
              CapabilitiesAdded(a, caps)[k] =
                AddCapability(CapabilitiesAdded(a, caps)[k - 1], caps[k].name)
<1> DEFINE V == Analyses(N, A)
           n == Len(caps)
           step == [p \in (0 + 1 .. n) \X V |-> AddCapability(p[2], caps[p[1]].name)]
           F(f) == [k \in 0 .. n |-> IF k = 0 THEN a ELSE AddCapability(f[k - 1], caps[k].name)]
<1>1. n \in Nat /\ 0 \in Nat /\ 0 + 1 .. n = 1 .. n /\ 0 \in 0 .. n
      /\ (\A k \in 0 .. n : k # 0 => k \in 1 .. n /\ k - 1 \in 0 .. n)
      /\ (\A k \in 1 .. n : k # 0 /\ k \in 0 .. n)
  <2>1. n \in Nat
    BY DEF Decls
  <2> HIDE DEF n
  <2> QED BY <2>1, SMT
<1>2. step \in [(0 + 1 .. n) \X V -> V]
  <2>1. ASSUME NEW k \in 0 + 1 .. n, NEW b \in V PROVE AddCapability(b, caps[k].name) \in V
    <3>1. AddsName(N, A, b, AddCapability(b, caps[k].name), caps[k].name)
      BY <1>1, AddCapabilityFields DEF Decls
    <3> QED BY <3>1 DEF AddsName
  <2> HIDE DEF V
  <2> QED BY <2>1
<1>3. PICK f \in [0 .. n -> V] : Folds(f, a, 0, n, step)
  <2> HIDE DEF step, V
  <2>1. a \in V
    BY DEF V
  <2> QED BY <1>1, <1>2, <2>1, Fold
<1>4. f = F(f)
  <2>1. \A k \in 0 .. n : f[k] = IF k = 0 THEN a ELSE AddCapability(f[k - 1], caps[k].name)
    <3> SUFFICES ASSUME NEW k \in 0 .. n, k # 0
                 PROVE  step[<<k, f[k - 1]>>] = AddCapability(f[k - 1], caps[k].name)
      BY <1>1, <1>3 DEF Folds
    <3>1. <<k, f[k - 1]>> \in (0 + 1 .. n) \X V
      BY <1>1
    <3> QED BY <3>1
  <2> HIDE DEF V
  <2> QED BY <2>1
<1> DEFINE w == CapabilitiesAdded(a, caps)
<1>5. w = CHOOSE g : g = F(g)
  BY Zenon DEF CapabilitiesAdded
<1> HIDE DEF w
<1>6. w = F(w)
  <2> HIDE DEF F
  <2> QED BY <1>4, <1>5, Zenon
<1>7. \A k \in 0 .. n : w[k] = IF k = 0 THEN a ELSE AddCapability(w[k - 1], caps[k].name)
  BY <1>6, Zenon
<1> QED BY <1>1, <1>7 DEF w

\* What the capabilities leave.
LEMMA AddedCapabilities ==
  ASSUME NEW N, NEW A, "rw" \in A, NEW a \in Analyses(N, A), NEW caps, Decls(N, caps)
  PROVE  LET r == AddCapabilities(a, caps)
         IN  r \in Analyses(N, A) /\ r.overlaps = a.overlaps
<1> DEFINE n == Len(caps)
           f == CapabilitiesAdded(a, caps)
           S == {k \in 0 .. n : f[k] \in Analyses(N, A) /\ f[k].overlaps = a.overlaps}
<1>1. n \in Nat /\ 0 \in Nat /\ 0 \in 0 .. n /\ n \in 0 .. n
  BY SMT DEF Decls
<1>2. f[0] = a /\ \A k \in 1 .. n : f[k] = AddCapability(f[k - 1], caps[k].name)
  BY CapabilitiesAddedEquation
<1> HIDE DEF f, n
<1>3. \A k \in 1 .. n : caps[k].name \in N
  BY DEF Decls, n
<1>4. ASSUME NEW k \in 0 + 1 .. n, k - 1 \in S PROVE k \in S
  <2>1. k \in 1 .. n /\ k \in 0 .. n
    BY <1>1, SMT
  <2>2. f[k - 1] \in Analyses(N, A) /\ f[k - 1].overlaps = a.overlaps
    BY <1>4
  <2>3. f[k] \in Analyses(N, A) /\ f[k].overlaps = f[k - 1].overlaps
    BY <1>2, <1>3, <2>1, <2>2, AddCapabilityFields DEF AddsName
  <2> QED BY <2>1, <2>2, <2>3
<1>5. \A k \in 0 .. n : k \in S
  <2>1. 0 \in S
    BY <1>1, <1>2
  <2> HIDE DEF S
  <2> QED BY <1>1, <1>4, <2>1, Upwards
<1>6. f[n] \in Analyses(N, A) /\ f[n].overlaps = a.overlaps
  BY <1>1, <1>5
<1>7. AddCapabilities(a, caps) = f[n]
  BY DEF AddCapabilities, f, n
<1> QED BY <1>6, <1>7

\* The bit ranges of a register in order.
InOrder(reg) == \A m \in DOMAIN reg.members : reg.members[m].bit_lo <= reg.members[m].bit_hi

LEMMA InvertedCounted ==
  ASSUME NEW reg, IsRegister(reg)
  PROVE  InvertedMembers(reg) \in Nat /\ (InvertedMembers(reg) = 0 <=> InOrder(reg))
<1> DEFINE I == {k \in DOMAIN reg.members : reg.members[k].bit_lo > reg.members[k].bit_hi}
<1>1. IsFiniteSet(DOMAIN reg.members)
  <2>1. Len(reg.members) \in Nat /\ DOMAIN reg.members = 1 .. Len(reg.members)
    BY LenProperties DEF IsRegister, IsSequence
  <2> QED BY <2>1, FS_Interval
<1>2. IsFiniteSet(I)
  BY <1>1, FS_Subset
<1>3. Cardinality(I) \in Nat /\ (Cardinality(I) = 0 <=> I = {})
  BY <1>2, FS_CardinalityType, FS_EmptySet
<1>4. InvertedMembers(reg) = Cardinality(I)
  BY DEF InvertedMembers
<1>5. I = {} <=> InOrder(reg)
  <2>1. \A k \in DOMAIN reg.members : reg.members[k].bit_lo \in Int /\ reg.members[k].bit_hi \in Int
    BY DEF IsRegister
  <2>2. \A x, y \in Int : x > y <=> ~(x <= y)
    BY SMT
  <2> QED BY <2>1, <2>2 DEF InOrder
<1> QED BY <1>3, <1>4, <1>5

LEMMA OverlapShares ==
  ASSUME NEW r, NEW s, IsRegister(r), IsRegister(s),
         \A reg \in {r, s} : reg.offset = NoOffset \/ \A b \in BytesOf(reg) : b + 1 < OffsetModulus
  PROVE  Overlap(r, s) <=> ShareByte(r, s)
<1>1. SUFFICES ASSUME r.offset # NoOffset, s.offset # NoOffset
               PROVE  r.offset < EndOffset(s) /\ s.offset < EndOffset(r)
                        <=> BytesOf(r) \intersect BytesOf(s) # {}
  BY DEF Overlap, ShareByte
<1>2. ASSUME NEW reg \in {r, s}
      PROVE  /\ reg.offset \in Nat /\ ByteWidth(reg) \in Nat /\ ByteWidth(reg) >= 1
             /\ BytesOf(reg) = reg.offset .. reg.offset + ByteWidth(reg) - 1
             /\ EndOffset(reg) = reg.offset + ByteWidth(reg)
  <2>1. /\ reg.offset \in 0 .. OffsetModulus - 1 /\ reg.offset \in Nat
        /\ reg.width \in {0, 8, 16, 32, 64} /\ reg.bitfield = (reg.width = 0)
    BY <1>2, OffsetsAssumption, SMT DEF IsRegister
  <2>2. ByteWidth(reg) \in Nat /\ ByteWidth(reg) >= 1
    BY <2>1, SMT DEF ByteWidth
  <2>3. BytesOf(reg) = reg.offset .. reg.offset + ByteWidth(reg) - 1
    BY <2>1 DEF BytesOf, ByteWidth
  <2>4. \A b \in BytesOf(reg) : b + 1 < OffsetModulus
    BY <1>1, <1>2
  <2>5. reg.offset + ByteWidth(reg) < OffsetModulus
    <3> DEFINE o == reg.offset
               w == ByteWidth(reg)
    <3> HIDE DEF o, w
    <3>1. o + w - 1 \in o .. o + w - 1 /\ (o + w - 1) + 1 = o + w
      BY <2>1, <2>2, SMT DEF o, w
    <3> QED BY <2>3, <2>4, <3>1, Zenon DEF o, w
  <2>6. \A x, m \in Nat : x < m => x % m = x
    BY SMT
  <2>7. EndOffset(reg) = reg.offset + ByteWidth(reg)
    <3>1. reg.offset + ByteWidth(reg) \in Nat /\ OffsetModulus \in Nat
      BY <2>1, <2>2, OffsetsAssumption, SMT
    <3> QED BY <2>5, <2>6, <3>1 DEF EndOffset
  <2> QED BY <2>1, <2>2, <2>3, <2>7
<1>3. \A o, p, v, w \in Nat : v >= 1 /\ w >= 1 =>
        (o < p + w /\ p < o + v <=> (o .. o + v - 1) \intersect (p .. p + w - 1) # {})
  <2> SUFFICES ASSUME NEW o \in Nat, NEW p \in Nat, NEW v \in Nat, NEW w \in Nat, v >= 1, w >= 1
               PROVE  o < p + w /\ p < o + v
                        <=> \E b \in o .. o + v - 1 : b \in p .. p + w - 1
    OBVIOUS
  <2>1. CASE o <= p
    <3>1. p < o + v => p \in o .. o + v - 1 /\ p \in p .. p + w - 1
      BY <2>1, SMT
    <3>2. \A b \in o .. o + v - 1 : b \in p .. p + w - 1 => o < p + w /\ p < o + v
      BY SMT
    <3> QED BY <3>1, <3>2
  <2>2. CASE ~(o <= p)
    <3>1. o < p + w => o \in o .. o + v - 1 /\ o \in p .. p + w - 1
      BY <2>2, SMT
    <3>2. \A b \in o .. o + v - 1 : b \in p .. p + w - 1 => o < p + w /\ p < o + v
      BY SMT
    <3> QED BY <3>1, <3>2
  <2> QED BY <2>1, <2>2
<1> DEFINE v == ByteWidth(r)
           w == ByteWidth(s)
<1>4. /\ r.offset \in Nat /\ v \in Nat /\ v >= 1
      /\ BytesOf(r) = r.offset .. r.offset + v - 1 /\ EndOffset(r) = r.offset + v
  BY <1>2
<1>5. /\ s.offset \in Nat /\ w \in Nat /\ w >= 1
      /\ BytesOf(s) = s.offset .. s.offset + w - 1 /\ EndOffset(s) = s.offset + w
  BY <1>2
<1> HIDE DEF v, w
<1>6. r.offset < s.offset + w /\ s.offset < r.offset + v
        <=> (r.offset .. r.offset + v - 1) \intersect (s.offset .. s.offset + w - 1) # {}
  BY <1>3, <1>4, <1>5
<1> QED BY <1>4, <1>5, <1>6

\* Registers whose names are in N and whose accesses are in A.
Registers(N, A, regs) ==
  /\ Decls(N, regs)
  /\ \A k \in 1 .. Len(regs) : IsRegister(regs[k]) /\ regs[k].access \in A

\* The pairs the k-th register adds.
Warned(regs, k) == {<<j, k>> : j \in {i \in 1 .. k - 1 : Overlap(regs[k], regs[i])}}

\* What the k-th register makes of a.
RegisterChecked(a, r, regs, k) ==
  /\ r.errors = 0 <=>
       /\ a.errors = 0 /\ regs[k].name \notin NamesIn(a.globals)
       /\ InOrder(regs[k])
  /\ r.errors = 0 => EnteredIn(a.globals, r.globals, regs[k].name)
  /\ r.overlaps = IF regs[k].name \in NamesIn(a.globals) THEN a.overlaps
                  ELSE a.overlaps \union Warned(regs, k)

LEMMA CheckRegisterFields ==
  ASSUME NEW N, NEW A, NEW a \in Analyses(N, A), NEW regs, Registers(N, A, regs),
         NEW k \in 1 .. Len(regs)
  PROVE  /\ AddsName(N, A, a, CheckRegister(a, regs, k), regs[k].name)
         /\ RegisterChecked(a, CheckRegister(a, regs, k), regs, k)
<1> DEFINE name == regs[k].name
           g == Push(a.globals, name, "register", regs[k].access)
           e == InvertedMembers(regs[k])
           r == CheckRegister(a, regs, k)
<1>1. /\ a.globals \in Tables(N, A) /\ a.errors \in Nat /\ a.overlaps \in SUBSET (Nat \X Nat)
      /\ "register" \in Kinds /\ name \in N /\ regs[k].access \in A /\ IsRegister(regs[k])
  BY DEF Analyses, Kinds, Registers, Decls
<1>2. /\ g \in Tables(N, A) /\ Len(a.globals) \in Nat
      /\ Len(g) \in Nat /\ Len(g) <= Len(a.globals) + 1
      /\ Len(a.globals) < SymtabMax => NamesIn(g) = NamesIn(a.globals) \union {name}
      /\ EnteredIn(a.globals, g, name)
  BY <1>1, Pushed
<1>3. Known(a.globals, name) <=> name \in NamesIn(a.globals)
  BY <1>1, KnownIsNamed
<1>4. e \in Nat /\ (e = 0 <=> InOrder(regs[k]))
  BY <1>1, InvertedCounted
<1>5. Warned(regs, k) \in SUBSET (Nat \X Nat)
  <2>1. k \in Nat /\ \A j \in 1 .. k - 1 : j \in Nat
    BY SMT DEF Registers, Decls
  <2> QED BY <2>1 DEF Warned
<1> HIDE DEF g, e
<1>6. CASE Known(a.globals, name)
  <2>1. r = [a EXCEPT !.errors = @ + 1]
    BY <1>6 DEF CheckRegister
  <2>2. /\ r \in Analyses(N, A) /\ r.globals = a.globals
        /\ r.overlaps = a.overlaps /\ r.errors = a.errors + 1
    BY <2>1 DEF Analyses
  <2> HIDE DEF r
  <2>3. r.errors # 0 /\ Len(a.globals) <= Len(a.globals) + 1
    BY <1>1, <1>2, <2>2, SMT
  <2>4. NamesIn(a.globals) = NamesIn(a.globals) \union {name}
    BY <1>3, <1>6
  <2>5. AddsName(N, A, a, r, name)
    BY <1>2, <2>2, <2>3, <2>4 DEF AddsName
  <2>6. RegisterChecked(a, r, regs, k)
    BY <1>3, <1>6, <2>2, <2>3 DEF RegisterChecked
  <2> QED BY <2>5, <2>6 DEF r
<1>7. CASE ~Known(a.globals, name)
  <2>1. r = [globals |-> g, errors |-> a.errors + e, overlaps |-> a.overlaps \union Warned(regs, k)]
    BY <1>7, Zenon DEF CheckRegister, Warned, g, e
  <2>2. a.errors + e \in Nat /\ (a.errors + e = 0 <=> a.errors = 0 /\ e = 0)
    BY <1>1, <1>4, SMT
  <2>3. /\ r \in Analyses(N, A) /\ r.globals = g
        /\ r.overlaps = a.overlaps \union Warned(regs, k) /\ r.errors = a.errors + e
    BY <1>1, <1>2, <1>5, <2>1, <2>2 DEF Analyses
  <2> HIDE DEF r
  <2>4. AddsName(N, A, a, r, name)
    BY <1>2, <2>3 DEF AddsName
  <2>5. RegisterChecked(a, r, regs, k)
    BY <1>2, <1>3, <1>4, <1>7, <2>2, <2>3 DEF RegisterChecked
  <2> QED BY <2>4, <2>5 DEF r
<1> QED BY <1>6, <1>7

LEMMA RegistersCheckedEquation ==
  ASSUME NEW N, NEW A, NEW a \in Analyses(N, A), NEW regs, Registers(N, A, regs)
  PROVE  /\ RegistersChecked(a, regs)[0] = a
         /\ \A k \in 1 .. Len(regs) :
              RegistersChecked(a, regs)[k] = CheckRegister(RegistersChecked(a, regs)[k - 1], regs, k)
<1> DEFINE V == Analyses(N, A)
           n == Len(regs)
           step == [p \in (0 + 1 .. n) \X V |-> CheckRegister(p[2], regs, p[1])]
           F(f) == [k \in 0 .. n |-> IF k = 0 THEN a ELSE CheckRegister(f[k - 1], regs, k)]
<1>1. n \in Nat /\ 0 \in Nat /\ 0 + 1 .. n = 1 .. n /\ 0 \in 0 .. n
      /\ (\A k \in 0 .. n : k # 0 => k \in 1 .. n /\ k - 1 \in 0 .. n)
      /\ (\A k \in 1 .. n : k # 0 /\ k \in 0 .. n)
  <2>1. n \in Nat
    BY DEF Registers, Decls
  <2> HIDE DEF n
  <2> QED BY <2>1, SMT
<1>2. step \in [(0 + 1 .. n) \X V -> V]
  <2>1. ASSUME NEW k \in 0 + 1 .. n, NEW b \in V PROVE CheckRegister(b, regs, k) \in V
    <3>1. AddsName(N, A, b, CheckRegister(b, regs, k), regs[k].name)
      BY <1>1, CheckRegisterFields
    <3> QED BY <3>1 DEF AddsName
  <2> HIDE DEF V
  <2> QED BY <2>1
<1>3. PICK f \in [0 .. n -> V] : Folds(f, a, 0, n, step)
  <2> HIDE DEF step, V
  <2>1. a \in V
    BY DEF V
  <2> QED BY <1>1, <1>2, <2>1, Fold
<1>4. f = F(f)
  <2>1. \A k \in 0 .. n : f[k] = IF k = 0 THEN a ELSE CheckRegister(f[k - 1], regs, k)
    <3> SUFFICES ASSUME NEW k \in 0 .. n, k # 0
                 PROVE  step[<<k, f[k - 1]>>] = CheckRegister(f[k - 1], regs, k)
      BY <1>1, <1>3 DEF Folds
    <3>1. <<k, f[k - 1]>> \in (0 + 1 .. n) \X V
      BY <1>1
    <3> QED BY <3>1
  <2> HIDE DEF V
  <2> QED BY <2>1
<1> DEFINE w == RegistersChecked(a, regs)
<1>5. w = CHOOSE g : g = F(g)
  BY Zenon DEF RegistersChecked
<1> HIDE DEF w
<1>6. w = F(w)
  <2> HIDE DEF F
  <2> QED BY <1>4, <1>5, Zenon
<1>7. \A k \in 0 .. n : w[k] = IF k = 0 THEN a ELSE CheckRegister(w[k - 1], regs, k)
  BY <1>6, Zenon
<1> QED BY <1>1, <1>7 DEF w

\* The pairs warned of after k registers.
OverlapsUpTo(regs, k) ==
  {ij \in (1 .. k) \X (1 .. k) :
     /\ ij[1] < ij[2] /\ FirstNamed(regs, ij[2])
     /\ Overlap(regs[ij[2]], regs[ij[1]])}

LEMMA OverlapsGrow ==
  ASSUME NEW regs, NEW k \in Nat, k >= 1
  PROVE  OverlapsUpTo(regs, k) =
           IF FirstNamed(regs, k) THEN OverlapsUpTo(regs, k - 1) \union Warned(regs, k)
           ELSE OverlapsUpTo(regs, k - 1)
<1>1. /\ \A i \in 1 .. k : i \in 1 .. k - 1 \/ i = k
      /\ \A i \in 1 .. k - 1 : i \in 1 .. k /\ i < k /\ ~(k < i) /\ i # k
      /\ k \in 1 .. k /\ ~(k < k) /\ k \notin 1 .. k - 1
  BY SMT
<1>2. ASSUME NEW i, NEW j
      PROVE  <<i, j>> \in OverlapsUpTo(regs, k) <=>
               \/ <<i, j>> \in OverlapsUpTo(regs, k - 1)
               \/ FirstNamed(regs, k) /\ <<i, j>> \in Warned(regs, k)
  <2>1. <<i, j>> \in OverlapsUpTo(regs, k) <=>
          i \in 1 .. k /\ j \in 1 .. k /\ i < j /\ FirstNamed(regs, j) /\ Overlap(regs[j], regs[i])
    BY DEF OverlapsUpTo
  <2>2. <<i, j>> \in OverlapsUpTo(regs, k - 1) <=>
          i \in 1 .. k - 1 /\ j \in 1 .. k - 1 /\ i < j /\ FirstNamed(regs, j) /\ Overlap(regs[j], regs[i])
    BY DEF OverlapsUpTo
  <2>3. <<i, j>> \in Warned(regs, k) <=> j = k /\ i \in 1 .. k - 1 /\ Overlap(regs[k], regs[i])
    BY DEF Warned
  <2> HIDE DEF FirstNamed, Overlap
  <2> QED BY <1>1, <2>1, <2>2, <2>3
<1>3. /\ \A p \in OverlapsUpTo(regs, k) : p = <<p[1], p[2]>>
      /\ \A p \in OverlapsUpTo(regs, k - 1) : p = <<p[1], p[2]>>
      /\ \A p \in Warned(regs, k) : p = <<p[1], p[2]>>
  BY DEF OverlapsUpTo, Warned
<1> QED BY <1>2, <1>3

\* What the registers leave.
LEMMA CheckedRegisters ==
  ASSUME NEW N, NEW A, NEW regs, Registers(N, A, regs)
  PROVE  LET r == CheckRegisters(NoAnalysis, regs)
             n == Len(regs)
         IN  /\ NoAnalysis \in Analyses(N, A) /\ r \in Analyses(N, A)
             /\ n <= SymtabMax => r.overlaps = OverlapsUpTo(regs, n)
<1> DEFINE n == Len(regs)
           a == NoAnalysis
           f == RegistersChecked(a, regs)
           Checked(k) == n <= SymtabMax => f[k].overlaps = OverlapsUpTo(regs, k)
           S == {k \in 0 .. n : Checked(k)}
<1>1. n \in Nat /\ 0 \in Nat /\ 0 \in 0 .. n /\ n \in 0 .. n
  BY SMT DEF Registers, Decls
<1>2. /\ a \in Analyses(N, A) /\ a.overlaps = {} /\ a.globals = <<>>
      /\ Len(a.globals) = 0 /\ NamesIn(a.globals) = {}
  BY DEF NoAnalysis, Analyses, Tables, NamesIn
<1>3. f[0] = a /\ \A k \in 1 .. n : f[k] = CheckRegister(f[k - 1], regs, k)
  BY <1>2, RegistersCheckedEquation
<1> HIDE DEF f, n, a
<1>4. \A k \in 0 .. n : Grown(N, A, a, f[k], regs, n, k)
  <2>1. \A k \in 1 .. n : f[k - 1] \in Analyses(N, A) =>
          AddsName(N, A, f[k - 1], f[k], regs[k].name)
    BY <1>3, CheckRegisterFields DEF n
  <2>2. f[0] \in Analyses(N, A) /\ f[0] = a
    BY <1>2, <1>3
  <2>3. \A k \in 0 .. n : Grown(N, A, f[0], f[k], regs, n, k)
    <3> HIDE DEF Grown, AddsName, Analyses
    <3> QED BY <1>1, <2>1, <2>2, TableGrows
  <2> QED BY <2>2, <2>3
<1>5. Checked(0)
  <2>1. 1 .. 0 = {}
    BY SMT
  <2>2. OverlapsUpTo(regs, 0) = {}
    BY <2>1 DEF OverlapsUpTo
  <2> QED BY <1>2, <1>3, <2>2
<1>6. ASSUME NEW k \in 0 + 1 .. n, k - 1 \in S PROVE k \in S
  <2>1. /\ k \in 1 .. n /\ k \in 0 .. n /\ k - 1 \in 0 .. n /\ k \in 1 .. k
        /\ k \in Nat /\ k >= 1
    BY <1>1, SMT
  <2>2. Grown(N, A, a, f[k - 1], regs, n, k - 1)
    BY <1>4, <2>1
  <2>3. RegisterChecked(f[k - 1], f[k], regs, k)
    BY <1>3, <2>1, <2>2, CheckRegisterFields DEF Grown, n
  <2>4. ASSUME n <= SymtabMax
        PROVE  f[k].overlaps = OverlapsUpTo(regs, k)
    <3>1. regs[k].name \notin NamesIn(f[k - 1].globals) <=> FirstNamed(regs, k)
      <4>1. NamesIn(f[k - 1].globals) = NamesUpTo(regs, k - 1)
        <5>1. Len(a.globals) + n <= SymtabMax
          BY <1>1, <1>2, <2>4
        <5> QED BY <1>2, <2>2, <5>1 DEF Grown
      <4> QED BY <4>1 DEF NamesUpTo, FirstNamed
    <3>2. f[k - 1].overlaps = OverlapsUpTo(regs, k - 1)
      BY <1>6, <2>4
    <3> QED BY <2>1, <2>3, <3>1, <3>2, OverlapsGrow DEF RegisterChecked
  <2> QED BY <2>1, <2>4
<1>7. \A k \in 0 .. n : k \in S
  <2>1. 0 \in S
    BY <1>1, <1>5
  <2> HIDE DEF S
  <2> QED BY <1>1, <1>6, <2>1, Upwards
<1>8. Checked(n) /\ f[n] \in Analyses(N, A)
  BY <1>1, <1>4, <1>7 DEF Grown
<1>9. CheckRegisters(NoAnalysis, regs) = f[n]
  BY DEF CheckRegisters, f, n, a
<1> QED BY <1>2, <1>8, <1>9 DEF n, a

-----------------------------------------------------------------------------
(* The declarations of a device.                                           *)

LEMMA Parts ==
  ASSUME NEW V, NEW s \in Seq(V), NEW t \in Seq(V)
  PROVE  /\ s \o t \in Seq(V) /\ Len(s \o t) = Len(s) + Len(t)
         /\ \A i \in 1 .. Len(s) : (s \o t)[i] = s[i]
         /\ \A j \in 1 .. Len(t) : (s \o t)[Len(s) + j] = t[j]
<1> DEFINE m == Len(s)
           n == Len(t)
           u == s \o t
<1>1. m \in Nat /\ n \in Nat
  BY LenProperties
<1>2. /\ u \in Seq(V) /\ Len(u) = m + n
      /\ \A i \in 1 .. m + n : u[i] = IF i <= m THEN s[i] ELSE t[i - m]
  BY ConcatProperties
<1> HIDE DEF m, n, u
<1>3. /\ \A i \in 1 .. m : i \in 1 .. m + n /\ i <= m
      /\ \A j \in 1 .. n : m + j \in 1 .. m + n /\ ~(m + j <= m) /\ (m + j) - m = j
  BY <1>1, SMT
<1>4. \A i \in 1 .. m : u[i] = s[i]
  BY <1>2, <1>3
<1>5. \A j \in 1 .. n : u[m + j] = t[j]
  BY <1>2, <1>3
<1> QED BY <1>2, <1>4, <1>5 DEF u, m, n

\* The names the declarations of a device have, and the accesses of its symbols.
NamesUsed(dev) ==
  UNION {{decls[k].name : k \in DOMAIN decls} :
           decls \in {dev.registers, dev.signals, dev.capabilities, dev.config}}

Accesses(dev) == {dev.registers[k].access : k \in DOMAIN dev.registers} \union {"rw"}

LEMMA DeviceDecls ==
  ASSUME NEW dev, IsDevice(dev)
  PROVE  /\ \A decls \in {dev.registers, dev.signals, dev.capabilities, dev.config} :
              IsSequence(decls) /\ Decls(NamesUsed(dev), decls)
         /\ Registers(NamesUsed(dev), Accesses(dev), dev.registers)
         /\ "rw" \in Accesses(dev)
<1> DEFINE all == {dev.registers, dev.signals, dev.capabilities, dev.config}
<1>1. ASSUME NEW decls \in all
      PROVE  IsSequence(decls) /\ Decls(NamesUsed(dev), decls) /\ DOMAIN decls = 1 .. Len(decls)
  <2>1. IsSequence(decls)
    BY <1>1 DEF IsDevice
  <2>2. Len(decls) \in Nat /\ DOMAIN decls = 1 .. Len(decls)
    BY <2>1, LenProperties DEF IsSequence
  <2>3. \A k \in DOMAIN decls : decls[k].name \in NamesUsed(dev)
    BY <1>1 DEF NamesUsed
  <2> QED BY <2>1, <2>2, <2>3 DEF Decls
<1>2. Registers(NamesUsed(dev), Accesses(dev), dev.registers)
  BY <1>1 DEF Registers, Accesses, IsDevice
<1> QED BY <1>1, <1>2 DEF Accesses

\* The overlaps are those the registers leave.
LEMMA Populated ==
  ASSUME NEW dev, IsDevice(dev), Len(dev.registers) <= SymtabMax
  PROVE  PopulateDevice(dev).overlaps = OverlapsUpTo(dev.registers, Len(dev.registers))
<1> DEFINE N == NamesUsed(dev)
           A == Accesses(dev)
           regs == dev.registers
           sigs == dev.signals
           caps == dev.capabilities
           conf == dev.config
           r1 == CheckRegisters(NoAnalysis, regs)
           r2 == CheckNames(r1, sigs, "signal")
           r3 == AddCapabilities(r2, caps)
           r4 == CheckNames(r3, conf, "config")
<1>1. /\ Registers(N, A, regs) /\ "rw" \in A
      /\ Decls(N, sigs) /\ Decls(N, caps) /\ Decls(N, conf)
  BY DeviceDecls
<1>2. "signal" \in Kinds /\ "config" \in Kinds
  BY DEF Kinds
<1>3. PopulateDevice(dev) = r4
  BY DEF PopulateDevice
<1> HIDE DEF N, A, sigs, caps, conf, r1, r2, r3, r4
<1>4. r1 \in Analyses(N, A) /\ r1.overlaps = OverlapsUpTo(regs, Len(regs))
  BY <1>1, CheckedRegisters DEF r1
<1>5. r2 \in Analyses(N, A) /\ r2.overlaps = r1.overlaps
  BY <1>1, <1>2, <1>4, CheckedNames DEF r2
<1>6. r3 \in Analyses(N, A) /\ r3.overlaps = r2.overlaps
  BY <1>1, <1>5, AddedCapabilities DEF r3
<1>7. r4.overlaps = r3.overlaps
  BY <1>1, <1>2, <1>6, CheckedNames DEF r4
<1> QED BY <1>3, <1>4, <1>5, <1>6, <1>7

-----------------------------------------------------------------------------
(* The errors of a device.  All its declarations are one sequence; named   *)
(* is where a name that is taken is an error, and sound where the bit      *)
(* ranges are in order.                                                    *)

\* The names of the first m declarations, as far as there is room for them.
FirstNames(decls, m) == {decls[j].name : j \in {i \in 1 .. m : i <= SymtabMax}}

NoError(decls, named, sound, k) == k \in sound /\ (k \in named => ~Taken(decls, k))

\* The m-th declaration makes r of a.
Checks(a, r, decls, named, sound, m) ==
  /\ r.errors = 0 <=>
       /\ a.errors = 0 /\ m \in sound
       /\ m \in named => decls[m].name \notin NamesIn(a.globals)
  /\ r.errors = 0 => EnteredIn(a.globals, r.globals, decls[m].name)

\* The analysis after m declarations: without an error the table holds their
\* names, one entry for each, until it is full.
Analysed(N, A, a, decls, named, sound, m) ==
  /\ a \in Analyses(N, A)
  /\ a.errors = 0 => /\ Len(a.globals) = Lesser(m, SymtabMax)
                     /\ NamesIn(a.globals) = FirstNames(decls, m)
  /\ a.errors = 0 <=> \A i \in 1 .. m : NoError(decls, named, sound, i)

LEMMA TakenIsNamed ==
  ASSUME NEW decls, NEW m
  PROVE  Taken(decls, m) <=> decls[m].name \in FirstNames(decls, m - 1)
BY DEF Taken, FirstNames

LEMMA NamesGrow ==
  ASSUME NEW decls, NEW m \in Nat, m >= 1
  PROVE  FirstNames(decls, m) =
           IF m <= SymtabMax THEN FirstNames(decls, m - 1) \union {decls[m].name}
           ELSE FirstNames(decls, m - 1)
<1>1. /\ \A i \in 1 .. m : i \in 1 .. m - 1 \/ i = m
      /\ \A i \in 1 .. m - 1 : i \in 1 .. m
      /\ m \in 1 .. m
  BY SMT
<1>2. ASSUME NEW name
      PROVE  name \in FirstNames(decls, m) <=>
               \/ name \in FirstNames(decls, m - 1)
               \/ m <= SymtabMax /\ name = decls[m].name
  BY <1>1 DEF FirstNames
<1> QED BY <1>2

LEMMA CheckAnalysed ==
  ASSUME NEW N, NEW A, NEW decls, NEW named, NEW sound, NEW m \in Nat, m >= 1,
         NEW a, Analysed(N, A, a, decls, named, sound, m - 1),
         NEW r \in Analyses(N, A), Checks(a, r, decls, named, sound, m)
  PROVE  Analysed(N, A, r, decls, named, sound, m)
<1>1. r.errors = 0 <=> a.errors = 0 /\ NoError(decls, named, sound, m)
  <2>1. a.errors = 0 => NamesIn(a.globals) = FirstNames(decls, m - 1)
    BY DEF Analysed
  <2> QED BY <2>1, TakenIsNamed DEF Checks, NoError
<1>2. r.errors = 0 <=> \A i \in 1 .. m : NoError(decls, named, sound, i)
  <2>1. a.errors = 0 <=> \A i \in 1 .. m - 1 : NoError(decls, named, sound, i)
    BY DEF Analysed
  <2>2. /\ \A i \in 1 .. m : i \in 1 .. m - 1 \/ i = m
        /\ \A i \in 1 .. m - 1 : i \in 1 .. m
        /\ m \in 1 .. m
    BY SMT
  <2> HIDE DEF NoError
  <2> QED BY <1>1, <2>1, <2>2
<1>3. ASSUME r.errors = 0
      PROVE  /\ Len(r.globals) = Lesser(m, SymtabMax)
             /\ NamesIn(r.globals) = FirstNames(decls, m)
  <2> DEFINE l == Len(a.globals)
  <2>1. /\ l = Lesser(m - 1, SymtabMax) /\ NamesIn(a.globals) = FirstNames(decls, m - 1)
        /\ EnteredIn(a.globals, r.globals, decls[m].name)
    BY <1>1, <1>3 DEF Analysed, Checks
  <2> HIDE DEF l
  <2>2. CASE m <= SymtabMax
    <3>1. l < SymtabMax /\ l + 1 = Lesser(m, SymtabMax)
      BY <2>1, <2>2, SymtabAssumption, SMT DEF Lesser
    <3>2. Len(r.globals) = l + 1 /\ NamesIn(r.globals) = NamesIn(a.globals) \union {decls[m].name}
      BY <2>1, <3>1 DEF EnteredIn, l
    <3> QED BY <2>1, <2>2, <3>1, <3>2, NamesGrow
  <2>3. CASE ~ (m <= SymtabMax)
    <3>1. ~ (l < SymtabMax) /\ l = Lesser(m, SymtabMax)
      BY <2>1, <2>3, SymtabAssumption, SMT DEF Lesser
    <3>2. r.globals = a.globals
      BY <2>1, <3>1 DEF EnteredIn, l
    <3> QED BY <2>1, <2>3, <3>1, <3>2, NamesGrow DEF l
  <2> QED BY <2>2, <2>3
<1> QED BY <1>2, <1>3 DEF Analysed

\* A part of the declarations, those behind the first c.
LEMMA PartAnalysed ==
  ASSUME NEW N, NEW A, NEW decls, NEW named, NEW sound, NEW c \in Nat, NEW n \in Nat,
         NEW f, Analysed(N, A, f[0], decls, named, sound, c),
         \A k \in 1 .. n : f[k - 1] \in Analyses(N, A) =>
           f[k] \in Analyses(N, A) /\ Checks(f[k - 1], f[k], decls, named, sound, c + k)
  PROVE  Analysed(N, A, f[n], decls, named, sound, c + n)
<1> DEFINE S == {k \in 0 .. n : Analysed(N, A, f[k], decls, named, sound, c + k)}
<1>1. 0 \in Nat /\ 0 \in 0 .. n /\ n \in 0 .. n /\ c + 0 = c
  BY SMT
<1>2. ASSUME NEW k \in 0 + 1 .. n, k - 1 \in S PROVE k \in S
  <2>1. /\ k \in 1 .. n /\ k \in 0 .. n /\ c + k \in Nat /\ c + k >= 1
        /\ (c + k) - 1 = c + (k - 1)
    BY SMT
  <2>2. Analysed(N, A, f[k - 1], decls, named, sound, (c + k) - 1)
    BY <1>2, <2>1
  <2>3. f[k] \in Analyses(N, A) /\ Checks(f[k - 1], f[k], decls, named, sound, c + k)
    BY <2>1, <2>2 DEF Analysed
  <2>4. Analysed(N, A, f[k], decls, named, sound, c + k)
    <3> HIDE DEF Analysed, Checks
    <3> QED BY <2>1, <2>2, <2>3, CheckAnalysed
  <2> QED BY <2>1, <2>4
<1> HIDE DEF S
<1>3. \A k \in 0 .. n : k \in S
  <2>1. 0 \in S
    BY <1>1 DEF S
  <2> QED BY <1>1, <1>2, <2>1, Upwards
<1> QED BY <1>1, <1>3 DEF S

\* Signals or config fields.
LEMMA NamesAnalysed ==
  ASSUME NEW N, NEW A, "rw" \in A, NEW decls, NEW named, NEW sound, NEW c \in Nat,
         NEW a, Analysed(N, A, a, decls, named, sound, c),
         NEW part, Decls(N, part), NEW kind \in Kinds,
         \A k \in 1 .. Len(part) :
           decls[c + k].name = part[k].name /\ c + k \in named /\ c + k \in sound
  PROVE  Analysed(N, A, CheckNames(a, part, kind), decls, named, sound, c + Len(part))
<1> DEFINE n == Len(part)
           f == NamesChecked(a, part, kind)
<1>1. n \in Nat /\ a \in Analyses(N, A)
  BY DEF Decls, Analysed
<1>2. f[0] = a /\ \A k \in 1 .. n : f[k] = CheckName(f[k - 1], part[k].name, kind)
  BY <1>1, NamesCheckedEquation
<1>3. CheckNames(a, part, kind) = f[n]
  BY DEF CheckNames
<1> HIDE DEF f
<1>4. ASSUME NEW k \in 1 .. n, f[k - 1] \in Analyses(N, A)
      PROVE  f[k] \in Analyses(N, A) /\ Checks(f[k - 1], f[k], decls, named, sound, c + k)
  <2>1. f[k] = CheckName(f[k - 1], part[k].name, kind) /\ part[k].name \in N
    BY <1>2 DEF Decls
  <2>2. /\ f[k] \in Analyses(N, A)
        /\ f[k].errors = 0 <=> f[k - 1].errors = 0 /\ part[k].name \notin NamesIn(f[k - 1].globals)
        /\ f[k].errors = 0 => EnteredIn(f[k - 1].globals, f[k].globals, part[k].name)
    BY <1>4, <2>1, CheckNameFields
  <2>3. decls[c + k].name = part[k].name /\ c + k \in named /\ c + k \in sound
    OBVIOUS
  <2> QED BY <2>2, <2>3 DEF Checks
<1> HIDE DEF n
<1>5. Analysed(N, A, f[n], decls, named, sound, c + n)
  BY <1>1, <1>2, <1>4, PartAnalysed
<1> QED BY <1>3, <1>5 DEF n

LEMMA CapabilitiesAnalysed ==
  ASSUME NEW N, NEW A, "rw" \in A, NEW decls, NEW named, NEW sound, NEW c \in Nat,
         NEW a, Analysed(N, A, a, decls, named, sound, c),
         NEW part, Decls(N, part),
         \A k \in 1 .. Len(part) :
           decls[c + k].name = part[k].name /\ c + k \notin named /\ c + k \in sound
  PROVE  Analysed(N, A, AddCapabilities(a, part), decls, named, sound, c + Len(part))
<1> DEFINE n == Len(part)
           f == CapabilitiesAdded(a, part)
<1>1. n \in Nat /\ a \in Analyses(N, A)
  BY DEF Decls, Analysed
<1>2. f[0] = a /\ \A k \in 1 .. n : f[k] = AddCapability(f[k - 1], part[k].name)
  BY <1>1, CapabilitiesAddedEquation
<1>3. AddCapabilities(a, part) = f[n]
  BY DEF AddCapabilities
<1> HIDE DEF f
<1>4. ASSUME NEW k \in 1 .. n, f[k - 1] \in Analyses(N, A)
      PROVE  f[k] \in Analyses(N, A) /\ Checks(f[k - 1], f[k], decls, named, sound, c + k)
  <2>1. f[k] = AddCapability(f[k - 1], part[k].name) /\ part[k].name \in N
    BY <1>2 DEF Decls
  <2>2. /\ f[k] \in Analyses(N, A) /\ f[k].errors = f[k - 1].errors
        /\ EnteredIn(f[k - 1].globals, f[k].globals, part[k].name)
    BY <1>4, <2>1, AddCapabilityFields DEF AddsName
  <2>3. decls[c + k].name = part[k].name /\ c + k \notin named /\ c + k \in sound
    OBVIOUS
  <2> QED BY <2>2, <2>3 DEF Checks
<1> HIDE DEF n
<1>5. Analysed(N, A, f[n], decls, named, sound, c + n)
  BY <1>1, <1>2, <1>4, PartAnalysed
<1> QED BY <1>3, <1>5 DEF n

LEMMA RegistersAnalysed ==
  ASSUME NEW N, NEW A, NEW decls, NEW named, NEW sound, NEW regs, Registers(N, A, regs),
         \A k \in 1 .. Len(regs) :
           decls[k].name = regs[k].name /\ k \in named /\ (k \in sound <=> InOrder(regs[k]))
  PROVE  Analysed(N, A, CheckRegisters(NoAnalysis, regs), decls, named, sound, Len(regs))
<1> DEFINE n == Len(regs)
           f == RegistersChecked(NoAnalysis, regs)
<1>1. n \in Nat /\ 0 \in Nat /\ 0 + n = n
  <2>1. n \in Nat
    BY DEF Registers, Decls
  <2> HIDE DEF n
  <2> QED BY <2>1, SMT
<1>2. NoAnalysis \in Analyses(N, A)
  BY CheckedRegisters
<1>3. f[0] = NoAnalysis /\ \A k \in 1 .. n : f[k] = CheckRegister(f[k - 1], regs, k)
  BY <1>2, RegistersCheckedEquation
<1>4. CheckRegisters(NoAnalysis, regs) = f[n]
  BY DEF CheckRegisters
<1> HIDE DEF f
<1>5. Analysed(N, A, f[0], decls, named, sound, 0)
  <2>1. /\ NoAnalysis.errors = 0 /\ Len(NoAnalysis.globals) = 0
        /\ NamesIn(NoAnalysis.globals) = {}
    BY DEF NoAnalysis, NamesIn
  <2>2. 1 .. 0 = {} /\ Lesser(0, SymtabMax) = 0
    BY SymtabAssumption, SMT DEF Lesser
  <2>3. FirstNames(decls, 0) = {}
    BY <2>2 DEF FirstNames
  <2> QED BY <1>2, <1>3, <2>1, <2>2, <2>3 DEF Analysed
<1>6. ASSUME NEW k \in 1 .. n, f[k - 1] \in Analyses(N, A)
      PROVE  f[k] \in Analyses(N, A) /\ Checks(f[k - 1], f[k], decls, named, sound, 0 + k)
  <2>1. f[k] = CheckRegister(f[k - 1], regs, k)
    BY <1>3
  <2>2. f[k] \in Analyses(N, A) /\ RegisterChecked(f[k - 1], f[k], regs, k)
    BY <1>6, <2>1, CheckRegisterFields DEF AddsName
  <2>3. decls[k].name = regs[k].name /\ k \in named /\ (k \in sound <=> InOrder(regs[k]))
    OBVIOUS
  <2>4. Checks(f[k - 1], f[k], decls, named, sound, k)
    <3> HIDE DEF InOrder
    <3> QED BY <2>2, <2>3 DEF RegisterChecked, Checks
  <2>5. 0 + k = k
    BY <1>1, SMT
  <2> QED BY <2>2, <2>4, <2>5
<1> HIDE DEF n
<1>7. Analysed(N, A, f[n], decls, named, sound, 0 + n)
  BY <1>1, <1>5, <1>6, PartAnalysed
<1> QED BY <1>1, <1>4, <1>7 DEF n

\* Where the parts of a device stand among its declarations.
LEMMA DeclaredParts ==
  ASSUME NEW dev, IsDevice(dev)
  PROVE  LET decls == TableEntries(dev)
             nr == Len(dev.registers)
             ns == Len(dev.signals)
             nc == Len(dev.capabilities)
             nf == Len(dev.config)
         IN  /\ nr \in Nat /\ ns \in Nat /\ nc \in Nat /\ nf \in Nat
             /\ DOMAIN dev.registers = 1 .. nr /\ DOMAIN dev.capabilities = 1 .. nc
             /\ DOMAIN decls = 1 .. nr + ns + nc + nf
             /\ \A k \in 1 .. nr : decls[k] = dev.registers[k]
             /\ \A k \in 1 .. ns : decls[nr + k] = dev.signals[k]
             /\ \A k \in 1 .. nc : decls[nr + ns + k] = dev.capabilities[k]
             /\ \A k \in 1 .. nf : decls[nr + ns + nc + k] = dev.config[k]
<1> DEFINE all == {dev.registers, dev.signals, dev.capabilities, dev.config}
           V == UNION {{decls[k] : k \in DOMAIN decls} : decls \in all}
           r == dev.registers
           s == dev.signals
           c == dev.capabilities
           f == dev.config
           nr == Len(r)
           ns == Len(s)
           nc == Len(c)
           nf == Len(f)
           rs == r \o s
           rsc == rs \o c
           rscf == rsc \o f
<1>1. \A decls \in all : decls \in Seq(V)
  <2> SUFFICES ASSUME NEW decls \in all PROVE decls \in Seq(V)
    OBVIOUS
  <2> DEFINE n == Len(decls)
  <2>1. n \in Nat /\ DOMAIN decls = 1 .. n /\ decls = [k \in 1 .. n |-> decls[k]]
    BY LenProperties DEF IsDevice, IsSequence
  <2>2. \A k \in 1 .. n : decls[k] \in V
    BY <2>1
  <2> HIDE DEF n, V
  <2>3. [k \in 1 .. n |-> decls[k]] \in Seq(V)
    BY <2>1, <2>2, IsASeq
  <2> QED BY <2>1, <2>3
<1>2. /\ r \in Seq(V) /\ s \in Seq(V) /\ c \in Seq(V) /\ f \in Seq(V)
  BY <1>1
<1>3. TableEntries(dev) = rscf
  BY DEF TableEntries
<1> HIDE DEF V, r, s, c, f, rs, rsc, rscf
<1>4. /\ nr \in Nat /\ ns \in Nat /\ nc \in Nat /\ nf \in Nat
      /\ DOMAIN r = 1 .. nr /\ DOMAIN c = 1 .. nc
  BY <1>2, LenProperties
<1>5. /\ rs \in Seq(V) /\ Len(rs) = nr + ns
      /\ \A k \in 1 .. nr : rs[k] = r[k]
      /\ \A k \in 1 .. ns : rs[nr + k] = s[k]
  BY <1>2, Parts DEF rs
<1>6. /\ rsc \in Seq(V) /\ Len(rsc) = Len(rs) + nc
      /\ \A k \in 1 .. Len(rs) : rsc[k] = rs[k]
      /\ \A k \in 1 .. nc : rsc[Len(rs) + k] = c[k]
  <2>1. rs \in Seq(V) /\ c \in Seq(V)
    BY <1>2, <1>5
  <2> QED BY <2>1, Parts DEF rsc, nc
<1>7. /\ rscf \in Seq(V) /\ Len(rscf) = Len(rsc) + nf
      /\ \A k \in 1 .. Len(rsc) : rscf[k] = rsc[k]
      /\ \A k \in 1 .. nf : rscf[Len(rsc) + k] = f[k]
  <2>1. rsc \in Seq(V) /\ f \in Seq(V)
    BY <1>2, <1>6
  <2> QED BY <2>1, Parts DEF rscf, nf
<1>8. DOMAIN rscf = 1 .. Len(rscf)
  BY <1>7, LenProperties
<1> HIDE DEF nr, ns, nc, nf
<1>9. Len(rs) = nr + ns /\ Len(rsc) = nr + ns + nc /\ Len(rscf) = nr + ns + nc + nf
  BY <1>5, <1>6, <1>7
<1>10. /\ \A k \in 1 .. nr : k \in 1 .. nr + ns /\ k \in 1 .. nr + ns + nc
       /\ \A k \in 1 .. ns : nr + k \in 1 .. nr + ns /\ nr + k \in 1 .. nr + ns + nc
       /\ \A k \in 1 .. nc : nr + ns + k \in 1 .. nr + ns + nc
  BY <1>4, SMT
<1>11. \A k \in 1 .. nr : rscf[k] = r[k]
  BY <1>5, <1>6, <1>7, <1>9, <1>10
<1>12. \A k \in 1 .. ns : rscf[nr + k] = s[k]
  BY <1>5, <1>6, <1>7, <1>9, <1>10
<1>13. \A k \in 1 .. nc : rscf[nr + ns + k] = c[k]
  BY <1>6, <1>7, <1>9, <1>10
<1>14. \A k \in 1 .. nf : rscf[nr + ns + nc + k] = f[k]
  BY <1>7, <1>9
<1> QED BY <1>3, <1>4, <1>8, <1>9, <1>11, <1>12, <1>13, <1>14 DEF r, s, c, f, nr, ns, nc, nf

\* A device without errors is one none of whose names is taken and whose bits are
\* in order.
LEMMA DeviceErrors ==
  ASSUME NEW dev, IsDevice(dev)
  PROVE  PopulateDevice(dev).errors = 0 <=>
           /\ BitsInOrder(dev)
           /\ \A k \in DOMAIN TableEntries(dev) :
                Taken(TableEntries(dev), k) => k \in CapabilityPlaces(dev)
<1> DEFINE N == NamesUsed(dev)
           A == Accesses(dev)
           decls == TableEntries(dev)
           regs == dev.registers
           sigs == dev.signals
           caps == dev.capabilities
           conf == dev.config
           nr == Len(regs)
           ns == Len(sigs)
           nc == Len(caps)
           nf == Len(conf)
           named == Nat \ CapabilityPlaces(dev)
           sound == {k \in Nat : k \in 1 .. nr => InOrder(regs[k])}
           r1 == CheckRegisters(NoAnalysis, regs)
           r2 == CheckNames(r1, sigs, "signal")
           r3 == AddCapabilities(r2, caps)
           r4 == CheckNames(r3, conf, "config")
<1>1. /\ Registers(N, A, regs) /\ "rw" \in A
      /\ Decls(N, sigs) /\ Decls(N, caps) /\ Decls(N, conf)
  BY DeviceDecls
<1>2. /\ nr \in Nat /\ ns \in Nat /\ nc \in Nat /\ nf \in Nat
      /\ DOMAIN regs = 1 .. nr /\ DOMAIN caps = 1 .. nc
      /\ DOMAIN decls = 1 .. nr + ns + nc + nf
      /\ \A k \in 1 .. nr : decls[k] = regs[k]
      /\ \A k \in 1 .. ns : decls[nr + k] = sigs[k]
      /\ \A k \in 1 .. nc : decls[nr + ns + k] = caps[k]
      /\ \A k \in 1 .. nf : decls[nr + ns + nc + k] = conf[k]
  BY DeclaredParts
<1>3. "signal" \in Kinds /\ "config" \in Kinds
  BY DEF Kinds
<1>4. PopulateDevice(dev) = r4
  BY DEF PopulateDevice
<1>5. CapabilityPlaces(dev) = {nr + ns + k : k \in 1 .. nc}
  BY <1>2 DEF CapabilityPlaces
<1>6. BitsInOrder(dev) <=> \A k \in 1 .. nr : InOrder(regs[k])
  BY <1>2 DEF BitsInOrder, InOrder
<1> HIDE DEF N, A, decls, regs, sigs, caps, conf, nr, ns, nc, nf, r1, r2, r3, r4
<1>7. /\ \A k \in 1 .. nr : k \in Nat /\ \A j \in 1 .. nc : k # nr + ns + j
      /\ \A k \in 1 .. ns : nr + k \in Nat /\ nr + k \notin 1 .. nr
                            /\ \A j \in 1 .. nc : nr + k # nr + ns + j
      /\ \A k \in 1 .. nc : nr + ns + k \in Nat /\ nr + ns + k \notin 1 .. nr
      /\ \A k \in 1 .. nf : nr + ns + nc + k \in Nat /\ nr + ns + nc + k \notin 1 .. nr
                            /\ \A j \in 1 .. nc : nr + ns + nc + k # nr + ns + j
  BY <1>2, SMT
<1>8. \A k \in 1 .. nr :
        decls[k].name = regs[k].name /\ k \in named /\ (k \in sound <=> InOrder(regs[k]))
  BY <1>2, <1>5, <1>7
<1>9. \A k \in 1 .. ns :
        decls[nr + k].name = sigs[k].name /\ nr + k \in named /\ nr + k \in sound
  BY <1>2, <1>5, <1>7
<1>10. \A k \in 1 .. nc :
         /\ decls[nr + ns + k].name = caps[k].name
         /\ nr + ns + k \notin named /\ nr + ns + k \in sound
  BY <1>2, <1>5, <1>7
<1>11. \A k \in 1 .. nf :
         /\ decls[nr + ns + nc + k].name = conf[k].name
         /\ nr + ns + nc + k \in named /\ nr + ns + nc + k \in sound
  BY <1>2, <1>5, <1>7
<1>12. nr + ns \in Nat /\ nr + ns + nc \in Nat
  BY <1>2, SMT
<1>13. \A k \in 1 .. nr + ns + nc + nf :
         NoError(decls, named, sound, k) <=>
           /\ k \in 1 .. nr => InOrder(regs[k])
           /\ Taken(decls, k) => k \in CapabilityPlaces(dev)
  <2>1. \A k \in 1 .. nr + ns + nc + nf : k \in Nat
    BY <1>2, SMT
  <2> QED BY <2>1 DEF NoError
<1>14. \A k \in 1 .. nr : k \in 1 .. nr + ns + nc + nf
  BY <1>2, SMT
<1> HIDE DEF named, sound
<1>15. Analysed(N, A, r1, decls, named, sound, nr)
  BY <1>1, <1>8, RegistersAnalysed DEF r1, nr
<1>16. Analysed(N, A, r2, decls, named, sound, nr + ns)
  BY <1>1, <1>2, <1>3, <1>9, <1>15, NamesAnalysed DEF r2, ns
<1>17. Analysed(N, A, r3, decls, named, sound, nr + ns + nc)
  BY <1>1, <1>10, <1>12, <1>16, CapabilitiesAnalysed DEF r3, nc
<1>18. Analysed(N, A, r4, decls, named, sound, nr + ns + nc + nf)
  BY <1>1, <1>3, <1>11, <1>12, <1>17, NamesAnalysed DEF r4, nf
<1>19. r4.errors = 0 <=> \A k \in 1 .. nr + ns + nc + nf : NoError(decls, named, sound, k)
  BY <1>18 DEF Analysed
<1>20. (\A k \in 1 .. nr + ns + nc + nf : NoError(decls, named, sound, k)) <=>
         /\ \A k \in 1 .. nr : InOrder(regs[k])
         /\ \A k \in DOMAIN decls : Taken(decls, k) => k \in CapabilityPlaces(dev)
  <2> HIDE DEF NoError, InOrder, Taken, CapabilityPlaces
  <2> QED BY <1>2, <1>13, <1>14
<1> QED BY <1>4, <1>6, <1>19, <1>20 DEF decls

\* The pairs of registers a device is warned of.
LEMMA DeviceOverlapsWarned ==
  ASSUME NEW dev, IsDevice(dev), Len(dev.registers) <= SymtabMax, InSpace(dev.registers)
  PROVE  PopulateDevice(dev).overlaps =
           {jk \in (DOMAIN dev.registers) \X (DOMAIN dev.registers) :
              /\ jk[1] < jk[2] /\ FirstOfName(dev.registers, jk[2])
              /\ ShareByte(dev.registers[jk[1]], dev.registers[jk[2]])}
<1> DEFINE regs == dev.registers
<1>1. /\ DOMAIN regs = 1 .. Len(regs) /\ \A k \in DOMAIN regs : IsRegister(regs[k])
  BY LenProperties DEF IsDevice, IsSequence
<1>2. PopulateDevice(dev).overlaps = OverlapsUpTo(regs, Len(regs))
  BY Populated
<1> HIDE DEF regs
<1>3. ASSUME NEW j \in DOMAIN regs, NEW k \in DOMAIN regs
      PROVE  /\ Overlap(regs[k], regs[j]) <=> ShareByte(regs[j], regs[k])
             /\ FirstNamed(regs, k) <=> FirstOfName(regs, k)
  <2>1. Overlap(regs[k], regs[j]) <=> ShareByte(regs[k], regs[j])
    <3>1. \A reg \in {regs[k], regs[j]} :
            reg.offset = NoOffset \/ \A b \in BytesOf(reg) : b + 1 < OffsetModulus
      BY DEF InSpace, regs
    <3> QED BY <1>1, <3>1, OverlapShares
  <2>2. ShareByte(regs[k], regs[j]) <=> ShareByte(regs[j], regs[k])
    BY DEF ShareByte
  <2> QED BY <2>1, <2>2 DEF FirstNamed, FirstOfName
<1>4. OverlapsUpTo(regs, Len(regs)) =
        {jk \in (DOMAIN regs) \X (DOMAIN regs) :
           jk[1] < jk[2] /\ FirstOfName(regs, jk[2]) /\ ShareByte(regs[jk[1]], regs[jk[2]])}
  BY <1>1, <1>3 DEF OverlapsUpTo
<1> QED BY <1>2, <1>4 DEF regs

-----------------------------------------------------------------------------
(* Every behaviour.                                                        *)

\* What was lexed is what the lexer makes of the text, and what was analysed is
\* what was parsed.
FrontEndInv ==
  /\ text \in Seq(STRING)
  /\ lexed # NoResult => lexed = Result(Lex(text))
  /\ analysis # NoResult => IsResult(parsed) /\
       analysis = IF parsed.ok THEN Analysis(parsed.file) ELSE NoAnalysis

\* The front end keeps what it made of the text (codegen.c kdal_compile_file).
THEOREM FrontEndKept == FrontEndSpec => []FrontEndInv
<1>1. FrontEndInit => FrontEndInv
  BY DEF FrontEndInit, FrontEndInv
<1>2. FrontEndInv /\ [FrontEndNext]_frontEndVars => FrontEndInv'
  <2> SUFFICES ASSUME FrontEndInv, [FrontEndNext]_frontEndVars
               PROVE  FrontEndInv'
    OBVIOUS
  <2>1. CASE Write
    BY <2>1 DEF FrontEndInv, Write
  <2>2. CASE Tokenise
    BY <2>2 DEF FrontEndInv, Tokenise
  <2>3. CASE Analyse
    BY <2>3 DEF FrontEndInv, Analyse, Populate
  <2>4. CASE UNCHANGED frontEndVars
    BY <2>4 DEF FrontEndInv, frontEndVars
  <2> QED BY <2>1, <2>2, <2>3, <2>4 DEF FrontEndNext
<1> QED BY <1>1, <1>2, PTL DEF FrontEndSpec

\* Whatever the text: the tokens of a text that is accepted make up all of it but
\* its blanks and comments (lexer.c kdal_lex).
THEOREM TokensAlwaysTile == FrontEndSpec => []TokensTileText
<1>1. FrontEndInv => TokensTileText
  BY LexedTiles DEF FrontEndInv, TokensTileText, Result
<1> QED BY <1>1, FrontEndKept, PTL

\* Whatever the text: a number is worth what its own digits say (lx_lex_number).
THEOREM NumbersAlwaysRead == FrontEndSpec => []NumbersRead
<1>1. FrontEndInv => NumbersRead
  BY LexedTiles DEF FrontEndInv, NumbersRead, Result, Numbers, NumberTypes
<1> QED BY <1>1, FrontEndKept, PTL

\* The device of a result that is used.
LEMMA ResultDevice ==
  ASSUME FrontEndInv, HasDevice
  PROVE  IsDevice(parsed.file.device[1]) /\ analysis = PopulateDevice(parsed.file.device[1])
<1>1. /\ IsResult(parsed) /\ parsed.ok /\ parsed.file.device # <<>>
      /\ analysis = Analysis(parsed.file)
  BY DEF FrontEndInv, HasDevice
<1>2. /\ IsSequence(parsed.file.device)
      /\ \A k \in DOMAIN parsed.file.device : IsDevice(parsed.file.device[k])
  BY <1>1 DEF IsResult
<1>3. 1 \in DOMAIN parsed.file.device
  <2> DEFINE s == parsed.file.device
  <2> HIDE DEF s
  <2>1. s \in Seq({s[k] : k \in DOMAIN s}) /\ s # <<>>
    BY <1>1, <1>2 DEF IsSequence, s
  <2>2. Len(s) \in Nat /\ Len(s) # 0 /\ DOMAIN s = 1 .. Len(s)
    BY <2>1, LenProperties, EmptySeq
  <2>3. 1 \in 1 .. Len(s)
    BY <2>2, SMT
  <2> QED BY <2>2, <2>3 DEF s
<1> QED BY <1>1, <1>2, <1>3, Zenon DEF Analysis

\* Whatever tree the parser makes, kdalc warns of two registers exactly when they
\* share a byte, for every set of widths and offsets that stays in the address space.
THEOREM OverlapsAlwaysWarned == FrontEndSpec => []OverlapsWarned
<1>1. FrontEndInv => OverlapsWarned
  <2> SUFFICES ASSUME FrontEndInv, HasDevice,
                      Len(parsed.file.device[1].registers) <= SymtabMax,
                      InSpace(parsed.file.device[1].registers)
               PROVE  analysis.overlaps =
                        {jk \in (DOMAIN parsed.file.device[1].registers)
                                  \X (DOMAIN parsed.file.device[1].registers) :
                           /\ jk[1] < jk[2] /\ FirstOfName(parsed.file.device[1].registers, jk[2])
                           /\ ShareByte(parsed.file.device[1].registers[jk[1]],
                                        parsed.file.device[1].registers[jk[2]])}
    BY DEF OverlapsWarned
  <2> QED BY ResultDevice, DeviceOverlapsWarned
<1> QED BY <1>1, FrontEndKept, PTL

\* Whatever tree the parser makes and however many names it has: kdalc prints an
\* error about its device class exactly if a name is taken twice where the symbol
\* table has room for it, or a bit range is inverted.  It accepts the file all the
\* same (sema.c sema_populate_device, kdal_sema).
THEOREM NamesAlwaysDistinct == FrontEndSpec => []NamesDistinct
<1>1. FrontEndInv => NamesDistinct
  <2> DEFINE dev == parsed.file.device[1]
  <2> SUFFICES ASSUME FrontEndInv, HasDevice
               PROVE  analysis.errors = 0 <=>
                        /\ BitsInOrder(dev)
                        /\ \A k \in DOMAIN TableEntries(dev) :
                             Taken(TableEntries(dev), k) => k \in CapabilityPlaces(dev)
    BY DEF NamesDistinct
  <2> QED BY ResultDevice, DeviceErrors
<1> QED BY <1>1, FrontEndKept, PTL

=============================================================================
