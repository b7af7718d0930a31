--------------------------- MODULE ConversionProofs ---------------------------
(***************************************************************************)
(* Theorems about conversions, for any documents and limits: a conversion    *)
(* shows progress that only grows, delivers all pages if it succeeds, its     *)
(* book says every line of the PDF in order, but for the running titles and   *)
(* the markers of lists, its headings are those of the PDF, and its outline   *)
(* leads to them.                                                            *)
(*                                                                         *)
(* First, what the functions of TextRebuild and PageText do with any lines    *)
(* and rectangles: the blocks and sections of a book say what its lines say,  *)
(* the headings among them are the lines that are headings, and the rows that *)
(* rectangles are put into are the lines of a page that is laid out clearly,  *)
(* sorted from left to right.  All of them are recursive functions on         *)
(* sequences.  Each is given the steps it is defined by (Recursion), and then *)
(* what it says, by induction over the lines, the sections or the rectangles. *)
(* The induction is over sets of numbers (UpTo).                             *)
(*                                                                         *)
(* Then the specification.  ConversionInv follows the stages: what is         *)
(* extracted belongs to the first pages, and the book is what Rebuild makes   *)
(* of all of them.  What the book says is then about those functions.        *)
(***************************************************************************)
EXTENDS Conversion, WellFoundedInduction, FiniteSetTheorems, SequenceTheorems, TLAPS

-----------------------------------------------------------------------------
(* Induction.  The induction rules of the library are about operators; this   *)
(* one is about sets of numbers.                                             *)

LEMMA UpTo ==
    ASSUME NEW N \in Nat, NEW S,
           0 \in S, \A n \in 1..N : n - 1 \in S => n \in S
    PROVE  \A n \in 0..N : n \in S
<1> DEFINE Others == {n \in 0..N : n \notin S}
<1> SUFFICES ASSUME Others # {} PROVE FALSE
  OBVIOUS
<1>1. PICK m \in Others : \A k \in Others : <<k, m>> \notin OpToRel(<, Nat)
  <2>1. Others \subseteq Nat
    OBVIOUS
  <2> QED  BY <2>1, NatLessThanWellFounded, WFMin
<1>2. m \in 1..N /\ m - 1 \in 0..N
  OBVIOUS
<1>3. m - 1 \notin Others
  <2> SUFFICES ASSUME m - 1 \in Others PROVE FALSE
    OBVIOUS
  <2>1. m - 1 \in Nat /\ m \in Nat /\ m - 1 < m
    BY <1>2
  <2> HIDE DEF Others
  <2> QED  BY <1>1, <2>1, Zenon DEF OpToRel
<1> QED  BY <1>2, <1>3

\* Steps from values to values, and a function that takes them.
Steps(step, N, V) == \A n \in 1..N : \A v \in V : step[n][v] \in V

Takes(f, step, N) == \A n \in 1..N : f[n] = step[n][f[n - 1]]

\* A recursion over numbers has a solution.
LEMMA Recursion ==
    ASSUME NEW N \in Nat, NEW V, NEW base \in V, NEW step, Steps(step, N, V)
    PROVE  \E f \in [0..N -> V] : f[0] = base /\ Takes(f, step, N)
<1> USE DEF Steps, Takes
<1> DEFINE Solves(f, n) == f[0] = base /\ Takes(f, step, n)
           Solved == {n \in 0..N : \E f \in [0..n -> V] : Solves(f, n)}
<1>1. 0 \in Solved
  <2> DEFINE f == [i \in 0..0 |-> base]
  <2>1. f \in [0..0 -> V] /\ Solves(f, 0)
    OBVIOUS
  <2>2. 0 \in 0..N
    OBVIOUS
  <2> HIDE DEF f
  <2> QED  BY <2>1, <2>2
<1>2. ASSUME NEW n \in 1..N, n - 1 \in Solved
      PROVE  n \in Solved
  <2>1. PICK f \in [0..(n - 1) -> V] : Solves(f, n - 1)
    BY <1>2
  <2> DEFINE g == [i \in 0..n |-> IF i = n THEN step[n][f[n - 1]] ELSE f[i]]
  <2>2. g \in [0..n -> V]
    OBVIOUS
  <2>3. \A i \in 0..(n - 1) : g[i] = f[i]
    OBVIOUS
  <2>4. g[n] = step[n][f[n - 1]]
    OBVIOUS
  <2> HIDE DEF g
  <2>5. Solves(g, n)
    BY <2>1, <2>3, <2>4
  <2> QED  BY <2>2, <2>5
<1>3. N \in Solved
  <2> HIDE DEF Solved
  <2>1. N \in 0..N
    OBVIOUS
  <2>2. \A n \in 0..N : n \in Solved
    BY <1>1, <1>2, UpTo
  <2> QED  BY <2>1, <2>2
<1> QED  BY <1>3

-----------------------------------------------------------------------------
(* Sequences told by their elements. *)

LEMMA AppendIs ==
    ASSUME NEW S, NEW u \in Seq(S), NEW s \in Seq(S), NEW e \in S, Len(u) = Len(s) + 1,
           \A k \in 1..Len(s) : u[k] = s[k], u[Len(s) + 1] = e
    PROVE  u = Append(s, e)
OBVIOUS

LEMMA AppendLast ==
    ASSUME NEW S, NEW s \in Seq(S), NEW e \in S
    PROVE  Append(s, e) # <<>> /\ Append(s, e)[Len(Append(s, e))] = e
OBVIOUS

Joins(u, s, t) ==
    /\ Len(u) = Len(s) + Len(t)
    /\ \A k \in 1..Len(u) : u[k] = IF k <= Len(s) THEN s[k] ELSE t[k - Len(s)]

LEMMA ConcatIs ==
    ASSUME NEW S, NEW u \in Seq(S), NEW s \in Seq(S), NEW t \in Seq(S), Joins(u, s, t)
    PROVE  u = s \o t
BY DEF Joins

-----------------------------------------------------------------------------
(* Sequences of sequences, one after the other. *)

\* FlattenSeq is reached from the left, sequence by sequence.
LEMMA FlattenSteps ==
    ASSUME NEW T, NEW s \in Seq(Seq(T))
    PROVE  \E f \in [0..Len(s) -> Seq(T)] :
              /\ f[0] = <<>> /\ \A n \in 1..Len(s) : f[n] = f[n - 1] \o s[n]
              /\ FlattenSeq(s) = f[Len(s)]
<1> DEFINE N == Len(s)
           step == [n \in 1..N |-> [v \in Seq(T) |-> v \o s[n]]]
<1>1. N \in Nat /\ \A i \in 1..N : s[i] \in Seq(T)
  OBVIOUS
<1>2. Steps(step, N, Seq(T))
  BY <1>1 DEF Steps
<1>3. PICK f \in [0..N -> Seq(T)] : f[0] = <<>> /\ Takes(f, step, N)
  <2> HIDE DEF step, N
  <2>1. <<>> \in Seq(T)
    OBVIOUS
  <2> QED  BY <1>1, <1>2, <2>1, Recursion
<1>4. \A n \in 1..N : f[n] = f[n - 1] \o s[n]
  <2> SUFFICES ASSUME NEW n \in 1..N PROVE f[n] = f[n - 1] \o s[n]
    OBVIOUS
  <2>1. n - 1 \in 0..N
    BY <1>1
  <2>2. f[n - 1] \in Seq(T)
    BY <2>1
  <2> QED  BY <1>3, <2>2 DEF Takes
<1>5. CASE N = 0
  <2>1. FlattenSeq(s) = <<>>
    BY <1>5 DEF FlattenSeq
  <2> QED  BY <1>3, <1>4, <1>5, <2>1
<1>6. CASE N # 0
  <2> DEFINE Flattens(g) == g = [i \in 1..N |-> IF i = 1 THEN s[i] ELSE g[i - 1] \o s[i]]
             g == CHOOSE h : Flattens(h)
             h0 == [i \in 1..N |-> f[i]]
  <2>1. FlattenSeq(s) = g[N]
    BY <1>6 DEF FlattenSeq
  <2>2. Flattens(h0)
    <3>1. f[1] = s[1]
      <4>1. 1 \in 1..N /\ s[1] \in Seq(T)
        BY <1>1, <1>6
      <4>2. f[1] = <<>> \o s[1]
        <5>1. PICK n \in 1..N : n = 1
          BY <4>1
        <5>2. n - 1 = 0
          BY <5>1
        <5>3. f[n] = f[n - 1] \o s[n]
          BY <1>4
        <5> QED  BY <1>3, <5>1, <5>2, <5>3
      <4> QED  BY <4>1, <4>2
    <3>2. \A i \in 1..N : h0[i] = IF i = 1 THEN s[i] ELSE h0[i - 1] \o s[i]
      <4> SUFFICES ASSUME NEW i \in 1..N
                   PROVE  h0[i] = IF i = 1 THEN s[i] ELSE h0[i - 1] \o s[i]
        OBVIOUS
      <4>1. i # 1 => i - 1 \in 1..N /\ h0[i - 1] = f[i - 1]
        BY <1>1
      <4> QED  BY <1>4, <3>1, <4>1
    <3> QED  BY <3>2
  <2>3. Flattens(g)
    BY <2>2
  <2> QED OBVIOUS
<1> QED  BY <1>5, <1>6

\* What is appended comes last.
LEMMA FlattenAppend ==
    ASSUME NEW T, NEW s \in Seq(Seq(T)), NEW e \in Seq(T)
    PROVE  FlattenSeq(Append(s, e)) = FlattenSeq(s) \o e
<1> DEFINE N == Len(s)
           t == Append(s, e)
<1>1. /\ N \in Nat /\ t \in Seq(Seq(T)) /\ Len(t) = N + 1
      /\ t[N + 1] = e /\ \A n \in 1..N : t[n] = s[n]
  OBVIOUS
<1> HIDE DEF t
<1>2. PICK f \in [0..N -> Seq(T)] :
          /\ f[0] = <<>> /\ \A n \in 1..N : f[n] = f[n - 1] \o s[n]
          /\ FlattenSeq(s) = f[N]
  BY FlattenSteps
<1>3. PICK g \in [0..(N + 1) -> Seq(T)] :
          /\ g[0] = <<>> /\ \A n \in 1..(N + 1) : g[n] = g[n - 1] \o t[n]
          /\ FlattenSeq(t) = g[N + 1]
  <2>1. PICK g \in [0..Len(t) -> Seq(T)] :
            /\ g[0] = <<>> /\ \A n \in 1..Len(t) : g[n] = g[n - 1] \o t[n]
            /\ FlattenSeq(t) = g[Len(t)]
    BY <1>1, FlattenSteps
  <2> QED  BY <1>1, <2>1
<1> DEFINE Same == {n \in 0..N : f[n] = g[n]}
<1>4. 0 \in Same
  BY <1>1, <1>2, <1>3
<1>5. ASSUME NEW n \in 1..N, n - 1 \in Same PROVE n \in Same
  <2>1. n \in 1..(N + 1) /\ f[n - 1] = g[n - 1] /\ t[n] = s[n]
    BY <1>1, <1>5
  <2>2. f[n] = f[n - 1] \o s[n] /\ g[n] = g[n - 1] \o t[n]
    BY <1>2, <1>3, <2>1
  <2>3. n \in 0..N
    BY <1>1
  <2>4. f[n] = g[n]
    BY <2>1, <2>2, Zenon
  <2> QED  BY <2>3, <2>4
<1>6. N \in Same
  <2> HIDE DEF Same
  <2>1. \A n \in 0..N : n \in Same
    BY <1>1, <1>4, <1>5, UpTo
  <2> QED  BY <1>1, <2>1
<1>7. g[N + 1] = g[N] \o t[N + 1]
  <2>1. PICK n \in 1..(N + 1) : n = N + 1
    BY <1>1
  <2>2. n - 1 = N
    BY <1>1, <2>1
  <2>3. g[n] = g[n - 1] \o t[n]
    BY <1>3
  <2> QED  BY <2>1, <2>2, <2>3
<1> QED  BY <1>1, <1>2, <1>3, <1>6, <1>7 DEF t

LEMMA FlattenType ==
    ASSUME NEW T, NEW s \in Seq(Seq(T))
    PROVE  FlattenSeq(s) \in Seq(T)
<1>1. PICK f \in [0..Len(s) -> Seq(T)] : FlattenSeq(s) = f[Len(s)]
  BY FlattenSteps
<1> QED  BY <1>1

LEMMA FlattenNone == FlattenSeq(<<>>) = <<>>
BY DEF FlattenSeq

\* The first sequences of a sequence of them, for every number of them.
First(s, n) == [i \in 1..n |-> s[i]]

LEMMA FirstOfAll ==
    ASSUME NEW S, NEW s \in Seq(S)
    PROVE  First(s, Len(s)) = s /\ First(s, 0) = <<>>
BY DEF First

LEMMA FirstStep ==
    ASSUME NEW S, NEW s \in Seq(S), NEW n \in 1..Len(s)
    PROVE  /\ First(s, n - 1) \in Seq(S) /\ First(s, n) \in Seq(S) /\ s[n] \in S
           /\ First(s, n) = Append(First(s, n - 1), s[n])
BY DEF First

LEMMA FlattenFirst ==
    ASSUME NEW T, NEW s \in Seq(Seq(T))
    PROVE  /\ FlattenSeq(First(s, Len(s))) = FlattenSeq(s)
           /\ FlattenSeq(First(s, 0)) = <<>>
           /\ \A n \in 1..Len(s) :
                 FlattenSeq(First(s, n)) = FlattenSeq(First(s, n - 1)) \o s[n]
<1>1. ASSUME NEW n \in 1..Len(s)
      PROVE  FlattenSeq(First(s, n)) = FlattenSeq(First(s, n - 1)) \o s[n]
  <2>1. /\ First(s, n - 1) \in Seq(Seq(T)) /\ s[n] \in Seq(T)
        /\ First(s, n) = Append(First(s, n - 1), s[n])
    BY FirstStep, Zenon
  <2> QED  BY <2>1, FlattenAppend
<1>2. First(s, Len(s)) = s /\ First(s, 0) = <<>>
  BY FirstOfAll, Zenon
<1> QED  BY <1>1, <1>2, FlattenNone

LEMMA FlattenConcat ==
    ASSUME NEW T, NEW s \in Seq(Seq(T)), NEW t \in Seq(Seq(T))
    PROVE  FlattenSeq(s \o t) = FlattenSeq(s) \o FlattenSeq(t)
<1> DEFINE Splits == {n \in 0..Len(t) :
               FlattenSeq(s \o First(t, n)) = FlattenSeq(s) \o FlattenSeq(First(t, n))}
<1>1. 0 \in Splits
  <2>1. First(t, 0) = <<>> /\ FlattenSeq(s) \in Seq(T)
    BY FirstOfAll, FlattenType, Zenon
  <2>2. s \o <<>> = s /\ FlattenSeq(s) \o <<>> = FlattenSeq(s)
    BY <2>1
  <2>3. FlattenSeq(<<>>) = <<>> /\ 0 \in 0..Len(t)
    BY FlattenNone
  <2>4. FlattenSeq(s \o First(t, 0)) = FlattenSeq(s) \o FlattenSeq(First(t, 0))
    BY <2>1, <2>2, <2>3, Zenon
  <2> QED  BY <2>3, <2>4
<1>2. ASSUME NEW n \in 1..Len(t), n - 1 \in Splits PROVE n \in Splits
  <2> DEFINE u == First(t, n - 1)
  <2>1. u \in Seq(Seq(T)) /\ t[n] \in Seq(T) /\ First(t, n) = Append(u, t[n])
    BY FirstStep, Zenon
  <2>2. FlattenSeq(s \o u) = FlattenSeq(s) \o FlattenSeq(u)
    BY <1>2
  <2> HIDE DEF u
  <2>3. s \o Append(u, t[n]) = Append(s \o u, t[n]) /\ s \o u \in Seq(Seq(T))
    BY <2>1
  <2>4. FlattenSeq(Append(s \o u, t[n])) = FlattenSeq(s \o u) \o t[n]
    BY <2>1, <2>3, FlattenAppend
  <2>5. FlattenSeq(Append(u, t[n])) = FlattenSeq(u) \o t[n]
    BY <2>1, FlattenAppend
  <2>6. FlattenSeq(s) \in Seq(T) /\ FlattenSeq(u) \in Seq(T)
    BY <2>1, FlattenType
  <2>7. PICK a \in Seq(T), b \in Seq(T), c \in Seq(T) :
            a = FlattenSeq(s) /\ b = FlattenSeq(u) /\ c = t[n]
    BY <2>1, <2>6
  <2>8. (a \o b) \o c = a \o (b \o c)
    OBVIOUS
  <2>9. FlattenSeq(s \o First(t, n)) = FlattenSeq(s) \o FlattenSeq(First(t, n))
    BY <2>1, <2>2, <2>3, <2>4, <2>5, <2>7, <2>8, Zenon
  <2>10. n \in 0..Len(t)
    OBVIOUS
  <2> QED  BY <2>9, <2>10
<1>3. Len(t) \in Splits
  <2> HIDE DEF Splits
  <2>1. Len(t) \in Nat
    OBVIOUS
  <2>2. \A n \in 0..Len(t) : n \in Splits
    BY <1>1, <1>2, <2>1, UpTo
  <2> QED  BY <2>1, <2>2
<1> QED  BY <1>3, FirstOfAll

-----------------------------------------------------------------------------
(* What is in a sequence, and what is the largest of numbers. *)

LEMMA ElementOf == ASSUME NEW s PROVE \A e : e \in ToSet(s) <=> \E k \in DOMAIN s : e = s[k]
BY DEF ToSet

LEMMA FlattenElements ==
    ASSUME NEW T, NEW s \in Seq(Seq(T))
    PROVE  \A e : e \in ToSet(FlattenSeq(s)) <=> \E i \in 1..Len(s) : e \in ToSet(s[i])
<1> DEFINE N == Len(s)
           Held(n) == \A e : e \in ToSet(FlattenSeq(First(s, n))) <=> \E i \in 1..n : e \in ToSet(s[i])
           Told == {n \in 0..N : Held(n)}
<1>1. N \in Nat
  OBVIOUS
<1>2. /\ \A n \in 1..N : FlattenSeq(First(s, n)) = FlattenSeq(First(s, n - 1)) \o s[n]
      /\ FlattenSeq(First(s, N)) = FlattenSeq(s) /\ FlattenSeq(First(s, 0)) = <<>>
  BY FlattenFirst, Zenon
<1>3. 0 \in Told
  <2>1. ToSet(<<>>) = {} /\ 1..0 = {} /\ 0 \in 0..N
    BY <1>1 DEF ToSet
  <2> QED  BY <1>2, <2>1
<1>4. ASSUME NEW n \in 1..N, n - 1 \in Told PROVE n \in Told
  <2>1. First(s, n - 1) \in Seq(Seq(T)) /\ s[n] \in Seq(T)
    BY FirstStep, Zenon
  <2>2. PICK a \in Seq(T), b \in Seq(T) : a = FlattenSeq(First(s, n - 1)) /\ b = s[n]
    BY <2>1, FlattenType, Zenon
  <2>3. \A e : e \in ToSet(a \o b) <=> e \in ToSet(a) \/ e \in ToSet(b)
    <3>1. /\ Len(a) \in Nat /\ Len(b) \in Nat /\ DOMAIN a = 1..Len(a) /\ DOMAIN b = 1..Len(b)
          /\ DOMAIN (a \o b) = 1..(Len(a) + Len(b))
          /\ \A k \in 1..Len(a) : (a \o b)[k] = a[k]
          /\ \A k \in 1..Len(b) : (a \o b)[Len(a) + k] = b[k]
      OBVIOUS
    <3>2. PICK c : c = a \o b
      OBVIOUS
    <3>3. /\ DOMAIN c = 1..(Len(a) + Len(b)) /\ \A k \in 1..Len(a) : c[k] = a[k]
          /\ \A k \in 1..Len(b) : c[Len(a) + k] = b[k]
      BY <3>1, <3>2, Zenon
    <3>4. ASSUME NEW e PROVE (\E k \in DOMAIN c : e = c[k]) <=>
                 (\E k \in DOMAIN a : e = a[k]) \/ (\E k \in DOMAIN b : e = b[k])
      <4>1. ASSUME NEW k \in DOMAIN c, e = c[k], k > Len(a) PROVE \E l \in DOMAIN b : e = b[l]
        <5>1. k - Len(a) \in 1..Len(b) /\ Len(a) + (k - Len(a)) = k
          BY <3>1, <3>3, <4>1
        <5>2. c[Len(a) + (k - Len(a))] = b[k - Len(a)]
          BY <3>3, <5>1
        <5> QED  BY <3>1, <4>1, <5>1, <5>2
      <4>2. ASSUME NEW k \in DOMAIN c, e = c[k], ~(k > Len(a)) PROVE \E l \in DOMAIN a : e = a[l]
        <5>1. k \in 1..Len(a)
          BY <3>1, <3>3, <4>2
        <5>2. k \in DOMAIN a /\ e = a[k]
          BY <3>1, <3>3, <4>2, <5>1, Zenon
        <5> QED  BY <5>2
      <4>3. ASSUME NEW k \in DOMAIN a PROVE k \in DOMAIN c /\ a[k] = c[k]
        BY <3>1, <3>3
      <4>4. ASSUME NEW k \in DOMAIN b PROVE Len(a) + k \in DOMAIN c /\ b[k] = c[Len(a) + k]
        BY <3>1, <3>3
      <4> QED  BY <4>1, <4>2, <4>3, <4>4, Zenon
    <3>5. \A e : e \in ToSet(c) <=> e \in ToSet(a) \/ e \in ToSet(b)
      <4> SUFFICES ASSUME NEW e PROVE e \in ToSet(c) <=> e \in ToSet(a) \/ e \in ToSet(b)
        OBVIOUS
      <4>1. /\ e \in ToSet(c) <=> \E k \in DOMAIN c : e = c[k]
            /\ e \in ToSet(a) <=> \E k \in DOMAIN a : e = a[k]
            /\ e \in ToSet(b) <=> \E k \in DOMAIN b : e = b[k]
        BY ElementOf, Zenon
      <4> QED  BY <3>4, <4>1, Zenon
    <3> QED  BY <3>2, <3>5, Zenon
  <2>4. \A i : i \in 1..n <=> i \in 1..(n - 1) \/ i = n
    OBVIOUS
  <2>5. Held(n - 1) /\ n \in 0..N
    BY <1>4
  <2>6. FlattenSeq(First(s, n)) = a \o b
    BY <1>2, <2>2, Zenon
  <2>7. Held(n)
    BY <2>2, <2>3, <2>4, <2>5, <2>6, Zenon
  <2> QED  BY <2>5, <2>7
<1>5. N \in Told
  <2> HIDE DEF Told
  <2>1. \A n \in 0..N : n \in Told
    BY <1>1, <1>3, <1>4, UpTo
  <2> QED  BY <1>1, <2>1
<1> QED  BY <1>2, <1>5, Zenon

\* Numbers with a bound have a largest one.
LEMMA LargestOf ==
    ASSUME NEW S \in SUBSET Nat, S # {}, NEW b \in Nat, \A k \in S : k <= b
    PROVE  Max(S) \in S /\ \A k \in S : k <= Max(S)
<1> DEFINE Bounds == {c \in Nat : \A k \in S : k <= c}
<1>1. PICK c \in Bounds : \A d \in Bounds : <<d, c>> \notin OpToRel(<, Nat)
  <2>1. Bounds # {} /\ Bounds \subseteq Nat
    OBVIOUS
  <2> HIDE DEF Bounds
  <2> QED  BY <2>1, NatLessThanWellFounded, WFMin
<1>2. c \in S
  <2> SUFFICES ASSUME c \notin S PROVE FALSE
    OBVIOUS
  <2>1. c \in Nat /\ \A k \in S : k < c
    OBVIOUS
  <2>2. c - 1 \in Nat /\ \A k \in S : k <= c - 1
    <3>1. PICK e \in S : TRUE
      OBVIOUS
    <3>2. e \in Nat /\ e < c
      BY <2>1
    <3>3. \A k \in S : k \in Nat
      OBVIOUS
    <3> QED  BY <2>1, <3>2, <3>3
  <2>3. c - 1 \in Bounds /\ c - 1 < c
    BY <2>1, <2>2
  <2> HIDE DEF Bounds
  <2> QED  BY <1>1, <2>1, <2>2, <2>3, Zenon DEF OpToRel
<1>3. \A k \in S : c >= k
  OBVIOUS
<1>4. Max(S) \in S /\ \A k \in S : Max(S) >= k
  BY <1>2, <1>3, Zenon DEF Max
<1> QED  BY <1>4

LEMMA SmallestOf ==
    ASSUME NEW S \in SUBSET Nat, S # {}
    PROVE  Min(S) \in S
<1>1. PICK least \in S : \A k \in S : <<k, least>> \notin OpToRel(<, Nat)
  BY NatLessThanWellFounded, WFMin
<1>2. \A k \in S : ~(k < least)
  BY <1>1, Zenon DEF OpToRel
<1>3. \A k \in S : least =< k
  BY <1>2
<1>4. \E x \in S : \A y \in S : x =< y
  BY <1>3
<1> QED  BY <1>4, Zenon DEF Min

\* The numbers of a sequence have a bound.
LEMMA BoundOf ==
    ASSUME NEW sizes \in Seq(Nat)
    PROVE  \E b \in Nat : \A k \in 1..Len(sizes) : sizes[k] <= b
<1> DEFINE N == Len(sizes)
           Bounded == {n \in 0..N : \E b \in Nat : \A k \in 1..n : sizes[k] <= b}
<1>1. N \in Nat /\ \A k \in 1..N : sizes[k] \in Nat
  OBVIOUS
<1>2. 0 \in Bounded
  BY <1>1
<1>3. ASSUME NEW n \in 1..N, n - 1 \in Bounded PROVE n \in Bounded
  <2>1. PICK b \in Nat : \A k \in 1..(n - 1) : sizes[k] <= b
    BY <1>3
  <2>2. n \in 0..N /\ sizes[n] \in Nat
    BY <1>1
  <2>3. PICK c \in Nat : c = b + sizes[n]
    BY <2>2
  <2>4. ASSUME NEW k \in 1..n PROVE sizes[k] <= c
    <3>1. k \in 1..N /\ (k \in 1..(n - 1) \/ k = n)
      BY <1>1
    <3>2. sizes[k] \in Nat
      BY <1>1, <3>1
    <3> QED  BY <2>1, <2>2, <2>3, <3>1, <3>2
  <2> QED  BY <2>2, <2>4
<1>4. \A n \in 0..N : n \in Bounded
  <2> HIDE DEF Bounded, N
  <2> QED  BY <1>1, <1>2, <1>3, UpTo
<1>5. \E b \in Nat : \A k \in 1..N : sizes[k] <= b
  <2>1. N \in 0..N
    BY <1>1
  <2>2. PICK n \in Bounded : n = N
    BY <1>4, <2>1
  <2> QED  BY <2>2
<1> QED  BY <1>5

-----------------------------------------------------------------------------
(* What blocks say, one after the other. *)

TextKinds == {"heading", "list_item", "paragraph"}

TextBlock == [kind : TextKinds, text : Seq(Texts), level : 0..3]

ImageBlock == [kind : {"image"}, text : Seq(STRING), level : {0}]

AnyBlock == TextBlock \cup ImageBlock

Says(b) == IF b.kind = "image" THEN <<>> ELSE b.text

Sayings(blocks) == [k \in DOMAIN blocks |-> IF blocks[k].kind = "image" THEN <<>> ELSE blocks[k].text]

Read(blocks) == FlattenSeq(Sayings(blocks))

LEMMA SaysTexts == ASSUME NEW b \in AnyBlock PROVE Says(b) \in Seq(Texts)
BY DEF AnyBlock, TextBlock, ImageBlock, TextKinds, Says

LEMMA SayingsSequence ==
    ASSUME NEW blocks \in Seq(AnyBlock)
    PROVE  /\ Sayings(blocks) \in Seq(Seq(Texts)) /\ Len(Sayings(blocks)) = Len(blocks)
           /\ \A k \in 1..Len(blocks) : Sayings(blocks)[k] = Says(blocks[k])
<1>1. Sayings(blocks) = [k \in 1..Len(blocks) |-> Says(blocks[k])]
  BY DEF Sayings, Says
<1>2. \A k \in 1..Len(blocks) : Says(blocks[k]) \in Seq(Texts)
  BY SaysTexts
<1> QED  BY <1>1, <1>2

LEMMA ReadTexts == ASSUME NEW blocks \in Seq(AnyBlock) PROVE Read(blocks) \in Seq(Texts)
BY SayingsSequence, FlattenType, Zenon DEF Read

LEMMA ReadNone == Read(<<>>) = <<>>
<1>1. Sayings(<<>>) = <<>>
  BY DEF Sayings
<1> QED  BY <1>1, FlattenNone DEF Read

LEMMA ReadAppend ==
    ASSUME NEW blocks \in Seq(AnyBlock), NEW b \in AnyBlock
    PROVE  Read(Append(blocks, b)) = Read(blocks) \o Says(b)
<1>1. Append(blocks, b) \in Seq(AnyBlock)
  OBVIOUS
<1>2. Sayings(Append(blocks, b)) = Append(Sayings(blocks), Says(b))
  <2> DEFINE u == Sayings(Append(blocks, b))
             s == Sayings(blocks)
             n == Len(blocks)
  <2>1. /\ u \in Seq(Seq(Texts)) /\ Len(u) = Len(Append(blocks, b))
        /\ \A k \in 1..Len(Append(blocks, b)) : u[k] = Says(Append(blocks, b)[k])
    BY <1>1, SayingsSequence, Zenon
  <2>2. /\ s \in Seq(Seq(Texts)) /\ Len(s) = n /\ \A k \in 1..n : s[k] = Says(blocks[k])
    BY SayingsSequence, Zenon
  <2>3. Says(b) \in Seq(Texts)
    BY SaysTexts
  <2>4. /\ n \in Nat /\ Len(Append(blocks, b)) = n + 1
        /\ Append(blocks, b)[n + 1] = b /\ \A k \in 1..n : Append(blocks, b)[k] = blocks[k]
    OBVIOUS
  <2> HIDE DEF u, s, n
  <2>5. Len(u) = Len(s) + 1 /\ u[Len(s) + 1] = Says(b) /\ \A k \in 1..Len(s) : u[k] = s[k]
    BY <2>1, <2>2, <2>4
  <2>6. u = Append(s, Says(b))
    BY <2>1, <2>2, <2>3, <2>5, AppendIs, Zenon
  <2> QED  BY <2>6 DEF u, s
<1> QED  BY <1>2, SayingsSequence, SaysTexts, FlattenAppend, Zenon DEF Read

LEMMA ReadConcat ==
    ASSUME NEW a \in Seq(AnyBlock), NEW b \in Seq(AnyBlock)
    PROVE  Read(a \o b) = Read(a) \o Read(b)
<1>1. a \o b \in Seq(AnyBlock)
  OBVIOUS
<1>2. Sayings(a \o b) = Sayings(a) \o Sayings(b)
  <2> DEFINE u == Sayings(a \o b)
             s == Sayings(a)
             t == Sayings(b)
  <2>1. /\ u \in Seq(Seq(Texts)) /\ Len(u) = Len(a \o b)
        /\ \A k \in 1..Len(a \o b) : u[k] = Says((a \o b)[k])
    BY <1>1, SayingsSequence, Zenon
  <2>2. /\ s \in Seq(Seq(Texts)) /\ Len(s) = Len(a)
        /\ \A k \in 1..Len(a) : s[k] = Says(a[k])
    BY SayingsSequence, Zenon
  <2>3. /\ t \in Seq(Seq(Texts)) /\ Len(t) = Len(b)
        /\ \A k \in 1..Len(b) : t[k] = Says(b[k])
    BY SayingsSequence, Zenon
  <2>4. /\ Len(a \o b) = Len(a) + Len(b) /\ Len(a) \in Nat /\ Len(b) \in Nat
        /\ \A k \in 1..(Len(a) + Len(b)) :
              (a \o b)[k] = IF k <= Len(a) THEN a[k] ELSE b[k - Len(a)]
    OBVIOUS
  <2> HIDE DEF u, s, t
  <2>5. Len(u) = Len(s) + Len(t)
    BY <2>1, <2>2, <2>3, <2>4
  <2>6. ASSUME NEW k \in 1..Len(u)
        PROVE  u[k] = IF k <= Len(s) THEN s[k] ELSE t[k - Len(s)]
    <3>1. k \in 1..(Len(a) + Len(b)) /\ u[k] = Says((a \o b)[k])
      BY <2>1, <2>4
    <3>2. CASE k <= Len(a)
      <4>1. k \in 1..Len(a)
        BY <2>4, <3>1, <3>2
      <4> QED  BY <2>2, <2>4, <3>1, <3>2, <4>1
    <3>3. CASE ~(k <= Len(a))
      <4>1. k - Len(a) \in 1..Len(b)
        BY <2>4, <3>1, <3>3
      <4>2. t[k - Len(a)] = Says(b[k - Len(a)])
        BY <2>3, <4>1
      <4> QED  BY <2>2, <2>4, <3>1, <3>3, <4>2
    <3> QED  BY <3>2, <3>3
  <2>7. u = s \o t
    <3>1. Joins(u, s, t)
      BY <2>5, <2>6 DEF Joins
    <3> QED  BY <2>1, <2>2, <2>3, <3>1, ConcatIs, Zenon
  <2> QED  BY <2>7 DEF u, s, t
<1> QED  BY <1>2, SayingsSequence, FlattenConcat, Zenon DEF Read

LEMMA FrontLast ==
    ASSUME NEW S, NEW s \in Seq(S), s # <<>>
    PROVE  /\ Front(s) \in Seq(S) /\ Last(s) \in S /\ Len(Front(s)) = Len(s) - 1
           /\ \A k \in 1..(Len(s) - 1) : Front(s)[k] = s[k]
           /\ Last(s) = s[Len(s)] /\ Append(Front(s), Last(s)) = s
<1> DEFINE front == [k \in 1..(Len(s) - 1) |-> s[k]]
<1>1. Len(s) \in Nat \ {0} /\ s[Len(s)] \in S
  OBVIOUS
<1>2. Front(s) = front
  BY <1>1 DEF Front
<1>3. front \in Seq(S) /\ Len(front) = Len(s) - 1
  BY <1>1
<1>4. Append(front, s[Len(s)]) = s
  BY <1>1, <1>3
<1> QED  BY <1>1, <1>2, <1>3, <1>4 DEF Last

LEMMA ReadHead ==
    ASSUME NEW blocks \in Seq(AnyBlock), blocks # <<>>
    PROVE  /\ Tail(blocks) \in Seq(AnyBlock) /\ Head(blocks) \in AnyBlock
           /\ Read(blocks) = Says(Head(blocks)) \o Read(Tail(blocks))
<1>1. /\ Tail(blocks) \in Seq(AnyBlock) /\ Head(blocks) \in AnyBlock
      /\ <<Head(blocks)>> \in Seq(AnyBlock) /\ <<Head(blocks)>> \o Tail(blocks) = blocks
      /\ Append(<<>>, Head(blocks)) = <<Head(blocks)>> /\ <<>> \in Seq(AnyBlock)
  OBVIOUS
<1>2. Read(<<Head(blocks)>>) = Says(Head(blocks))
  <2>1. Read(Append(<<>>, Head(blocks))) = Read(<<>>) \o Says(Head(blocks))
    BY <1>1, ReadAppend, Zenon
  <2>2. Says(Head(blocks)) \in Seq(Texts)
    BY <1>1, SaysTexts, Zenon
  <2>3. <<>> \o Says(Head(blocks)) = Says(Head(blocks))
    BY <2>2
  <2> QED  BY <1>1, <2>1, <2>3, ReadNone, Zenon
<1>3. Read(<<Head(blocks)>> \o Tail(blocks)) = Read(<<Head(blocks)>>) \o Read(Tail(blocks))
  BY <1>1, ReadConcat, Zenon
<1> QED  BY <1>1, <1>2, <1>3, Zenon

\* Pictures say nothing.
LEMMA ReadImages ==
    ASSUME NEW images \in Seq(STRING)
    PROVE  ImageBlocks(images) \in Seq(AnyBlock) /\ Read(ImageBlocks(images)) = <<>>
<1> DEFINE blocks == ImageBlocks(images)
<1>1. /\ blocks \in Seq(AnyBlock)
      /\ \A k \in 1..Len(blocks) : blocks[k].kind = "image"
  <2>1. blocks = [k \in 1..Len(images) |-> [kind |-> "image", text |-> <<images[k]>>, level |-> 0]]
    BY DEF ImageBlocks, Block
  <2>2. \A k \in 1..Len(images) : <<images[k]>> \in Seq(STRING)
    OBVIOUS
  <2>3. \A k \in 1..Len(images) :
            [kind |-> "image", text |-> <<images[k]>>, level |-> 0] \in ImageBlock
    BY <2>2 DEF ImageBlock
  <2>4. blocks \in Seq(ImageBlock)
    BY <2>1, <2>3
  <2>5. blocks \in Seq(AnyBlock)
    BY <2>4 DEF AnyBlock
  <2> QED  BY <2>1, <2>5
<1> HIDE DEF blocks
<1> DEFINE Silent == {n \in 0..Len(blocks) : Read(First(blocks, n)) = <<>>}
<1>2. 0 \in Silent
  <2>1. First(blocks, 0) = <<>> /\ 0 \in 0..Len(blocks)
    BY <1>1 DEF First
  <2> QED  BY <2>1, ReadNone, Zenon
<1>3. ASSUME NEW n \in 1..Len(blocks), n - 1 \in Silent PROVE n \in Silent
  <2>1. /\ First(blocks, n - 1) \in Seq(AnyBlock) /\ blocks[n] \in AnyBlock
        /\ First(blocks, n) = Append(First(blocks, n - 1), blocks[n])
    BY <1>1, FirstStep, Zenon
  <2>2. Read(Append(First(blocks, n - 1), blocks[n])) = Read(First(blocks, n - 1)) \o Says(blocks[n])
    BY <2>1, ReadAppend, Zenon
  <2>3. Says(blocks[n]) = <<>> /\ Read(First(blocks, n - 1)) = <<>> /\ <<>> \o <<>> = <<>>
    BY <1>1, <1>3 DEF Says
  <2>4. n \in 0..Len(blocks)
    BY <1>1
  <2> QED  BY <2>1, <2>2, <2>3, <2>4, Zenon
<1>4. Len(blocks) \in Silent
  <2>1. Len(blocks) \in Nat
    BY <1>1
  <2> HIDE DEF Silent
  <2>2. \A n \in 0..Len(blocks) : n \in Silent
    BY <1>2, <1>3, <2>1, UpTo
  <2> QED  BY <2>1, <2>2
<1>5. First(blocks, Len(blocks)) = blocks
  BY <1>1, FirstOfAll, Zenon
<1> QED  BY <1>1, <1>4, <1>5 DEF blocks

-----------------------------------------------------------------------------
(* The blocks of a page. *)

\* A heading is a single line.
HeadingsSingle(blocks) ==
    \A k \in DOMAIN blocks : blocks[k].kind = "heading" => Len(blocks[k].text) = 1

\* It stays one if another block comes last, is made longer, or the first goes.
LEMMA SingleAppend ==
    ASSUME NEW S, NEW blocks \in Seq(S), HeadingsSingle(blocks), NEW b \in S,
           b.kind = "heading" => Len(b.text) = 1
    PROVE  /\ HeadingsSingle(Append(blocks, b))
           /\ Append(blocks, b) # <<>> /\ Append(blocks, b)[Len(Append(blocks, b))] = b
BY DEF HeadingsSingle

LEMMA SingleFront ==
    ASSUME NEW S, NEW blocks \in Seq(S), blocks # <<>>, HeadingsSingle(blocks)
    PROVE  HeadingsSingle(Front(blocks))
<1>1. /\ Front(blocks) \in Seq(S) /\ Len(Front(blocks)) = Len(blocks) - 1
      /\ \A k \in 1..(Len(blocks) - 1) : Front(blocks)[k] = blocks[k]
  BY FrontLast, Zenon
<1>2. DOMAIN Front(blocks) = 1..(Len(blocks) - 1)
  BY <1>1
<1>3. \A k \in 1..(Len(blocks) - 1) : k \in DOMAIN blocks
  OBVIOUS
<1> QED  BY <1>1, <1>2, <1>3 DEF HeadingsSingle

LEMMA SingleTail ==
    ASSUME NEW S, NEW blocks \in Seq(S), blocks # <<>>, HeadingsSingle(blocks)
    PROVE  HeadingsSingle(Tail(blocks))
<1>1. \A k \in DOMAIN Tail(blocks) : Tail(blocks)[k] = blocks[k + 1] /\ k + 1 \in DOMAIN blocks
  OBVIOUS
<1> QED  BY <1>1 DEF HeadingsSingle

LEMMA SingleConcat ==
    ASSUME NEW S, NEW a \in Seq(S), NEW b \in Seq(S), HeadingsSingle(a), HeadingsSingle(b)
    PROVE  HeadingsSingle(a \o b)
<1>1. \A k \in DOMAIN (a \o b) :
          \/ k \in DOMAIN a /\ (a \o b)[k] = a[k]
          \/ k - Len(a) \in DOMAIN b /\ (a \o b)[k] = b[k - Len(a)]
  OBVIOUS
<1> QED  BY <1>1 DEF HeadingsSingle

\* A list item loses its marker, and no other line is changed.
LEMMA WordingText ==
    ASSUME NEW line, line.text \in Texts, NEW median
    PROVE  /\ Wording(line, median) \in Texts
           /\ KindOf(line, median) # "list_item" => Wording(line, median) = line.text
<1>1. KindOf(line, median) = "list_item" => line.text \in ListPrefixed
  BY DEF KindOf
<1> QED  BY <1>1, TextAssumption DEF Wording

LEMMA BlockOfLine ==
    ASSUME NEW line, line.text \in Texts, NEW median
    PROVE  /\ BlockOf(line, median) \in TextBlock
           /\ Says(BlockOf(line, median)) = <<Wording(line, median)>>
<1>0. Wording(line, median) \in Texts
  BY WordingText
<1>1. <<Wording(line, median)>> \in Seq(Texts) /\ HeadingLevel(line, median) \in 0..3
  BY <1>0 DEF HeadingLevel
<1>2. KindOf(line, median) \in TextKinds
  BY DEF KindOf, TextKinds
<1> HIDE DEF TextKinds
<1>3. BlockOf(line, median) \in TextBlock
  BY <1>1, <1>2 DEF BlockOf, Block, TextBlock
<1>4. BlockOf(line, median).kind # "image" /\ BlockOf(line, median).text = <<Wording(line, median)>>
  BY <1>2 DEF BlockOf, Block, TextKinds
<1> QED  BY <1>3, <1>4 DEF Says

\* A line that does not start a block goes on with the last one.
LEMMA WithLineReads ==
    ASSUME NEW blocks \in Seq(TextBlock), blocks # <<>>, NEW line, line.text \in Texts
    PROVE  /\ WithLine(blocks, line) \in Seq(TextBlock) /\ WithLine(blocks, line) # <<>>
           /\ Read(WithLine(blocks, line)) = Read(blocks) \o <<line.text>>
<1> DEFINE front == Front(blocks)
           last == Last(blocks)
           longer == [last EXCEPT !.text = Append(@, line.text)]
<1>1. /\ front \in Seq(TextBlock) /\ last \in TextBlock /\ Append(front, last) = blocks
      /\ Len(front) = Len(blocks) - 1 /\ last = blocks[Len(blocks)]
      /\ \A k \in 1..(Len(blocks) - 1) : front[k] = blocks[k]
  BY FrontLast, Zenon
<1> HIDE DEF front, last
<1>2. longer \in TextBlock /\ last.text \in Seq(Texts) /\ longer.text = last.text \o <<line.text>>
  <2>1. last.text \in Seq(Texts)
    BY <1>1 DEF TextBlock
  <2>2. PICK text \in Seq(Texts) : text = last.text
    BY <2>1, Zenon
  <2>3. Append(text, line.text) \in Seq(Texts) /\ Append(text, line.text) = text \o <<line.text>>
    OBVIOUS
  <2>4. /\ last \in [kind : TextKinds, text : Seq(Texts), level : 0..3]
        /\ longer = [last EXCEPT !.text = Append(text, line.text)]
    BY <1>1, <2>2 DEF TextBlock
  <2>5. PICK all : all = Seq(Texts)
    OBVIOUS
  <2>6. longer \in [kind : TextKinds, text : all, level : 0..3]
        /\ longer.text = Append(text, line.text)
    BY <2>3, <2>4, <2>5
  <2> QED  BY <2>1, <2>2, <2>3, <2>5, <2>6 DEF TextBlock
<1>3. longer.kind # "image" /\ last.kind # "image"
  BY <1>1, <1>2 DEF TextBlock, TextKinds
<1>4. WithLine(blocks, line) = [blocks EXCEPT ![Len(blocks)] = longer]
  BY <1>1 DEF WithLine
<1> HIDE DEF longer
<1>5. /\ WithLine(blocks, line) \in Seq(TextBlock) /\ WithLine(blocks, line) # <<>>
      /\ WithLine(blocks, line) = Append(front, longer)
  <2> DEFINE n == Len(blocks)
             u == WithLine(blocks, line)
  <2>1. n \in Nat \ {0}
    OBVIOUS
  <2>2. /\ u \in Seq(TextBlock) /\ Len(u) = n
        /\ \A k \in 1..n : u[k] = IF k = n THEN longer ELSE blocks[k]
    <3>1. n \in 1..n
      BY <2>1
    <3>2. /\ [blocks EXCEPT ![n] = longer] \in Seq(TextBlock)
          /\ Len([blocks EXCEPT ![n] = longer]) = n
          /\ \A k \in 1..n : [blocks EXCEPT ![n] = longer][k] = IF k = n THEN longer ELSE blocks[k]
      BY <1>2, <3>1
    <3> QED  BY <1>4, <3>2, Zenon
  <2> HIDE DEF u, n
  <2>3. /\ Len(u) = Len(front) + 1 /\ u[Len(front) + 1] = longer
        /\ \A k \in 1..Len(front) : u[k] = front[k]
    BY <1>1, <2>1, <2>2 DEF n
  <2>4. u = Append(front, longer)
    BY <1>1, <1>2, <2>2, <2>3, AppendIs, Zenon
  <2>5. u # <<>>
    BY <2>1, <2>2
  <2> QED  BY <2>2, <2>4, <2>5 DEF u
<1>6. front \in Seq(AnyBlock) /\ last \in AnyBlock /\ longer \in AnyBlock
  BY <1>1, <1>2 DEF AnyBlock
<1>7. /\ Read(blocks) = Read(front) \o last.text
      /\ Read(WithLine(blocks, line)) = Read(front) \o longer.text
  <2>1. Says(last) = last.text /\ Says(longer) = longer.text
    BY <1>3 DEF Says
  <2> QED  BY <1>1, <1>5, <1>6, <2>1, ReadAppend, Zenon
<1>8. (Read(front) \o last.text) \o <<line.text>> = Read(front) \o (last.text \o <<line.text>>)
  <2>1. Read(front) \in Seq(Texts)
    BY <1>6, ReadTexts, Zenon
  <2>2. PICK a \in Seq(Texts), b \in Seq(Texts) : a = Read(front) /\ b = last.text
    BY <1>2, <2>1, Zenon
  <2>3. (a \o b) \o <<line.text>> = a \o (b \o <<line.text>>)
    OBVIOUS
  <2> QED  BY <2>2, <2>3, Zenon
<1> QED  BY <1>2, <1>5, <1>7, <1>8, Zenon

LEMMA WithLineNone == ASSUME NEW line PROVE WithLine(<<>>, line) = <<>>
<1>1. DOMAIN <<>> = {} /\ Len(<<>>) = 0
  OBVIOUS
<1> QED  BY <1>1 DEF WithLine

\* The blocks come about line by line.
LEMMA TextBlocksSteps ==
    ASSUME NEW L, \A l \in L : l.text \in Texts, NEW lines \in Seq(L), NEW median
    PROVE  \E f \in [0..Len(lines) -> Seq(TextBlock)] :
              /\ f[0] = <<>>
              /\ \A n \in 1..Len(lines) :
                    f[n] = IF StartsBlock(lines, n, median)
                           THEN Append(f[n - 1], BlockOf(lines[n], median))
                           ELSE WithLine(f[n - 1], lines[n])
              /\ TextBlocks(lines, median) = f[Len(lines)]
<1> DEFINE N == Len(lines)
           Next(v, n) == IF StartsBlock(lines, n, median) THEN Append(v, BlockOf(lines[n], median))
                         ELSE WithLine(v, lines[n])
           step == [n \in 1..N |-> [v \in Seq(TextBlock) |-> Next(v, n)]]
<1>1. N \in Nat /\ \A n \in 1..N : lines[n].text \in Texts
  OBVIOUS
<1>2. ASSUME NEW n \in 1..N, NEW v \in Seq(TextBlock)
      PROVE  Next(v, n) \in Seq(TextBlock)
  <2>1. CASE StartsBlock(lines, n, median)
    <3>1. BlockOf(lines[n], median) \in TextBlock
      BY <1>1, BlockOfLine, Zenon
    <3> QED  BY <2>1, <3>1
  <2>2. CASE ~StartsBlock(lines, n, median) /\ v # <<>>
    BY <1>1, <2>2, WithLineReads, Zenon
  <2>3. CASE ~StartsBlock(lines, n, median) /\ v = <<>>
    BY <2>3, WithLineNone, Zenon
  <2> QED  BY <2>1, <2>2, <2>3
<1> HIDE DEF Next
<1>3. PICK f \in [0..N -> Seq(TextBlock)] : f[0] = <<>> /\ Takes(f, step, N)
  <2>1. Steps(step, N, Seq(TextBlock))
    BY <1>2 DEF Steps
  <2>2. <<>> \in Seq(TextBlock)
    OBVIOUS
  <2> HIDE DEF step, N
  <2> QED  BY <1>1, <2>1, <2>2, Recursion
<1>4. ASSUME NEW n \in 1..N
      PROVE  f[n] = Next(f[n - 1], n)
  <2>1. n - 1 \in 0..N
    BY <1>1
  <2> QED  BY <1>3, <2>1 DEF Takes
<1> DEFINE Builds(g) == g = [n \in 0..N |-> IF n = 0 THEN <<>> ELSE Next(g[n - 1], n)]
           g == CHOOSE h : Builds(h)
<1>5. TextBlocks(lines, median) = g[N]
  BY DEF TextBlocks, Next
<1>6. Builds(f)
  BY <1>3, <1>4
<1>7. Builds(g)
  BY <1>6
<1> HIDE DEF g
<1> DEFINE Same == {n \in 0..N : f[n] = g[n]}
<1>8. N \in Same
  <2>1. 0 \in Same
    BY <1>1, <1>3, <1>7
  <2>2. ASSUME NEW n \in 1..N, n - 1 \in Same PROVE n \in Same
    <3>1. n \in 0..N /\ n # 0
      BY <1>1
    <3>2. g[n] = Next(g[n - 1], n)
      BY <1>7, <3>1
    <3> QED  BY <1>4, <2>2, <3>1, <3>2, Zenon
  <2> HIDE DEF Same
  <2>3. \A n \in 0..N : n \in Same
    BY <1>1, <2>1, <2>2, UpTo
  <2> QED  BY <1>1, <2>3
<1> QED  BY <1>3, <1>4, <1>5, <1>8 DEF Next

Lettering(lines) == [i \in DOMAIN lines |-> lines[i].text]

LEMMA LetteringTexts ==
    ASSUME NEW L, \A l \in L : l.text \in Texts, NEW lines \in Seq(L)
    PROVE  /\ Lettering(lines) \in Seq(Texts) /\ Len(Lettering(lines)) = Len(lines)
           /\ \A i \in 1..Len(lines) : Lettering(lines)[i] = lines[i].text
BY DEF Lettering

\* What the blocks of these lines say.
Wordings(lines, median) == [i \in DOMAIN lines |-> Wording(lines[i], median)]

LEMMA WordingsTexts ==
    ASSUME NEW L, \A l \in L : l.text \in Texts, NEW lines \in Seq(L), NEW median
    PROVE  /\ Wordings(lines, median) \in Seq(Texts) /\ Len(Wordings(lines, median)) = Len(lines)
           /\ \A i \in 1..Len(lines) : Wordings(lines, median)[i] = Wording(lines[i], median)
<1>1. \A i \in 1..Len(lines) : Wording(lines[i], median) \in Texts
  BY WordingText
<1> QED  BY <1>1 DEF Wordings

\* The blocks of lines say what the lines say, but for the markers of lists.
LEMMA TextBlocksRead ==
    ASSUME NEW L, \A l \in L : l.text \in Texts, NEW lines \in Seq(L), NEW median
    PROVE  /\ TextBlocks(lines, median) \in Seq(TextBlock)
           /\ Read(TextBlocks(lines, median)) = Wordings(lines, median)
<1> DEFINE N == Len(lines)
           t == Wordings(lines, median)
<1>1. N \in Nat /\ t \in Seq(Texts) /\ Len(t) = N /\ \A i \in 1..N : t[i] = Wording(lines[i], median)
  <2>1. N \in Nat
    OBVIOUS
  <2>2. t \in Seq(Texts) /\ Len(t) = N /\ \A i \in 1..N : t[i] = Wording(lines[i], median)
    BY WordingsTexts, Zenon
  <2> QED  BY <2>1, <2>2
<1>2. PICK f \in [0..N -> Seq(TextBlock)] :
          /\ f[0] = <<>>
          /\ \A n \in 1..N :
                f[n] = IF StartsBlock(lines, n, median)
                       THEN Append(f[n - 1], BlockOf(lines[n], median))
                       ELSE WithLine(f[n - 1], lines[n])
          /\ TextBlocks(lines, median) = f[N]
  BY TextBlocksSteps, Zenon
<1> HIDE DEF t
<1> DEFINE Told == {n \in 0..N : Read(f[n]) = First(t, n) /\ (n = 0 \/ f[n] # <<>>)}
<1>3. 0 \in Told
  <2>1. 0 \in 0..N /\ First(t, 0) = <<>>
    BY <1>1 DEF First
  <2> QED  BY <1>2, <2>1, ReadNone, Zenon
<1>4. ASSUME NEW n \in 1..N, n - 1 \in Told
      PROVE  n \in Told
  <2> DEFINE before == f[n - 1]
  <2>1. /\ n \in 0..N /\ before \in Seq(TextBlock) /\ before \in Seq(AnyBlock)
        /\ lines[n].text \in Texts
    BY <1>1, <1>2, <1>4 DEF AnyBlock
  <2>2. Read(before) = First(t, n - 1) /\ (n - 1 = 0 \/ before # <<>>)
    BY <1>4
  <2>3. First(t, n) = Append(First(t, n - 1), t[n]) /\ First(t, n - 1) \in Seq(Texts)
    BY <1>1, FirstStep, Zenon
  <2>4. First(t, n) = First(t, n - 1) \o <<Wording(lines[n], median)>>
    BY <1>1, <2>1, <2>3
  <2>5. CASE StartsBlock(lines, n, median)
    <3> DEFINE b == BlockOf(lines[n], median)
    <3>1. b \in TextBlock /\ Says(b) = <<Wording(lines[n], median)>>
      BY <2>1, BlockOfLine, Zenon
    <3>2. b \in AnyBlock
      BY <3>1 DEF AnyBlock
    <3>3. f[n] = Append(before, b)
      BY <1>2, <2>5
    <3> HIDE DEF b, before
    <3>4. Read(f[n]) = Read(before) \o <<Wording(lines[n], median)>>
      BY <2>1, <3>1, <3>2, <3>3, ReadAppend, Zenon
    <3>5. f[n] # <<>>
      BY <2>1, <3>1, <3>3, AppendLast, Zenon
    <3> QED  BY <2>1, <2>2, <2>4, <3>4, <3>5, Zenon
  <2>6. CASE ~StartsBlock(lines, n, median)
    <3>1. before # <<>>
      BY <1>1, <2>2, <2>6 DEF StartsBlock
    <3>2. f[n] = WithLine(before, lines[n])
      BY <1>2, <2>6
    <3> HIDE DEF before
    <3>3. Read(f[n]) = Read(before) \o <<lines[n].text>> /\ f[n] # <<>>
      BY <2>1, <3>1, <3>2, WithLineReads, Zenon
    <3>4. Wording(lines[n], median) = lines[n].text
      <4>1. KindOf(lines[n], median) # "list_item"
        BY <2>6 DEF StartsBlock
      <4> QED  BY <2>1, <4>1, WordingText, Zenon
    <3> QED  BY <2>1, <2>2, <2>4, <3>3, <3>4, Zenon
  <2> QED  BY <2>5, <2>6
<1>5. N \in Told
  <2> HIDE DEF Told
  <2>1. \A n \in 0..N : n \in Told
    BY <1>1, <1>3, <1>4, UpTo
  <2> QED  BY <1>1, <2>1
<1>6. First(t, N) = t
  BY <1>1, FirstOfAll, Zenon
<1>7. f[N] \in Seq(TextBlock)
  BY <1>1, <1>2
<1> QED  BY <1>2, <1>5, <1>6, <1>7 DEF t

\* A line that goes on with the last block changes its text only.
LEMMA WithLineKinds ==
    ASSUME NEW blocks \in Seq(TextBlock), blocks # <<>>, NEW line
    PROVE  LET u == WithLine(blocks, line) IN
           /\ DOMAIN u = DOMAIN blocks
           /\ \A k \in DOMAIN blocks : /\ u[k].kind = blocks[k].kind
                                       /\ k # Len(blocks) => u[k] = blocks[k]
<1> DEFINE n == Len(blocks)
           longer == [blocks[n] EXCEPT !.text = Append(@, line.text)]
<1>1. n \in DOMAIN blocks /\ blocks[n] \in TextBlock
  OBVIOUS
<1>2. longer.kind = blocks[n].kind
  BY <1>1 DEF TextBlock
<1>3. WithLine(blocks, line) = [blocks EXCEPT ![n] = longer]
  BY DEF WithLine
<1> HIDE DEF longer, n
<1> QED  BY <1>1, <1>2, <1>3 DEF n

\* Only a paragraph goes on with another line.
LEMMA TextBlocksSingle ==
    ASSUME NEW L, \A l \in L : l.text \in Texts, NEW lines \in Seq(L), NEW median
    PROVE  HeadingsSingle(TextBlocks(lines, median))
<1> DEFINE N == Len(lines)
<1>1. N \in Nat /\ \A n \in 1..N : lines[n].text \in Texts
  OBVIOUS
<1>2. PICK f \in [0..N -> Seq(TextBlock)] :
          /\ f[0] = <<>>
          /\ \A n \in 1..N :
                f[n] = IF StartsBlock(lines, n, median)
                       THEN Append(f[n - 1], BlockOf(lines[n], median))
                       ELSE WithLine(f[n - 1], lines[n])
          /\ TextBlocks(lines, median) = f[N]
  BY TextBlocksSteps, Zenon
<1> DEFINE EndsWith(blocks, kind) == blocks # <<>> /\ blocks[Len(blocks)].kind = kind
           Single == {n \in 0..N : /\ HeadingsSingle(f[n])
                                   /\ n = 0 \/ EndsWith(f[n], KindOf(lines[n], median))}
<1>3. 0 \in Single
  BY <1>1, <1>2 DEF HeadingsSingle
<1>4. ASSUME NEW n \in 1..N, n - 1 \in Single
      PROVE  n \in Single
  <2> DEFINE before == f[n - 1]
  <2>1. n \in 0..N /\ n - 1 \in 0..N /\ before \in Seq(TextBlock) /\ lines[n].text \in Texts
    BY <1>1, <1>2, <1>4
  <2>2. /\ HeadingsSingle(before)
        /\ n - 1 = 0 \/ EndsWith(before, KindOf(lines[n - 1], median))
    BY <1>4
  <2>3. CASE StartsBlock(lines, n, median)
    <3> DEFINE b == BlockOf(lines[n], median)
    <3>1. b \in TextBlock
      BY <2>1, BlockOfLine, Zenon
    <3>2. b.kind = KindOf(lines[n], median) /\ Len(b.text) = 1
      BY DEF BlockOf, Block
    <3>3. f[n] = Append(before, b)
      BY <1>2, <2>3
    <3> HIDE DEF b, before
    <3>4. /\ HeadingsSingle(Append(before, b)) /\ Append(before, b) # <<>>
          /\ Append(before, b)[Len(Append(before, b))] = b
      BY <2>1, <2>2, <3>1, <3>2, SingleAppend, Zenon
    <3>5. HeadingsSingle(f[n]) /\ EndsWith(f[n], KindOf(lines[n], median))
      BY <3>2, <3>3, <3>4, Zenon
    <3> QED  BY <2>1, <3>5
  <2>4. CASE ~StartsBlock(lines, n, median)
    <3>1. /\ n # 1 /\ KindOf(lines[n], median) = "paragraph"
          /\ KindOf(lines[n - 1], median) = "paragraph"
      BY <2>4 DEF StartsBlock
    <3>2. EndsWith(before, "paragraph")
      BY <2>1, <2>2, <3>1
    <3>3. f[n] = WithLine(before, lines[n])
      BY <1>2, <2>4
    <3> HIDE DEF before
    <3>4. /\ DOMAIN f[n] = DOMAIN before
          /\ \A k \in DOMAIN before : /\ f[n][k].kind = before[k].kind
                                      /\ k # Len(before) => f[n][k] = before[k]
      <4>1. /\ DOMAIN WithLine(before, lines[n]) = DOMAIN before
            /\ \A k \in DOMAIN before :
                  /\ WithLine(before, lines[n])[k].kind = before[k].kind
                  /\ k # Len(before) => WithLine(before, lines[n])[k] = before[k]
        BY <2>1, <3>2, WithLineKinds, Zenon
      <4> QED  BY <3>3, <4>1, Zenon
    <3>5. HeadingsSingle(f[n])
      BY <2>2, <3>2, <3>4 DEF HeadingsSingle
    <3>6. EndsWith(f[n], "paragraph")
      <4>1. f[n] \in Seq(TextBlock)
        BY <1>2, <2>1
      <4>2. Len(f[n]) = Len(before) /\ Len(before) \in DOMAIN before
        BY <2>1, <3>2, <3>4, <4>1
      <4> QED  BY <3>2, <3>4, <4>1, <4>2
    <3> QED  BY <2>1, <3>1, <3>5, <3>6
  <2> QED  BY <2>3, <2>4
<1>5. N \in Single
  <2> HIDE DEF Single
  <2>1. \A n \in 0..N : n \in Single
    BY <1>1, <1>3, <1>4, UpTo
  <2> QED  BY <1>1, <2>1
<1> QED  BY <1>2, <1>5

-----------------------------------------------------------------------------
(* The sections of a book. *)

SectionRecord == {s \in [page : Nat, blocks : Seq(AnyBlock)] : HeadingsSingle(s.blocks)}

ReadAll(sections) == FlattenSeq([k \in DOMAIN sections |-> TextOf(sections[k])])

SectionSayings(sections) == [k \in DOMAIN sections |-> TextOf(sections[k])]

LEMMA TextOfSection ==
    ASSUME NEW section \in SectionRecord
    PROVE  TextOf(section) = Read(section.blocks) /\ TextOf(section) \in Seq(Texts)
<1>1. TextOf(section) = Read(section.blocks)
  BY DEF TextOf, Read, Sayings
<1>2. section.blocks \in Seq(AnyBlock)
  BY DEF SectionRecord
<1> QED  BY <1>1, <1>2, ReadTexts, Zenon

LEMMA SectionSequence ==
    ASSUME NEW sections \in Seq(SectionRecord)
    PROVE  /\ SectionSayings(sections) \in Seq(Seq(Texts))
           /\ Len(SectionSayings(sections)) = Len(sections)
           /\ \A k \in 1..Len(sections) : SectionSayings(sections)[k] = TextOf(sections[k])
<1>1. SectionSayings(sections) = [k \in 1..Len(sections) |-> TextOf(sections[k])]
  BY DEF SectionSayings
<1>2. \A k \in 1..Len(sections) : TextOf(sections[k]) \in Seq(Texts)
  BY TextOfSection
<1> QED  BY <1>1, <1>2

LEMMA ReadAllAppend ==
    ASSUME NEW sections \in Seq(SectionRecord), NEW section \in SectionRecord
    PROVE  ReadAll(Append(sections, section)) = ReadAll(sections) \o Read(section.blocks)
<1> DEFINE u == SectionSayings(Append(sections, section))
           s == SectionSayings(sections)
           n == Len(sections)
<1>1. Append(sections, section) \in Seq(SectionRecord)
  OBVIOUS
<1>2. /\ u \in Seq(Seq(Texts)) /\ Len(u) = Len(Append(sections, section))
      /\ \A k \in 1..Len(Append(sections, section)) : u[k] = TextOf(Append(sections, section)[k])
  BY <1>1, SectionSequence, Zenon
<1>3. s \in Seq(Seq(Texts)) /\ Len(s) = n /\ \A k \in 1..n : s[k] = TextOf(sections[k])
  BY SectionSequence, Zenon
<1>4. TextOf(section) = Read(section.blocks) /\ TextOf(section) \in Seq(Texts)
  BY TextOfSection, Zenon
<1>5. /\ n \in Nat /\ Len(Append(sections, section)) = n + 1
      /\ Append(sections, section)[n + 1] = section
      /\ \A k \in 1..n : Append(sections, section)[k] = sections[k]
  OBVIOUS
<1>6. ReadAll(Append(sections, section)) = FlattenSeq(u) /\ ReadAll(sections) = FlattenSeq(s)
  BY DEF ReadAll, SectionSayings
<1> HIDE DEF u, s, n
<1>7. Len(u) = Len(s) + 1 /\ u[Len(s) + 1] = TextOf(section) /\ \A k \in 1..Len(s) : u[k] = s[k]
  <2>1. n + 1 \in 1..(n + 1) /\ \A k \in 1..n : k \in 1..(n + 1)
    BY <1>5
  <2>2. /\ \A k \in 1..(n + 1) : u[k] = TextOf(Append(sections, section)[k])
        /\ Len(u) = n + 1
    BY <1>2, <1>5
  <2> QED  BY <1>3, <1>5, <2>1, <2>2
<1>8. u = Append(s, TextOf(section))
  BY <1>2, <1>3, <1>4, <1>7, AppendIs, Zenon
<1> QED  BY <1>3, <1>4, <1>6, <1>8, FlattenAppend, Zenon

LEMMA ReadAllTexts ==
    ASSUME NEW sections \in Seq(SectionRecord) PROVE ReadAll(sections) \in Seq(Texts)
<1>1. ReadAll(sections) = FlattenSeq(SectionSayings(sections))
  BY DEF ReadAll, SectionSayings
<1> QED  BY <1>1, SectionSequence, FlattenType, Zenon

LEMMA ReadAllNone == ReadAll(<<>>) = <<>>
<1>1. [k \in DOMAIN <<>> |-> TextOf(<<>>[k])] = <<>>
  OBVIOUS
<1> QED  BY <1>1, FlattenNone DEF ReadAll

\* A paragraph that goes on with another one.
LEMMA JoinedReads ==
    ASSUME NEW blocks \in Seq(AnyBlock), blocks # <<>>, Last(blocks).kind = "paragraph",
           NEW b \in AnyBlock, b.kind = "paragraph"
    PROVE  LET joined == Append(Front(blocks), [Last(blocks) EXCEPT !.text = @ \o b.text])
           IN /\ joined \in Seq(AnyBlock) /\ Read(joined) = Read(blocks) \o Says(b)
              /\ HeadingsSingle(blocks) => HeadingsSingle(joined)
<1> DEFINE front == Front(blocks)
           last == Last(blocks)
           longer == [last EXCEPT !.text = @ \o b.text]
<1>1. front \in Seq(AnyBlock) /\ last \in AnyBlock /\ Append(front, last) = blocks
  BY FrontLast, Zenon
<1>2. last \in TextBlock /\ b \in TextBlock
  BY <1>1 DEF AnyBlock, ImageBlock
<1> HIDE DEF front, last
<1>3. /\ longer \in AnyBlock /\ Says(last) = last.text /\ Says(b) = b.text
      /\ Says(longer) = last.text \o b.text /\ last.text \in Seq(Texts) /\ b.text \in Seq(Texts)
      /\ longer.kind = "paragraph"
  <2>1. last.text \in Seq(Texts) /\ b.text \in Seq(Texts)
    BY <1>2 DEF TextBlock
  <2>2. last.text \o b.text \in Seq(Texts)
    BY <2>1
  <2>3. PICK all, text : all = Seq(Texts) /\ text = last.text \o b.text
    OBVIOUS
  <2>4. last \in [kind : TextKinds, text : all, level : 0..3]
    BY <1>2, <2>3 DEF TextBlock
  <2>5. longer = [last EXCEPT !.text = text]
    BY <2>3
  <2>6. text \in all
    BY <2>2, <2>3, Zenon
  <2>7. /\ longer \in [kind : TextKinds, text : all, level : 0..3]
        /\ longer.text = text /\ longer.kind = last.kind
    BY <2>4, <2>5, <2>6
  <2>8. longer \in AnyBlock
    BY <2>3, <2>7 DEF AnyBlock, TextBlock
  <2>9. last.kind = "paragraph"
    BY DEF last
  <2> QED  BY <2>1, <2>3, <2>7, <2>8, <2>9 DEF Says
<1> HIDE DEF longer
<1>4. /\ Read(Append(front, longer)) = Read(front) \o (last.text \o b.text)
      /\ Read(blocks) = Read(front) \o last.text
  BY <1>1, <1>3, ReadAppend, Zenon
<1>5. Read(front) \in Seq(Texts)
  BY <1>1, ReadTexts, Zenon
<1>6. PICK x \in Seq(Texts), y \in Seq(Texts), z \in Seq(Texts) :
          x = Read(front) /\ y = last.text /\ z = b.text
  BY <1>3, <1>5, Zenon
<1>7. (x \o y) \o z = x \o (y \o z)
  OBVIOUS
<1>8. Append(front, longer) \in Seq(AnyBlock)
  BY <1>1, <1>3
<1>9. ASSUME HeadingsSingle(blocks) PROVE HeadingsSingle(Append(front, longer))
  <2>1. HeadingsSingle(front)
    BY <1>9, SingleFront, Zenon DEF front
  <2>2. longer.kind # "heading"
    BY <1>3
  <2> QED  BY <1>1, <1>3, <2>1, <2>2, SingleAppend, Zenon
<1> QED  BY <1>3, <1>4, <1>6, <1>7, <1>8, <1>9, Zenon DEF front, last, longer

\* Joined or not, nothing is lost or moved.
LEMMA WithSectionReads ==
    ASSUME NEW sections \in Seq(SectionRecord), NEW section \in SectionRecord
    PROVE  LET u == WithSection(sections, section) IN
           /\ u \in Seq(SectionRecord) /\ Len(u) = Len(sections) + 1
           /\ \A k \in 1..Len(sections) : u[k].page = sections[k].page
           /\ u[Len(sections) + 1].page = section.page
           /\ ReadAll(u) = ReadAll(sections) \o Read(section.blocks)
<1> DEFINE n == Len(sections)
           last == sections[n].blocks
           blocks == section.blocks
           Joined == /\ n > 0 /\ section.blocks # <<>> /\ Head(section.blocks).kind = "paragraph"
                     /\ last # <<>> /\ Last(last).kind = "paragraph"
           u == WithSection(sections, section)
<1>1. n \in Nat /\ blocks \in Seq(AnyBlock) /\ section.page \in Nat /\ HeadingsSingle(blocks)
  BY DEF SectionRecord
<1>2. CASE ~Joined
  <2>1. u = Append(sections, section)
    BY <1>2 DEF WithSection
  <2>2. /\ Append(sections, section) \in Seq(SectionRecord)
        /\ Len(Append(sections, section)) = n + 1
        /\ \A k \in 1..n : Append(sections, section)[k] = sections[k]
        /\ Append(sections, section)[n + 1] = section
    OBVIOUS
  <2>3. ReadAll(Append(sections, section)) = ReadAll(sections) \o Read(section.blocks)
    BY ReadAllAppend, Zenon
  <2> QED  BY <2>1, <2>2, <2>3
<1>3. CASE Joined
  <2> DEFINE joined == Append(Front(last), [Last(last) EXCEPT !.text = @ \o Head(blocks).text])
             changed == [sections EXCEPT ![n].blocks = joined]
             longer == [sections[n] EXCEPT !.blocks = joined]
             front == Front(sections)
  <2>1. u = Append(changed, Rest(section))
    BY <1>3 DEF WithSection
  <2>2. sections # <<>> /\ n \in 1..n
    BY <1>1, <1>3
  <2>3. /\ front \in Seq(SectionRecord) /\ sections[n] \in SectionRecord
        /\ Len(front) = n - 1 /\ \A k \in 1..(n - 1) : front[k] = sections[k]
        /\ Append(front, sections[n]) = sections
    BY <2>2, FrontLast, Zenon
  <2>4. last \in Seq(AnyBlock) /\ HeadingsSingle(last)
    BY <2>3 DEF SectionRecord
  <2>5. /\ Tail(blocks) \in Seq(AnyBlock) /\ Head(blocks) \in AnyBlock
        /\ Read(blocks) = Says(Head(blocks)) \o Read(Tail(blocks))
        /\ HeadingsSingle(Tail(blocks))
    BY <1>1, <1>3, ReadHead, SingleTail, Zenon
  <2>6. /\ joined \in Seq(AnyBlock) /\ Read(joined) = Read(last) \o Says(Head(blocks))
        /\ HeadingsSingle(joined)
    BY <1>3, <2>4, <2>5, JoinedReads, Zenon
  <2> HIDE DEF joined, front, n
  <2>7. /\ longer \in SectionRecord /\ longer.page = sections[n].page /\ longer.blocks = joined
        /\ Rest(section) \in SectionRecord /\ Rest(section).page = section.page
        /\ Rest(section).blocks = Tail(blocks)
    <3>1. PICK all, tail : all = Seq(AnyBlock) /\ tail = Tail(blocks)
      OBVIOUS
    <3>2. SectionRecord = {s \in [page : Nat, blocks : all] : HeadingsSingle(s.blocks)}
      BY <3>1 DEF SectionRecord
    <3>3. tail \in all /\ joined \in all /\ HeadingsSingle(tail) /\ HeadingsSingle(joined)
      BY <2>5, <2>6, <3>1, Zenon
    <3>4. Rest(section) = [section EXCEPT !.blocks = tail]
      BY <3>1 DEF Rest
    <3>5. Rest(section) \in SectionRecord /\ Rest(section).page = section.page
          /\ Rest(section).blocks = tail
      BY <3>2, <3>3, <3>4
    <3>6. longer \in SectionRecord /\ longer.page = sections[n].page /\ longer.blocks = joined
      BY <2>3, <3>2, <3>3
    <3> QED  BY <3>1, <3>5, <3>6
  <2>8. changed = [sections EXCEPT ![n] = longer]
    OBVIOUS
  <2> HIDE DEF longer, changed
  <2>9. /\ changed \in Seq(SectionRecord) /\ Len(changed) = n
        /\ \A k \in 1..n : changed[k] = IF k = n THEN longer ELSE sections[k]
    <3>1. /\ [sections EXCEPT ![n] = longer] \in Seq(SectionRecord)
          /\ Len([sections EXCEPT ![n] = longer]) = n
          /\ \A k \in 1..n : [sections EXCEPT ![n] = longer][k] = IF k = n THEN longer ELSE sections[k]
      BY <2>2, <2>7 DEF n
    <3> QED  BY <2>8, <3>1, Zenon
  <2>10. changed = Append(front, longer)
    <3>1. /\ Len(changed) = Len(front) + 1 /\ changed[Len(front) + 1] = longer
          /\ \A k \in 1..Len(front) : changed[k] = front[k]
      BY <1>1, <2>2, <2>3, <2>9
    <3> QED  BY <2>3, <2>7, <2>9, <3>1, AppendIs, Zenon
  <2>11. /\ ReadAll(changed) = ReadAll(front) \o Read(joined)
         /\ ReadAll(sections) = ReadAll(front) \o Read(last)
         /\ ReadAll(Append(changed, Rest(section))) = ReadAll(changed) \o Read(Tail(blocks))
    BY <2>3, <2>7, <2>9, <2>10, ReadAllAppend, Zenon
  <2>12. /\ ReadAll(front) \in Seq(Texts) /\ Read(last) \in Seq(Texts)
         /\ Says(Head(blocks)) \in Seq(Texts) /\ Read(Tail(blocks)) \in Seq(Texts)
    BY <2>3, <2>4, <2>5, ReadAllTexts, ReadTexts, SaysTexts, Zenon
  <2>13. PICK a \in Seq(Texts), b \in Seq(Texts), c \in Seq(Texts), d \in Seq(Texts) :
             /\ a = ReadAll(front) /\ b = Read(last)
             /\ c = Says(Head(blocks)) /\ d = Read(Tail(blocks))
    BY <2>12, Zenon
  <2>14. (a \o (b \o c)) \o d = (a \o b) \o (c \o d)
    OBVIOUS
  <2>15. ReadAll(u) = ReadAll(sections) \o Read(blocks)
    BY <2>1, <2>5, <2>6, <2>11, <2>13, <2>14, Zenon
  <2>16. /\ Append(changed, Rest(section)) \in Seq(SectionRecord)
         /\ Len(Append(changed, Rest(section))) = n + 1
         /\ \A k \in 1..n : Append(changed, Rest(section))[k] = changed[k]
         /\ Append(changed, Rest(section))[n + 1] = Rest(section)
    BY <2>7, <2>9
  <2>17. \A k \in 1..n : changed[k].page = sections[k].page
    BY <2>7, <2>9
  <2> QED  BY <2>1, <2>7, <2>15, <2>16, <2>17 DEF n
<1> QED  BY <1>2, <1>3

\* The sections come about page by page.
LEMMA SectionsSteps ==
    ASSUME NEW pages1, Len(pages1) \in Nat,
           \A p \in 1..Len(pages1) : Section(pages1, p) \in SectionRecord
    PROVE  \E f \in [0..Len(pages1) -> Seq(SectionRecord)] :
              /\ f[0] = <<>>
              /\ \A n \in 1..Len(pages1) : f[n] = WithSection(f[n - 1], Section(pages1, n))
              /\ Sections(pages1) = f[Len(pages1)]
<1> DEFINE N == Len(pages1)
           step == [n \in 1..N |-> [v \in Seq(SectionRecord) |-> WithSection(v, Section(pages1, n))]]
<1>1. PICK f \in [0..N -> Seq(SectionRecord)] : f[0] = <<>> /\ Takes(f, step, N)
  <2>1. ASSUME NEW n \in 1..N, NEW v \in Seq(SectionRecord)
        PROVE  WithSection(v, Section(pages1, n)) \in Seq(SectionRecord)
    BY WithSectionReads, Zenon
  <2>2. Steps(step, N, Seq(SectionRecord))
    BY <2>1 DEF Steps
  <2>3. <<>> \in Seq(SectionRecord)
    OBVIOUS
  <2> HIDE DEF step
  <2> QED  BY <2>2, <2>3, Recursion
<1>2. ASSUME NEW n \in 1..N
      PROVE  f[n] = WithSection(f[n - 1], Section(pages1, n))
  <2>1. n - 1 \in 0..N
    OBVIOUS
  <2> QED  BY <1>1, <2>1 DEF Takes
<1> DEFINE Builds(g) == g = [n \in 0..N |-> IF n = 0 THEN <<>>
                                            ELSE WithSection(g[n - 1], Section(pages1, n))]
           g == CHOOSE h : Builds(h)
<1>3. Sections(pages1) = g[N]
  BY DEF Sections
<1>4. Builds(f)
  BY <1>1, <1>2
<1>5. Builds(g)
  BY <1>4
<1> HIDE DEF g
<1> DEFINE Same == {n \in 0..N : f[n] = g[n]}
<1>6. N \in Same
  <2>1. 0 \in Same
    BY <1>1, <1>5
  <2>2. ASSUME NEW n \in 1..N, n - 1 \in Same PROVE n \in Same
    <3>1. n \in 0..N /\ n # 0
      OBVIOUS
    <3>2. g[n] = WithSection(g[n - 1], Section(pages1, n))
      BY <1>5, <3>1
    <3> QED  BY <1>2, <2>2, <3>1, <3>2, Zenon
  <2> HIDE DEF Same
  <2>3. \A n \in 0..N : n \in Same
    BY <2>1, <2>2, UpTo
  <2> QED  BY <2>3
<1> QED  BY <1>1, <1>2, <1>3, <1>6

\* One section for every page, in order, that together say what the pages say.
LEMMA SectionsRead ==
    ASSUME NEW pages1, Len(pages1) \in Nat,
           \A p \in 1..Len(pages1) : Section(pages1, p) \in SectionRecord
    PROVE  /\ Sections(pages1) \in Seq(SectionRecord) /\ Len(Sections(pages1)) = Len(pages1)
           /\ \A k \in 1..Len(pages1) : Sections(pages1)[k].page = k
           /\ ReadAll(Sections(pages1))
                  = FlattenSeq([p \in 1..Len(pages1) |-> Read(Section(pages1, p).blocks)])
<1> DEFINE N == Len(pages1)
           said == [p \in 1..N |-> Read(Section(pages1, p).blocks)]
<1>1. PICK f \in [0..N -> Seq(SectionRecord)] :
          /\ f[0] = <<>> /\ \A n \in 1..N : f[n] = WithSection(f[n - 1], Section(pages1, n))
          /\ Sections(pages1) = f[N]
  BY SectionsSteps, Zenon
<1>2. said \in Seq(Seq(Texts)) /\ Len(said) = N
  <2>1. ASSUME NEW p \in 1..N PROVE Read(Section(pages1, p).blocks) \in Seq(Texts)
    BY TextOfSection
  <2> QED  BY <2>1
<1>3. \A n \in 1..N : FlattenSeq(First(said, n)) = FlattenSeq(First(said, n - 1)) \o said[n]
  BY <1>2, FlattenFirst, Zenon
<1>4. FlattenSeq(First(said, N)) = FlattenSeq(said) /\ FlattenSeq(First(said, 0)) = <<>>
  BY <1>2, FlattenFirst, Zenon
<1> DEFINE Told == {n \in 0..N : /\ Len(f[n]) = n /\ \A k \in 1..n : f[n][k].page = k
                                 /\ ReadAll(f[n]) = FlattenSeq(First(said, n))}
<1>5. 0 \in Told
  BY <1>1, <1>4, ReadAllNone
<1>6. ASSUME NEW n \in 1..N, n - 1 \in Told PROVE n \in Told
  <2> DEFINE before == f[n - 1]
             section == Section(pages1, n)
  <2>1. before \in Seq(SectionRecord) /\ section \in SectionRecord /\ section.page = n
    <3>1. n - 1 \in 0..N
      OBVIOUS
    <3> QED  BY <1>1, <3>1 DEF Section
  <2>2. /\ Len(before) = n - 1 /\ \A k \in 1..(n - 1) : before[k].page = k
        /\ ReadAll(before) = FlattenSeq(First(said, n - 1))
    BY <1>6
  <2>3. f[n] = WithSection(before, section) /\ said[n] = Read(section.blocks)
    BY <1>1
  <2> HIDE DEF before, section, said
  <2>4. /\ Len(f[n]) = Len(before) + 1
        /\ \A k \in 1..Len(before) : f[n][k].page = before[k].page
        /\ f[n][Len(before) + 1].page = section.page
        /\ ReadAll(f[n]) = ReadAll(before) \o Read(section.blocks)
    <3> DEFINE u == WithSection(before, section)
    <3>1. /\ Len(u) = Len(before) + 1
          /\ \A k \in 1..Len(before) : u[k].page = before[k].page
          /\ u[Len(before) + 1].page = section.page
          /\ ReadAll(u) = ReadAll(before) \o Read(section.blocks)
      BY <2>1, WithSectionReads, Zenon
    <3> QED  BY <2>3, <3>1
  <2>5. Len(f[n]) = n /\ \A k \in 1..n : f[n][k].page = k
    BY <2>1, <2>2, <2>4
  <2>6. ReadAll(f[n]) = FlattenSeq(First(said, n))
    BY <1>3, <2>2, <2>3, <2>4, Zenon
  <2>7. n \in 0..N
    OBVIOUS
  <2> QED  BY <2>5, <2>6, <2>7
<1>7. N \in Told
  <2> HIDE DEF Told
  <2>1. \A n \in 0..N : n \in Told
    BY <1>5, <1>6, UpTo
  <2> QED  BY <2>1
<1>8. f[N] \in Seq(SectionRecord)
  BY <1>1
<1> QED  BY <1>1, <1>4, <1>7, <1>8

-----------------------------------------------------------------------------
(* What the lines of a page say. *)

LEMMA LetteringJoined ==
    ASSUME NEW T, \A l \in T : l.text \in Texts, NEW a \in Seq(T), NEW b \in Seq(T)
    PROVE  Lettering(a \o b) = Lettering(a) \o Lettering(b)
<1> DEFINE u == Lettering(a \o b)
           s == Lettering(a)
           t == Lettering(b)
<1>1. a \o b \in Seq(T)
  OBVIOUS
<1>2. /\ u \in Seq(Texts) /\ Len(u) = Len(a \o b)
      /\ \A k \in 1..Len(a \o b) : u[k] = (a \o b)[k].text
  BY <1>1, LetteringTexts, Zenon
<1>3. /\ s \in Seq(Texts) /\ Len(s) = Len(a) /\ \A k \in 1..Len(a) : s[k] = a[k].text
      /\ t \in Seq(Texts) /\ Len(t) = Len(b) /\ \A k \in 1..Len(b) : t[k] = b[k].text
  BY LetteringTexts, Zenon
<1>4. /\ Len(a \o b) = Len(a) + Len(b) /\ Len(a) \in Nat /\ Len(b) \in Nat
      /\ \A k \in 1..(Len(a) + Len(b)) :
            (a \o b)[k] = IF k <= Len(a) THEN a[k] ELSE b[k - Len(a)]
  OBVIOUS
<1> HIDE DEF u, s, t
<1>5. ASSUME NEW k \in 1..Len(u)
      PROVE  u[k] = IF k <= Len(s) THEN s[k] ELSE t[k - Len(s)]
  <2>1. k \in 1..(Len(a) + Len(b)) /\ u[k] = (a \o b)[k].text
    BY <1>2, <1>4
  <2>2. CASE k <= Len(a)
    <3>1. k \in 1..Len(a)
      BY <1>4, <2>1, <2>2
    <3> QED  BY <1>3, <1>4, <2>1, <2>2, <3>1
  <2>3. CASE ~(k <= Len(a))
    <3>1. k - Len(a) \in 1..Len(b)
      BY <1>4, <2>1, <2>3
    <3> QED  BY <1>3, <1>4, <2>1, <2>3, <3>1
  <2> QED  BY <2>2, <2>3
<1>6. Joins(u, s, t)
  BY <1>2, <1>3, <1>4, <1>5 DEF Joins
<1>7. u = s \o t
  BY <1>2, <1>3, <1>6, ConcatIs, Zenon
<1> QED  BY <1>7 DEF u, s, t

\* Lines taken from sequences of lines say what those say.
LEMMA LetteringFlatten ==
    ASSUME NEW T, \A l \in T : l.text \in Texts, NEW s \in Seq(Seq(T))
    PROVE  Lettering(FlattenSeq(s)) = FlattenSeq([i \in 1..Len(s) |-> Lettering(s[i])])
<1> DEFINE N == Len(s)
           t == [i \in 1..N |-> Lettering(s[i])]
<1>1. N \in Nat
  OBVIOUS
<1>2. t \in Seq(Seq(Texts)) /\ Len(t) = N
  <2>1. ASSUME NEW i \in 1..N PROVE Lettering(s[i]) \in Seq(Texts)
    <3>1. s[i] \in Seq(T)
      OBVIOUS
    <3> QED  BY <3>1, LetteringTexts, Zenon
  <2> QED  BY <1>1, <2>1
<1>3. /\ \A n \in 1..N : FlattenSeq(First(t, n)) = FlattenSeq(First(t, n - 1)) \o t[n]
      /\ FlattenSeq(First(t, N)) = FlattenSeq(t) /\ FlattenSeq(First(t, 0)) = <<>>
  BY <1>2, FlattenFirst, Zenon
<1>4. /\ \A n \in 1..N : FlattenSeq(First(s, n)) = FlattenSeq(First(s, n - 1)) \o s[n]
      /\ FlattenSeq(First(s, N)) = FlattenSeq(s) /\ FlattenSeq(First(s, 0)) = <<>>
  BY FlattenFirst, Zenon
<1> DEFINE Told == {n \in 0..N : Lettering(FlattenSeq(First(s, n))) = FlattenSeq(First(t, n))}
<1>5. 0 \in Told
  <2>1. Lettering(<<>>) = <<>>
    BY DEF Lettering
  <2> QED  BY <1>3, <1>4, <2>1
<1>6. ASSUME NEW n \in 1..N, n - 1 \in Told PROVE n \in Told
  <2>1. First(s, n - 1) \in Seq(Seq(T)) /\ s[n] \in Seq(T)
    BY FirstStep, Zenon
  <2>2. PICK a \in Seq(T), b \in Seq(T) : a = FlattenSeq(First(s, n - 1)) /\ b = s[n]
    BY <2>1, FlattenType, Zenon
  <2>3. Lettering(a \o b) = Lettering(a) \o Lettering(b)
    BY LetteringJoined, Zenon
  <2>4. t[n] = Lettering(b) /\ n \in 0..N /\ Lettering(a) = FlattenSeq(First(t, n - 1))
    BY <1>6, <2>2
  <2>5. Lettering(FlattenSeq(First(s, n))) = FlattenSeq(First(t, n))
    BY <1>3, <1>4, <2>2, <2>3, <2>4, Zenon
  <2> QED  BY <2>4, <2>5
<1>7. N \in Told
  <2> HIDE DEF Told
  <2>1. \A n \in 0..N : n \in Told
    BY <1>1, <1>5, <1>6, UpTo
  <2> QED  BY <1>1, <2>1
<1> QED  BY <1>3, <1>4, <1>7

\* Lines that are taken or dropped one by one, and their texts.
Picked(N, item, drop) == [i \in 1..N |-> IF i \in drop THEN <<>> ELSE <<item[i]>>]

PickedTexts(N, item, drop) == [i \in 1..N |-> IF i \in drop THEN <<>> ELSE <<item[i].text>>]

LEMMA LetteringPicked ==
    ASSUME NEW N \in Nat, NEW T, \A l \in T : l.text \in Texts, NEW item \in [1..N -> T], NEW drop
    PROVE  /\ FlattenSeq(Picked(N, item, drop)) \in Seq(T)
           /\ Lettering(FlattenSeq(Picked(N, item, drop))) = FlattenSeq(PickedTexts(N, item, drop))
<1> DEFINE s == Picked(N, item, drop)
           t == PickedTexts(N, item, drop)
<1> USE DEF Picked, PickedTexts
<1>1. s \in Seq(Seq(T)) /\ Len(s) = N
  <2>1. ASSUME NEW i \in 1..N PROVE s[i] \in Seq(T)
    OBVIOUS
  <2> QED  BY <2>1
<1>2. t = [i \in 1..Len(s) |-> Lettering(s[i])]
  <2>1. ASSUME NEW i \in 1..N PROVE t[i] = Lettering(s[i])
    BY DEF Lettering
  <2> QED  BY <1>1, <2>1
<1> HIDE DEF s, t
<1>3. FlattenSeq(s) \in Seq(T)
  BY <1>1, FlattenType, Zenon
<1>4. Lettering(FlattenSeq(s)) = FlattenSeq([i \in 1..Len(s) |-> Lettering(s[i])])
  BY <1>1, LetteringFlatten, Zenon
<1> QED  BY <1>2, <1>3, <1>4, Zenon DEF s, t

\* Lines are known by their texts.
IsLines(lines) == \E L : (\A l \in L : l.text \in Texts) /\ lines \in Seq(L)

\* What CleanLines leaves of texts.
CleanTexts(texts, repeated) ==
    FlattenSeq([i \in 1..Len(texts) |->
        IF texts[i] = Blank \/ (i \in {1, Len(texts)} /\ texts[i] \in PageNumbers \cup repeated)
        THEN <<>> ELSE <<texts[i]>>])

LEMMA CleanLinesRead ==
    ASSUME NEW lines, IsLines(lines), NEW repeated
    PROVE  /\ IsLines(CleanLines(lines, repeated))
           /\ Lettering(CleanLines(lines, repeated)) = CleanTexts(Lettering(lines), repeated)
<1>1. PICK L : (\A l \in L : l.text \in Texts) /\ lines \in Seq(L)
  BY DEF IsLines
<1> DEFINE N == Len(lines)
           texts == Lettering(lines)
           drop == {i \in 1..N : Removed(lines, i, repeated)}
           s == Picked(N, lines, drop)
           t == PickedTexts(N, lines, drop)
<1>2. N \in Nat /\ lines \in [1..N -> L] /\ DOMAIN lines = 1..N
  BY <1>1
<1>3. texts \in Seq(Texts) /\ Len(texts) = N /\ \A i \in 1..N : texts[i] = lines[i].text
  BY <1>1, LetteringTexts, Zenon
<1>4. FlattenSeq(s) \in Seq(L) /\ Lettering(FlattenSeq(s)) = FlattenSeq(t)
  <2> HIDE DEF drop, N
  <2> QED  BY <1>1, <1>2, LetteringPicked, Zenon
<1>5. CleanLines(lines, repeated) = FlattenSeq(s)
  <2>1. [i \in DOMAIN lines |-> IF Removed(lines, i, repeated) THEN <<>> ELSE <<lines[i]>>] = s
    BY <1>2 DEF Picked
  <2> HIDE DEF s
  <2> QED  BY <2>1 DEF CleanLines
<1>6. t = [i \in 1..Len(texts) |->
              IF texts[i] = Blank \/ (i \in {1, Len(texts)} /\ texts[i] \in PageNumbers \cup repeated)
              THEN <<>> ELSE <<texts[i]>>]
  <2> HIDE DEF texts
  <2>1. ASSUME NEW i \in 1..N
        PROVE  i \in drop <=> texts[i] = Blank \/ (i \in {1, Len(texts)} /\ texts[i] \in PageNumbers \cup repeated)
    BY <1>3 DEF Removed, AtMargin
  <2> HIDE DEF drop
  <2> QED  BY <1>3, <2>1 DEF PickedTexts
<1> QED  BY <1>1, <1>4, <1>5, <1>6 DEF IsLines, CleanTexts

\* The texts that begin or end enough of the pages, given as sequences of texts.
RepeatedTexts(all) ==
    LET Margins(texts) == {texts[i] : i \in {j \in 1..Len(texts) : j \in {1, Len(texts)}}}
        Count(t) == Cardinality({p \in 1..Len(all) : t \in Margins(all[p])})
        fraction == (Len(all) * 3 + 4) \div 5
        threshold == IF fraction > 3 THEN fraction ELSE 3
    IN {t \in Texts \ {Blank} : Count(t) >= threshold}

LEMMA RepeatedMarginsRead ==
    ASSUME NEW P, NEW pages1 \in Seq(P), \A p \in 1..Len(pages1) : IsLines(pages1[p].lines)
    PROVE  RepeatedMargins(pages1) = RepeatedTexts([p \in 1..Len(pages1) |-> Lettering(pages1[p].lines)])
<1> DEFINE N == Len(pages1)
           all == [p \in 1..N |-> Lettering(pages1[p].lines)]
           Margins(page) == {page.lines[i].text : i \in {j \in DOMAIN page.lines : AtMargin(page.lines, j)}}
           Edges(texts) == {texts[i] : i \in {j \in 1..Len(texts) : j \in {1, Len(texts)}}}
<1>1. N \in Nat /\ DOMAIN pages1 = 1..N
  OBVIOUS
<1>2. Len(all) = N
  BY <1>1
<1>3. ASSUME NEW p \in 1..N PROVE Margins(pages1[p]) = Edges(all[p])
  <2> DEFINE lines == pages1[p].lines
  <2>1. PICK L : (\A l \in L : l.text \in Texts) /\ lines \in Seq(L)
    BY DEF IsLines
  <2>2. all[p] = Lettering(lines)
    OBVIOUS
  <2> HIDE DEF all
  <2>3. Len(all[p]) = Len(lines) /\ \A i \in 1..Len(lines) : all[p][i] = lines[i].text
    BY <2>1, <2>2, LetteringTexts, Zenon
  <2>4. DOMAIN lines = 1..Len(lines)
    BY <2>1
  <2>5. \A j : AtMargin(lines, j) <=> j \in {1, Len(lines)}
    BY DEF AtMargin
  <2> QED  BY <2>3, <2>4, <2>5
<1> HIDE DEF all
<1>4. \A t : {p \in DOMAIN pages1 : t \in Margins(pages1[p])} = {p \in 1..Len(all) : t \in Edges(all[p])}
  <2> HIDE DEF Margins, Edges
  <2> QED  BY <1>1, <1>2, <1>3
<1> QED  BY <1>2, <1>4 DEF RepeatedMargins, RepeatedTexts, all

\* The plain text of a page loses its blank lines, whatever its rectangles are.
LEMMA PlainTextRead ==
    ASSUME NEW text \in Seq(Texts), NEW rects
    PROVE  /\ IsLines(PlainTextToLines(text, rects))
           /\ Lettering(PlainTextToLines(text, rects))
                  = FlattenSeq([i \in DOMAIN text |-> IF text[i] = Blank THEN <<>> ELSE <<text[i]>>])
           /\ \A l \in ToSet(PlainTextToLines(text, rects)) : l.size = Looks(l.text, rects).size
<1> DEFINE PendingBreak(i) == /\ i > 1 /\ text[i - 1] = Blank
                              /\ \E k \in 1..(i - 2) : text[k] # Blank
           Line(i) == [text |-> text[i], size |-> Looks(text[i], rects).size,
                       breakBefore |-> PendingBreak(i) \/ Looks(text[i], rects).breakBefore]
           N == Len(text)
           item == [i \in 1..N |-> Line(i)]
           T == {Line(i) : i \in 1..N}
           drop == {i \in 1..N : text[i] = Blank}
           s == Picked(N, item, drop)
           t == PickedTexts(N, item, drop)
<1>1. N \in Nat /\ DOMAIN text = 1..N /\ \A i \in 1..N : text[i] \in Texts
  OBVIOUS
<1>2. \A i : Line(i).text = text[i] /\ Line(i).size = Looks(Line(i).text, rects).size
  OBVIOUS
<1>3. PlainTextToLines(text, rects)
          = FlattenSeq([i \in DOMAIN text |-> IF text[i] = Blank THEN <<>> ELSE <<Line(i)>>])
  BY DEF PlainTextToLines
<1> HIDE DEF Line
<1>4. (\A l \in T : l.text \in Texts) /\ item \in [1..N -> T]
  BY <1>1, <1>2
<1>5. /\ [i \in DOMAIN text |-> IF text[i] = Blank THEN <<>> ELSE <<Line(i)>>] = s
      /\ [i \in DOMAIN text |-> IF text[i] = Blank THEN <<>> ELSE <<text[i]>>] = t
  BY <1>1, <1>2 DEF Picked, PickedTexts
<1> HIDE DEF T, item, drop
<1>6. FlattenSeq(s) \in Seq(T) /\ Lettering(FlattenSeq(s)) = FlattenSeq(t)
  BY <1>1, <1>4, LetteringPicked, Zenon
<1> HIDE DEF s, t
<1>7. \A l \in T : l.size = Looks(l.text, rects).size
  BY <1>2 DEF T
<1>8. ToSet(FlattenSeq(s)) \subseteq T
  BY <1>6 DEF ToSet
<1> QED  BY <1>3, <1>4, <1>5, <1>6, <1>7, <1>8, Zenon DEF IsLines

-----------------------------------------------------------------------------
(* What a rebuilt book says. *)

IsPage(page) == IsLines(page.lines) /\ page.images \in Seq(STRING)

\* The texts of the pages, page by page.
PageTexts(pages1) == [p \in 1..Len(pages1) |-> Lettering(pages1[p].lines)]

LEMMA SectionRead ==
    ASSUME NEW P, NEW pages1 \in Seq(P), \A p \in 1..Len(pages1) : IsPage(pages1[p]),
           NEW p \in 1..Len(pages1)
    PROVE  /\ Section(pages1, p) \in SectionRecord
           /\ Read(Section(pages1, p).blocks)
                  = Wordings(CleanLines(pages1[p].lines, RepeatedMargins(pages1)), MedianSize(pages1))
<1> DEFINE repeated == RepeatedMargins(pages1)
           lines == CleanLines(pages1[p].lines, repeated)
           median == MedianSize(pages1)
           images == pages1[p].images
<1>1. IsLines(pages1[p].lines) /\ images \in Seq(STRING)
  BY DEF IsPage
<1>3. IsLines(lines)
  <2> HIDE DEF repeated
  <2> QED  BY <1>1, CleanLinesRead, Zenon
<1>4. Section(pages1, p) = [page |-> p, blocks |-> TextBlocks(lines, median) \o ImageBlocks(images)]
  BY DEF Section
<1> HIDE DEF repeated, lines, median, images
<1>5. PICK L : (\A l \in L : l.text \in Texts) /\ lines \in Seq(L)
  BY <1>3 DEF IsLines
<1>6. /\ TextBlocks(lines, median) \in Seq(TextBlock)
      /\ Read(TextBlocks(lines, median)) = Wordings(lines, median)
      /\ HeadingsSingle(TextBlocks(lines, median))
  BY <1>5, TextBlocksRead, TextBlocksSingle, Zenon
<1>7. ImageBlocks(images) \in Seq(AnyBlock) /\ Read(ImageBlocks(images)) = <<>>
  BY <1>1, ReadImages, Zenon
<1>8. PICK a \in Seq(AnyBlock), b \in Seq(AnyBlock) :
          a = TextBlocks(lines, median) /\ b = ImageBlocks(images)
  BY <1>6, <1>7 DEF AnyBlock
<1>9. Read(a \o b) = Read(a) \o Read(b) /\ Read(a) \in Seq(Texts)
  BY ReadConcat, ReadTexts, Zenon
<1>10. Read(a) \o <<>> = Read(a)
  BY <1>9
<1>11. [page |-> p, blocks |-> a \o b] \in SectionRecord
  <2>1. a \o b \in Seq(AnyBlock) /\ p \in Nat
    OBVIOUS
  <2>2. HeadingsSingle(b)
    BY <1>8 DEF HeadingsSingle, ImageBlocks, Block
  <2>3. HeadingsSingle(a \o b)
    BY <1>6, <1>8, <2>2, SingleConcat, Zenon
  <2>4. PICK all, c : all = Seq(AnyBlock) /\ c = a \o b
    OBVIOUS
  <2> QED  BY <2>1, <2>3, <2>4 DEF SectionRecord
<1>12. Section(pages1, p).blocks = a \o b
  BY <1>4, <1>8
<1> QED  BY <1>4, <1>6, <1>7, <1>8, <1>9, <1>10, <1>11, <1>12, Zenon DEF lines, median, repeated

\* It says what the lines say that are left of its pages.
LEMMA RebuildRead ==
    ASSUME NEW P, NEW pages1 \in Seq(P), \A p \in 1..Len(pages1) : IsPage(pages1[p])
    PROVE  /\ Len(Sections(pages1)) = Len(pages1)
           /\ Sections(pages1) \in Seq(SectionRecord)
           /\ \A k \in 1..Len(pages1) : Sections(pages1)[k].page = k
           /\ ReadAll(Sections(pages1))
                  = FlattenSeq([p \in 1..Len(pages1) |->
                       Wordings(CleanLines(pages1[p].lines, RepeatedMargins(pages1)), MedianSize(pages1))])
<1>1. \A p \in 1..Len(pages1) :
          /\ Section(pages1, p) \in SectionRecord
          /\ Read(Section(pages1, p).blocks)
                 = Wordings(CleanLines(pages1[p].lines, RepeatedMargins(pages1)), MedianSize(pages1))
  BY SectionRead, Zenon
<1>2. Len(pages1) \in Nat
  OBVIOUS
<1>3. [p \in 1..Len(pages1) |-> Read(Section(pages1, p).blocks)]
        = [p \in 1..Len(pages1) |->
               Wordings(CleanLines(pages1[p].lines, RepeatedMargins(pages1)), MedianSize(pages1))]
  BY <1>1
<1> DEFINE u == Sections(pages1)
<1>4. /\ u \in Seq(SectionRecord) /\ Len(u) = Len(pages1)
      /\ \A k \in 1..Len(pages1) : u[k].page = k
      /\ ReadAll(u) = FlattenSeq([p \in 1..Len(pages1) |-> Read(Section(pages1, p).blocks)])
  BY <1>1, <1>2, SectionsRead, Zenon
<1> QED  BY <1>3, <1>4

-----------------------------------------------------------------------------
(* The headings among blocks. *)

HasHeading(blocks, x) == \E k \in DOMAIN blocks : blocks[k].kind = "heading" /\ blocks[k].text = x

LEMMA HeadingNone == ASSUME NEW x PROVE ~HasHeading(<<>>, x)
BY DEF HasHeading

LEMMA HeadingAppend ==
    ASSUME NEW S, NEW blocks \in Seq(S), NEW b \in S, NEW x
    PROVE  HasHeading(Append(blocks, b), x) <=>
               HasHeading(blocks, x) \/ (b.kind = "heading" /\ b.text = x)
<1>1. /\ Len(blocks) \in Nat /\ DOMAIN blocks = 1..Len(blocks)
      /\ DOMAIN Append(blocks, b) = 1..(Len(blocks) + 1)
      /\ Append(blocks, b)[Len(blocks) + 1] = b
      /\ \A k \in 1..Len(blocks) : Append(blocks, b)[k] = blocks[k]
  OBVIOUS
<1>2. PICK u : u = Append(blocks, b)
  OBVIOUS
<1>3. /\ DOMAIN u = 1..(Len(blocks) + 1) /\ u[Len(blocks) + 1] = b
      /\ \A k \in 1..Len(blocks) : u[k] = blocks[k]
  BY <1>1, <1>2, Zenon
<1>4. \A k : k \in 1..(Len(blocks) + 1) <=> k \in 1..Len(blocks) \/ k = Len(blocks) + 1
  BY <1>1
<1>5. HasHeading(u, x) <=> HasHeading(blocks, x) \/ (b.kind = "heading" /\ b.text = x)
  BY <1>1, <1>3, <1>4, Zenon DEF HasHeading
<1> QED  BY <1>2, <1>5, Zenon

LEMMA HeadingConcat ==
    ASSUME NEW S, NEW a \in Seq(S), NEW b \in Seq(S), NEW x
    PROVE  HasHeading(a \o b, x) <=> HasHeading(a, x) \/ HasHeading(b, x)
<1>1. /\ Len(a) \in Nat /\ Len(b) \in Nat /\ DOMAIN a = 1..Len(a) /\ DOMAIN b = 1..Len(b)
      /\ DOMAIN (a \o b) = 1..(Len(a) + Len(b))
      /\ \A k \in 1..Len(a) : (a \o b)[k] = a[k]
      /\ \A k \in 1..Len(b) : (a \o b)[Len(a) + k] = b[k]
  OBVIOUS
<1>2. PICK c : c = a \o b
  OBVIOUS
<1>3. /\ DOMAIN c = 1..(Len(a) + Len(b)) /\ \A k \in 1..Len(a) : c[k] = a[k]
      /\ \A k \in 1..Len(b) : c[Len(a) + k] = b[k]
  BY <1>1, <1>2, Zenon
<1>4. \A k : k \in 1..(Len(a) + Len(b)) <=>
                 k \in 1..Len(a) \/ \E l \in 1..Len(b) : k = Len(a) + l
  <2> SUFFICES ASSUME NEW k \in 1..(Len(a) + Len(b)), ~(k \in 1..Len(a))
               PROVE  \E l \in 1..Len(b) : k = Len(a) + l
    BY <1>1
  <2>1. k - Len(a) \in 1..Len(b) /\ k = Len(a) + (k - Len(a))
    BY <1>1
  <2> QED  BY <2>1
<1>5. HasHeading(c, x) <=> HasHeading(a, x) \/ HasHeading(b, x)
  <2>1. ASSUME NEW k \in DOMAIN c, c[k].kind = "heading", c[k].text = x
        PROVE  HasHeading(a, x) \/ HasHeading(b, x)
    <3>1. k \in 1..Len(a) \/ \E l \in 1..Len(b) : k = Len(a) + l
      BY <1>3, <1>4, <2>1, Zenon
    <3>2. CASE k \in 1..Len(a)
      BY <1>1, <1>3, <2>1, <3>2, Zenon DEF HasHeading
    <3>3. CASE \E l \in 1..Len(b) : k = Len(a) + l
      <4>1. PICK l \in 1..Len(b) : k = Len(a) + l
        BY <3>3
      <4> QED  BY <1>1, <1>3, <2>1, <4>1, Zenon DEF HasHeading
    <3> QED  BY <3>1, <3>2, <3>3
  <2>2. ASSUME NEW k \in DOMAIN a PROVE k \in DOMAIN c /\ c[k] = a[k]
    BY <1>1, <1>3
  <2>3. ASSUME NEW k \in DOMAIN b PROVE Len(a) + k \in DOMAIN c /\ c[Len(a) + k] = b[k]
    BY <1>1, <1>3
  <2> QED  BY <2>1, <2>2, <2>3, Zenon DEF HasHeading
<1> QED  BY <1>2, <1>5, Zenon

\* Other blocks do not count.
LEMMA HeadingSame ==
    ASSUME NEW u, NEW s, NEW x, DOMAIN u = DOMAIN s,
           \A k \in DOMAIN s : u[k].kind = s[k].kind /\ (s[k].kind = "heading" => u[k] = s[k])
    PROVE  HasHeading(u, x) <=> HasHeading(s, x)
BY Zenon DEF HasHeading

\* One of the lines is a heading, and it is all that a block says.
SomeHeading(lines, median, x) ==
    \E i \in 1..Len(lines) : IsHeading(lines[i], median) /\ x = <<lines[i].text>>

\* The headings of lines are the lines that are headings.
LEMMA TextBlocksHeadings ==
    ASSUME NEW L, \A l \in L : l.text \in Texts, NEW lines \in Seq(L), NEW median, NEW x
    PROVE  HasHeading(TextBlocks(lines, median), x) <=> SomeHeading(lines, median, x)
<1> DEFINE N == Len(lines)
<1>1. N \in Nat /\ \A n \in 1..N : lines[n].text \in Texts
  OBVIOUS
<1>2. PICK f \in [0..N -> Seq(TextBlock)] :
          /\ f[0] = <<>>
          /\ \A n \in 1..N :
                f[n] = IF StartsBlock(lines, n, median)
                       THEN Append(f[n - 1], BlockOf(lines[n], median))
                       ELSE WithLine(f[n - 1], lines[n])
          /\ TextBlocks(lines, median) = f[N]
  BY TextBlocksSteps, Zenon
<1> DEFINE EndsWith(blocks, kind) == blocks # <<>> /\ blocks[Len(blocks)].kind = kind
           Among(n) == \E i \in 1..n : IsHeading(lines[i], median) /\ x = <<lines[i].text>>
           Told == {n \in 0..N : /\ HasHeading(f[n], x) <=> Among(n)
                                 /\ n = 0 \/ EndsWith(f[n], KindOf(lines[n], median))}
<1>3. 0 \in Told
  <2>1. 1..0 = {} /\ 0 \in 0..N
    BY <1>1
  <2> QED  BY <1>2, <2>1, HeadingNone
<1>4. ASSUME NEW n \in 1..N, n - 1 \in Told
      PROVE  n \in Told
  <2>1. n \in 0..N /\ n - 1 \in 0..N /\ lines[n].text \in Texts
    BY <1>1
  <2>2. PICK before \in Seq(TextBlock) : before = f[n - 1]
    BY <1>2, <2>1
  <2>3. /\ HasHeading(before, x) <=> Among(n - 1)
        /\ n - 1 = 0 \/ EndsWith(before, KindOf(lines[n - 1], median))
    BY <1>4, <2>2
  <2>4. Among(n) <=> Among(n - 1) \/ (IsHeading(lines[n], median) /\ x = <<lines[n].text>>)
    <3>1. \A i : i \in 1..n <=> i \in 1..(n - 1) \/ i = n
      BY <1>1
    <3> QED  BY <3>1, Zenon
  <2>5. IsHeading(lines[n], median) <=> KindOf(lines[n], median) = "heading"
    BY DEF KindOf
  <2> HIDE DEF Among
  <2>6. CASE StartsBlock(lines, n, median)
    <3> DEFINE b == BlockOf(lines[n], median)
    <3>1. b \in TextBlock
      BY <2>1, BlockOfLine, Zenon
    <3>2. /\ b.kind = KindOf(lines[n], median)
          /\ b.kind = "heading" => b.text = <<lines[n].text>>
      BY DEF BlockOf, Block, Wording
    <3>3. f[n] = Append(before, b)
      BY <1>2, <2>2, <2>6
    <3> HIDE DEF b
    <3>4. HasHeading(Append(before, b), x) <=>
              HasHeading(before, x) \/ (b.kind = "heading" /\ b.text = x)
      BY <3>1, HeadingAppend, Zenon
    <3>5. HasHeading(f[n], x) <=> Among(n)
      BY <2>3, <2>4, <2>5, <3>2, <3>3, <3>4, Zenon
    <3>6. EndsWith(f[n], KindOf(lines[n], median))
      <4>1. Append(before, b) # <<>> /\ Append(before, b)[Len(Append(before, b))] = b
        BY <3>1, AppendLast, Zenon
      <4> QED  BY <3>2, <3>3, <4>1, Zenon
    <3> QED  BY <2>1, <3>5, <3>6
  <2>7. CASE ~StartsBlock(lines, n, median)
    <3>1. /\ n # 1 /\ KindOf(lines[n], median) = "paragraph"
          /\ KindOf(lines[n - 1], median) = "paragraph"
      BY <2>7 DEF StartsBlock
    <3>2. EndsWith(before, "paragraph")
      BY <2>1, <2>3, <3>1
    <3>3. f[n] = WithLine(before, lines[n])
      BY <1>2, <2>2, <2>7
    <3>4. PICK u \in Seq(TextBlock) : u = f[n]
      BY <1>2, <2>1
    <3>5. /\ DOMAIN u = DOMAIN before
          /\ \A k \in DOMAIN before : /\ u[k].kind = before[k].kind
                                      /\ k # Len(before) => u[k] = before[k]
      <4>1. /\ DOMAIN WithLine(before, lines[n]) = DOMAIN before
            /\ \A k \in DOMAIN before :
                  /\ WithLine(before, lines[n])[k].kind = before[k].kind
                  /\ k # Len(before) => WithLine(before, lines[n])[k] = before[k]
        BY <3>2, WithLineKinds, Zenon
      <4> QED  BY <3>3, <3>4, <4>1, Zenon
    <3>6. HasHeading(u, x) <=> HasHeading(before, x)
      <4>1. \A k \in DOMAIN before :
                u[k].kind = before[k].kind /\ (before[k].kind = "heading" => u[k] = before[k])
        BY <3>2, <3>5
      <4> QED  BY <3>5, <4>1, HeadingSame, Zenon
    <3>7. HasHeading(f[n], x) <=> Among(n)
      <4>1. KindOf(lines[n], median) # "heading"
        BY <3>1
      <4> QED  BY <2>3, <2>4, <2>5, <3>4, <3>6, <4>1, Zenon
    <3>8. EndsWith(u, "paragraph")
      <4>1. Len(u) = Len(before) /\ Len(before) \in DOMAIN before
        BY <3>2, <3>5
      <4> QED  BY <3>2, <3>5, <4>1
    <3>9. EndsWith(f[n], KindOf(lines[n], median))
      BY <3>1, <3>4, <3>8, Zenon
    <3> QED  BY <2>1, <3>7, <3>9
  <2> QED  BY <2>6, <2>7
<1>5. N \in Told
  <2> HIDE DEF Told
  <2>1. \A n \in 0..N : n \in Told
    BY <1>1, <1>3, <1>4, UpTo
  <2> QED  BY <1>1, <2>1
<1> QED  BY <1>2, <1>5 DEF SomeHeading

\* A paragraph that is made longer stays one.
LEMMA JoinedHeadings ==
    ASSUME NEW S, NEW blocks \in Seq(S), blocks # <<>>, NEW longer, NEW x,
           Last(blocks).kind = "paragraph", longer.kind = "paragraph"
    PROVE  HasHeading(Append(Front(blocks), longer), x) <=> HasHeading(blocks, x)
<1>1. PICK front \in Seq(S), last \in S :
          front = Front(blocks) /\ last = Last(blocks) /\ Append(front, last) = blocks
  BY FrontLast, Zenon
<1>2. PICK T : T = S \cup {longer}
  OBVIOUS
<1>3. front \in Seq(T) /\ longer \in T
  BY <1>2
<1>4. HasHeading(Append(front, last), x) <=>
          HasHeading(front, x) \/ (last.kind = "heading" /\ last.text = x)
  BY HeadingAppend, Zenon
<1>5. HasHeading(Append(front, longer), x) <=>
          HasHeading(front, x) \/ (longer.kind = "heading" /\ longer.text = x)
  BY <1>3, HeadingAppend, Zenon
<1>6. last.kind # "heading" /\ longer.kind # "heading"
  BY <1>1
<1> QED  BY <1>1, <1>4, <1>5, <1>6, Zenon

LEMMA TailHeadings ==
    ASSUME NEW S, NEW blocks \in Seq(S), blocks # <<>>, Head(blocks).kind # "heading", NEW x
    PROVE  HasHeading(Tail(blocks), x) <=> HasHeading(blocks, x)
<1>1. PICK first \in Seq(S), rest \in Seq(S) :
          first = <<Head(blocks)>> /\ rest = Tail(blocks) /\ first \o rest = blocks
  <2>1. /\ <<Head(blocks)>> \in Seq(S) /\ Tail(blocks) \in Seq(S)
        /\ <<Head(blocks)>> \o Tail(blocks) = blocks
    OBVIOUS
  <2> QED  BY <2>1, Zenon
<1>2. DOMAIN first = {1} /\ first[1].kind # "heading"
  BY <1>1
<1>3. ~HasHeading(first, x)
  BY <1>2, Zenon DEF HasHeading
<1>4. HasHeading(first \o rest, x) <=> HasHeading(first, x) \/ HasHeading(rest, x)
  BY HeadingConcat, Zenon
<1> QED  BY <1>1, <1>3, <1>4, Zenon

\* Joined or not, the headings stay in their sections.
LEMMA WithSectionHeadings ==
    ASSUME NEW sections \in Seq(SectionRecord), NEW section \in SectionRecord, NEW x
    PROVE  LET u == WithSection(sections, section) IN
           /\ \A k \in 1..Len(sections) :
                 HasHeading(u[k].blocks, x) <=> HasHeading(sections[k].blocks, x)
           /\ HasHeading(u[Len(sections) + 1].blocks, x) <=> HasHeading(section.blocks, x)
<1> DEFINE n == Len(sections)
           last == sections[n].blocks
           blocks == section.blocks
           Joined == /\ n > 0 /\ section.blocks # <<>> /\ Head(section.blocks).kind = "paragraph"
                     /\ last # <<>> /\ Last(last).kind = "paragraph"
           u == WithSection(sections, section)
<1>1. n \in Nat /\ blocks \in Seq(AnyBlock)
  BY DEF SectionRecord
<1>2. CASE ~Joined
  <2>1. u = Append(sections, section)
    BY <1>2 DEF WithSection
  <2>2. /\ \A k \in 1..n : Append(sections, section)[k] = sections[k]
        /\ Append(sections, section)[n + 1] = section
    OBVIOUS
  <2> QED  BY <2>1, <2>2
<1>3. CASE Joined
  <2> DEFINE longer == [Last(last) EXCEPT !.text = @ \o Head(blocks).text]
             joined == Append(Front(last), longer)
             changed == [sections EXCEPT ![n].blocks = joined]
  <2>1. u = Append(changed, Rest(section))
    BY <1>3 DEF WithSection
  <2>2. n \in 1..n /\ sections[n] \in SectionRecord
    BY <1>1, <1>3
  <2>3. last \in Seq(AnyBlock) /\ last # <<>> /\ Last(last).kind = "paragraph"
    BY <1>3, <2>2 DEF SectionRecord
  <2>4. Last(last) \in AnyBlock
    BY <2>3, FrontLast, Zenon
  <2>5. longer.kind = "paragraph"
    <3>1. PICK b \in AnyBlock : b = Last(last)
      BY <2>4
    <3>2. PICK t : t = Last(last).text \o Head(blocks).text
      OBVIOUS
    <3>3. [b EXCEPT !.text = t].kind = b.kind
      BY DEF AnyBlock, TextBlock, ImageBlock
    <3> QED  BY <2>3, <3>1, <3>2, <3>3
  <2> HIDE DEF longer
  <2>6. HasHeading(joined, x) <=> HasHeading(last, x)
    <3>1. PICK lb \in Seq(AnyBlock) : lb = last
      BY <2>3
    <3>2. lb # <<>> /\ Last(lb).kind = "paragraph"
      BY <2>3, <3>1
    <3>3. HasHeading(Append(Front(lb), longer), x) <=> HasHeading(lb, x)
      BY <2>5, <3>2, JoinedHeadings, Zenon
    <3> QED  BY <3>1, <3>3, Zenon
  <2>7. HasHeading(Tail(blocks), x) <=> HasHeading(blocks, x)
    <3>1. blocks # <<>> /\ Head(blocks).kind # "heading"
      BY <1>3
    <3> QED  BY <1>1, <3>1, TailHeadings, Zenon
  <2> HIDE DEF joined
  <2>8. /\ Len(changed) = n /\ DOMAIN changed = 1..n
        /\ changed[n].blocks = joined
        /\ \A k \in 1..n : k # n => changed[k] = sections[k]
    <3>1. sections \in [1..n -> SectionRecord]
      OBVIOUS
    <3>2. [sections[n] EXCEPT !.blocks = joined].blocks = joined
      BY <2>2 DEF SectionRecord
    <3> QED  BY <1>1, <2>2, <3>1, <3>2
  <2>9. Rest(section).blocks = Tail(blocks)
    BY DEF Rest, SectionRecord
  <2> HIDE DEF changed, n
  <2>10. /\ \A k \in 1..n : Append(changed, Rest(section))[k] = changed[k]
         /\ Append(changed, Rest(section))[n + 1] = Rest(section)
    BY <1>1, <2>8
  <2> QED  BY <2>1, <2>6, <2>7, <2>8, <2>9, <2>10 DEF n
<1> QED  BY <1>2, <1>3

LEMMA SectionsHeadings ==
    ASSUME NEW pages1, Len(pages1) \in Nat,
           \A p \in 1..Len(pages1) : Section(pages1, p) \in SectionRecord, NEW x
    PROVE  \A k \in 1..Len(pages1) :
               HasHeading(Sections(pages1)[k].blocks, x) <=> HasHeading(Section(pages1, k).blocks, x)
<1> DEFINE N == Len(pages1)
<1>1. PICK f \in [0..N -> Seq(SectionRecord)] :
          /\ f[0] = <<>> /\ \A n \in 1..N : f[n] = WithSection(f[n - 1], Section(pages1, n))
          /\ Sections(pages1) = f[N]
  BY SectionsSteps, Zenon
<1> DEFINE Keeps(u, k) == HasHeading(u[k].blocks, x) <=> HasHeading(Section(pages1, k).blocks, x)
           Told == {n \in 0..N : Len(f[n]) = n /\ \A k \in 1..n : Keeps(f[n], k)}
<1>2. 0 \in Told
  BY <1>1
<1>3. ASSUME NEW n \in 1..N, n - 1 \in Told PROVE n \in Told
  <2>1. n \in 0..N /\ n - 1 \in 0..N /\ n \in Nat
    OBVIOUS
  <2>2. PICK before \in Seq(SectionRecord), u \in Seq(SectionRecord) : before = f[n - 1] /\ u = f[n]
    BY <1>1, <2>1
  <2>3. Len(before) = n - 1 /\ \A k \in 1..(n - 1) : Keeps(before, k)
    BY <1>3, <2>2
  <2>4. PICK section \in SectionRecord : section = Section(pages1, n)
    OBVIOUS
  <2>5. u = WithSection(before, section)
    BY <1>1, <2>2, <2>4
  <2>6. /\ \A k \in 1..Len(before) : HasHeading(u[k].blocks, x) <=> HasHeading(before[k].blocks, x)
        /\ HasHeading(u[Len(before) + 1].blocks, x) <=> HasHeading(section.blocks, x)
    BY <2>5, WithSectionHeadings, Zenon
  <2>7. Len(u) = Len(before) + 1
    BY <2>5, WithSectionReads, Zenon
  <2>8. Len(before) + 1 = n /\ \A k : k \in 1..n <=> k \in 1..(n - 1) \/ k = n
    BY <2>1, <2>3
  <2>9. \A k \in 1..(n - 1) : Keeps(u, k)
    BY <2>3, <2>6, Zenon
  <2>10. Keeps(u, n)
    BY <2>4, <2>6, <2>8, Zenon
  <2> HIDE DEF Keeps
  <2>11. Len(u) = n /\ \A k \in 1..n : Keeps(u, k)
    BY <2>7, <2>8, <2>9, <2>10
  <2> QED  BY <2>1, <2>2, <2>11
<1>4. N \in Told
  <2> HIDE DEF Told
  <2>1. \A n \in 0..N : n \in Told
    BY <1>2, <1>3, UpTo
  <2> QED  BY <2>1
<1> QED  BY <1>1, <1>4

\* CleanLines leaves lines as they are.
LEMMA CleanLinesKept ==
    ASSUME NEW L, \A l \in L : l.text \in Texts, NEW lines \in Seq(L), NEW repeated
    PROVE  CleanLines(lines, repeated) \in Seq(L)
<1> DEFINE N == Len(lines)
           drop == {i \in 1..N : Removed(lines, i, repeated)}
           s == Picked(N, lines, drop)
<1>1. N \in Nat /\ lines \in [1..N -> L] /\ DOMAIN lines = 1..N
  OBVIOUS
<1>2. FlattenSeq(s) \in Seq(L)
  <2> HIDE DEF drop, N
  <2> QED  BY <1>1, LetteringPicked, Zenon
<1>3. CleanLines(lines, repeated) = FlattenSeq(s)
  <2>1. [i \in DOMAIN lines |-> IF Removed(lines, i, repeated) THEN <<>> ELSE <<lines[i]>>] = s
    BY <1>1 DEF Picked
  <2> HIDE DEF s
  <2> QED  BY <2>1 DEF CleanLines
<1> QED  BY <1>2, <1>3

\* The headings of a section are the lines of its page that are headings.
LEMMA HeadingsOfPage ==
    ASSUME NEW P, NEW pages1 \in Seq(P), \A p \in 1..Len(pages1) : IsPage(pages1[p]),
           NEW p \in 1..Len(pages1), NEW t
    PROVE  IsHeadingOf(Sections(pages1)[p], t) <=>
               \E l \in ToSet(CleanLines(pages1[p].lines, RepeatedMargins(pages1))) :
                   IsHeading(l, MedianSize(pages1)) /\ l.text = t
<1> DEFINE median == MedianSize(pages1)
           lines == CleanLines(pages1[p].lines, RepeatedMargins(pages1))
           images == pages1[p].images
<1>1. \A q \in 1..Len(pages1) : Section(pages1, q) \in SectionRecord
  BY SectionRead, Zenon
<1>2. Len(pages1) \in Nat
  OBVIOUS
<1>3. HasHeading(Sections(pages1)[p].blocks, <<t>>) <=> HasHeading(Section(pages1, p).blocks, <<t>>)
  BY <1>1, <1>2, SectionsHeadings, Zenon
<1>4. IsHeadingOf(Sections(pages1)[p], t) <=> HasHeading(Sections(pages1)[p].blocks, <<t>>)
  BY Zenon DEF IsHeadingOf, HasHeading
<1>5. IsLines(lines) /\ images \in Seq(STRING)
  <2>1. IsLines(pages1[p].lines) /\ images \in Seq(STRING)
    BY DEF IsPage
  <2> QED  BY <2>1, CleanLinesRead, Zenon
<1>6. PICK L : (\A l \in L : l.text \in Texts) /\ lines \in Seq(L)
  BY <1>5 DEF IsLines
<1>7. Section(pages1, p).blocks = TextBlocks(lines, median) \o ImageBlocks(images)
  BY DEF Section
<1> HIDE DEF lines, median, images
<1>8. PICK a \in Seq(AnyBlock), b \in Seq(AnyBlock) :
          a = TextBlocks(lines, median) /\ b = ImageBlocks(images)
  <2>1. TextBlocks(lines, median) \in Seq(TextBlock)
    BY <1>6, TextBlocksRead, Zenon
  <2>2. ImageBlocks(images) \in Seq(AnyBlock)
    BY <1>5, ReadImages, Zenon
  <2> QED  BY <2>1, <2>2 DEF AnyBlock
<1>9. ~HasHeading(b, <<t>>)
  BY <1>8 DEF HasHeading, ImageBlocks, Block
<1>10. HasHeading(a \o b, <<t>>) <=> HasHeading(a, <<t>>) \/ HasHeading(b, <<t>>)
  BY HeadingConcat, Zenon
<1>11. HasHeading(a, <<t>>) <=> SomeHeading(lines, median, <<t>>)
  BY <1>6, <1>8, TextBlocksHeadings, Zenon
<1>12. SomeHeading(lines, median, <<t>>) <=> \E l \in ToSet(lines) : IsHeading(l, median) /\ l.text = t
  <2>1. DOMAIN lines = 1..Len(lines)
    BY <1>6
  <2>2. \A u : <<t>> = <<u>> <=> u = t
    OBVIOUS
  <2>3. \A l : l \in ToSet(lines) <=> \E i \in DOMAIN lines : l = lines[i]
    BY ElementOf, Zenon
  <2>4. ASSUME NEW i \in 1..Len(lines), IsHeading(lines[i], median), <<t>> = <<lines[i].text>>
        PROVE  \E l \in ToSet(lines) : IsHeading(l, median) /\ l.text = t
    BY <2>1, <2>2, <2>3, <2>4, Zenon
  <2>5. ASSUME NEW l \in ToSet(lines), IsHeading(l, median), l.text = t
        PROVE  \E i \in 1..Len(lines) : IsHeading(lines[i], median) /\ <<t>> = <<lines[i].text>>
    <3>1. PICK i \in 1..Len(lines) : l = lines[i]
      BY <2>1, <2>3, Zenon
    <3> QED  BY <2>2, <2>5, <3>1, Zenon
  <2> QED  BY <2>4, <2>5, Zenon DEF SomeHeading
<1> QED  BY <1>3, <1>4, <1>7, <1>8, <1>9, <1>10, <1>11, <1>12, Zenon DEF lines, median

-----------------------------------------------------------------------------
(* The outline. *)

\* An entry leads to the section of its page, if every page has one.
LEMMA LeadsToPage ==
    ASSUME NEW sections, NEW N \in Nat, DOMAIN sections = 1..N, Len(sections) = N,
           \A k \in 1..N : sections[k].page = k, NEW page \in 1..N
    PROVE  SectionIndexForPage(sections, page) = page
<1> DEFINE from == {k \in DOMAIN sections : sections[k].page >= page}
<1>1. from = page..N
  OBVIOUS
<1>2. page \in from /\ \A l \in from : page <= l
  BY <1>1
<1>3. \A k \in from : (\A l \in from : k <= l) => k = page
  BY <1>1, <1>2
<1>4. SectionIndexForPage(sections, page) = CHOOSE k \in from : \A l \in from : k <= l
  BY <1>2 DEF SectionIndexForPage
<1> HIDE DEF from
<1> QED  BY <1>2, <1>3, <1>4

\* The entries that belong into the outline of these sections.
Leading(sections) ==
    {e \in [title : Texts, page : 1..Len(sections), level : 0..3] :
        IsHeadingOf(sections[e.page], e.title)}

LEMMA EntriesLead ==
    ASSUME NEW sections \in Seq(SectionRecord), NEW p \in 1..Len(sections), sections[p].page = p
    PROVE  HeadingEntries(sections[p]) \in Seq(Leading(sections))
<1> DEFINE section == sections[p]
           blocks == section.blocks
           Entry(b) == [title |-> Head(b.text), page |-> section.page, level |-> b.level]
           Entries(k) == IF blocks[k].kind = "heading" THEN <<Entry(blocks[k])>> ELSE <<>>
           all == [k \in DOMAIN blocks |-> Entries(k)]
<1>1. section \in SectionRecord /\ section.page = p
  OBVIOUS
<1>2. blocks \in Seq(AnyBlock) /\ HeadingsSingle(blocks)
  BY <1>1 DEF SectionRecord
<1>3. HeadingEntries(section) = FlattenSeq(all)
  BY DEF HeadingEntries
<1>4. ASSUME NEW k \in DOMAIN blocks
      PROVE  Entries(k) \in Seq(Leading(sections))
  <2> DEFINE b == blocks[k]
             e == Entry(b)
  <2>1. CASE b.kind = "heading"
    <3>1. b \in AnyBlock /\ Len(b.text) = 1
      BY <1>2, <2>1 DEF HeadingsSingle
    <3>2. b.text \in Seq(Texts) /\ b.level \in 0..3
      BY <2>1, <3>1 DEF AnyBlock, TextBlock, ImageBlock
    <3>3. Head(b.text) \in Texts /\ b.text = <<Head(b.text)>>
      BY <3>1, <3>2
    <3>4. e.title = Head(b.text) /\ e.page = p
          /\ e \in [title : Texts, page : 1..Len(sections), level : 0..3]
      BY <1>1, <3>2, <3>3
    <3>5. IsHeadingOf(section, Head(b.text))
      BY <2>1, <3>3 DEF IsHeadingOf
    <3> HIDE DEF e
    <3>6. e \in Leading(sections)
      BY <3>4, <3>5 DEF Leading
    <3>7. Entries(k) = <<e>>
      BY <2>1 DEF e
    <3> QED  BY <3>6, <3>7
  <2>2. CASE b.kind # "heading"
    BY <2>2
  <2> QED  BY <2>1, <2>2
<1> HIDE DEF Entries
<1>5. all \in Seq(Seq(Leading(sections)))
  <2>1. DOMAIN blocks = 1..Len(blocks) /\ Len(blocks) \in Nat
    BY <1>2
  <2> QED  BY <1>4, <2>1
<1> HIDE DEF all
<1> QED  BY <1>3, <1>5, FlattenType, Zenon

\* Headings stay where they are when paragraphs are joined, so that the outline
\* leads to them.
LEMMA InferredEntriesLead ==
    ASSUME NEW sections \in Seq(SectionRecord),
           \A k \in 1..Len(sections) : sections[k].page = k,
           NEW i \in DOMAIN InferOutline(sections)
    PROVE  LET entry == InferOutline(sections)[i] IN
           /\ entry.page \in 1..Len(sections)
           /\ entry.title # MainText => IsHeadingOf(sections[entry.page], entry.title)
<1> DEFINE T == Leading(sections)
           each == [k \in DOMAIN sections |-> HeadingEntries(sections[k])]
           all == FlattenSeq(each)
           m == IF Len(all) < OutlineLimit THEN Len(all) ELSE OutlineLimit
<1>1. Len(sections) \in Nat /\ DOMAIN sections = 1..Len(sections)
  OBVIOUS
<1>2. \A p \in 1..Len(sections) : HeadingEntries(sections[p]) \in Seq(T)
  BY EntriesLead
<1>3. each \in Seq(Seq(T))
  BY <1>1, <1>2
<1> HIDE DEF each, T
<1>4. all \in Seq(T)
  BY <1>3, FlattenType, Zenon
<1>5. InferOutline(sections) =
          IF all = <<>> /\ sections # <<>>
          THEN <<[title |-> MainText, page |-> sections[1].page, level |-> 1]>>
          ELSE SubSeq(all, 1, m)
  BY DEF InferOutline, each
<1> HIDE DEF all
<1>6. CASE all = <<>> /\ sections # <<>>
  <2>1. 1 \in 1..Len(sections)
    BY <1>1, <1>6
  <2>2. i = 1 /\ InferOutline(sections)[i].title = MainText
        /\ InferOutline(sections)[i].page = sections[1].page
    BY <1>5, <1>6
  <2> QED  BY <2>1, <2>2
<1>7. CASE ~(all = <<>> /\ sections # <<>>)
  <2>1. m \in 0..Len(all)
    BY <1>4, TextAssumption
  <2> HIDE DEF m
  <2>2. InferOutline(sections) = SubSeq(all, 1, m)
    BY <1>5, <1>7
  <2>3. i \in 1..m /\ InferOutline(sections)[i] = all[i]
    BY <1>4, <2>1, <2>2
  <2>4. all[i] \in Leading(sections)
    BY <1>4, <2>1, <2>3 DEF T
  <2> QED  BY <2>3, <2>4 DEF Leading
<1> QED  BY <1>6, <1>7

-----------------------------------------------------------------------------
(* The size in the middle. *)

\* The size in the middle is one of the sizes, or 0.
LEMMA MiddleType ==
    ASSUME NEW sizes \in Seq(Nat)
    PROVE  Middle(sizes) \in Nat /\ Middle(sizes) \in ToSet(sizes) \cup {0}
<1> DEFINE known == {i \in DOMAIN sizes : sizes[i] > 0}
           Within(v) == {i \in known : sizes[i] <= v}
           middles == {v \in ToSet(sizes) : Cardinality(Within(v)) * 2 > Cardinality(known)}
<1>1. /\ Len(sizes) \in Nat /\ DOMAIN sizes = 1..Len(sizes)
      /\ \A i \in DOMAIN sizes : sizes[i] \in Nat /\ sizes[i] \in ToSet(sizes)
      /\ ToSet(sizes) \subseteq Nat
  BY DEF ToSet
<1>2. CASE known = {}
  <2>1. Middle(sizes) = 0
    BY <1>2 DEF Middle
  <2> QED  BY <2>1
<1>3. CASE known # {}
  <2>1. Middle(sizes) = Min(middles)
    BY <1>3, Zenon DEF Middle
  <2>2. PICK most \in {sizes[i] : i \in known} : \A i \in known : sizes[i] <= most
    <3> DEFINE values == {sizes[i] : i \in known}
    <3>1. values \in SUBSET Nat /\ values # {}
      BY <1>1, <1>3
    <3>2. PICK b \in Nat : \A i \in 1..Len(sizes) : sizes[i] <= b
      BY BoundOf
    <3>3. \A v \in values : v <= b
      BY <1>1, <3>2
    <3>4. Max(values) \in values /\ \A v \in values : v <= Max(values)
      <4> HIDE DEF values
      <4> QED  BY <3>1, <3>3, LargestOf
    <3>5. \A i \in known : sizes[i] \in values
      OBVIOUS
    <3> QED  BY <3>4, <3>5
  <2>3. most \in ToSet(sizes) /\ Within(most) = known
    BY <1>1, <2>2
  <2>4. Cardinality(known) \in Nat /\ Cardinality(known) # 0
    <3>1. IsFiniteSet(1..Len(sizes))
      BY <1>1, FS_Interval
    <3>2. IsFiniteSet(known)
      BY <1>1, <3>1, FS_Subset
    <3> QED  BY <1>3, <3>2, FS_CardinalityType, FS_EmptySet
  <2>5. Cardinality(Within(most)) * 2 > Cardinality(known)
    <3>1. Cardinality(Within(most)) = Cardinality(known)
      BY <2>3, Zenon
    <3> HIDE DEF known, Within
    <3> QED  BY <2>4, <3>1
  <2>6. most \in middles
    <3> HIDE DEF known, Within
    <3> QED  BY <2>3, <2>5
  <2>7. middles \in SUBSET Nat /\ middles \subseteq ToSet(sizes)
    BY <1>1
  <2> HIDE DEF middles
  <2>8. Min(middles) \in middles
    BY <2>6, <2>7, SmallestOf
  <2> QED  BY <2>1, <2>7, <2>8
<1> QED  BY <1>2, <1>3

\* The size in the middle of a document's lines is a number.
LEMMA MedianType ==
    ASSUME NEW pages1, Len(pages1) \in Nat, DOMAIN pages1 = 1..Len(pages1),
           \A p \in 1..Len(pages1) : [i \in DOMAIN pages1[p].lines |-> pages1[p].lines[i].size] \in Seq(Nat)
    PROVE  MedianSize(pages1) \in Nat
<1> DEFINE s == [p \in DOMAIN pages1 |-> [i \in DOMAIN pages1[p].lines |-> pages1[p].lines[i].size]]
<1>1. s \in Seq(Seq(Nat))
  <2>1. \A p \in 1..Len(pages1) : s[p] \in Seq(Nat)
    OBVIOUS
  <2>2. DOMAIN s = 1..Len(pages1)
    OBVIOUS
  <2>3. s = [p \in 1..Len(pages1) |-> s[p]]
    BY <2>2
  <2> HIDE DEF s
  <2>4. [p \in 1..Len(pages1) |-> s[p]] \in Seq(Seq(Nat))
    BY <2>1
  <2> QED  BY <2>3, <2>4, Zenon
<1>2. FlattenSeq(s) \in Seq(Nat)
  <2> HIDE DEF s
  <2> QED  BY <1>1, FlattenType
<1>3. MedianSize(pages1) = Middle(FlattenSeq(s))
  BY DEF MedianSize
<1> HIDE DEF s
<1> QED  BY <1>2, <1>3, MiddleType, Zenon

LEMMA PageMedianType ==
    ASSUME NEW rects \in Seq(Rectangles)
    PROVE  MedianRectFontSize(rects) \in Nat
<1>1. [i \in DOMAIN rects |-> rects[i].size] \in Seq(Nat)
  <2>1. \A i \in DOMAIN rects : rects[i].size \in Nat
    <3>1. \A r \in Rectangles : r.size \in Nat
      BY DEF Rectangles
    <3> QED  BY <3>1
  <2>2. DOMAIN rects = 1..Len(rects) /\ Len(rects) \in Nat
    OBVIOUS
  <2> QED  BY <2>1, <2>2
<1>2. PICK sizes \in Seq(Nat) : sizes = [i \in DOMAIN rects |-> rects[i].size]
  BY <1>1
<1> QED  BY <1>2, MiddleType, Zenon DEF MedianRectFontSize

-----------------------------------------------------------------------------
(* Rectangles that are picked by a set. *)

\* One more rectangle is one more picked or none.
ThoseStep(rects, S, n) ==
    Those(First(rects, n), S) =
        IF rects[n] \in S THEN Append(Those(First(rects, n - 1), S), rects[n])
        ELSE Those(First(rects, n - 1), S)

LEMMA ThoseSteps ==
    ASSUME NEW R, NEW rects \in Seq(R), NEW S
    PROVE  /\ Those(First(rects, 0), S) = <<>>
           /\ Those(First(rects, Len(rects)), S) = Those(rects, S)
           /\ \A n \in 0..Len(rects) : Those(First(rects, n), S) \in Seq(R)
           /\ \A n \in 1..Len(rects) : ThoseStep(rects, S, n)
<1> DEFINE N == Len(rects)
           s == [i \in 1..N |-> IF rects[i] \in S THEN <<rects[i]>> ELSE <<>>]
<1>1. N \in Nat /\ DOMAIN rects = 1..N /\ \A i \in 1..N : rects[i] \in R
  OBVIOUS
<1>2. s \in Seq(Seq(R)) /\ Len(s) = N
  <2>1. ASSUME NEW i \in 1..N PROVE s[i] \in Seq(R)
    BY <1>1
  <2> QED  BY <1>1, <2>1
<1>3. \A n \in 0..N : Those(First(rects, n), S) = FlattenSeq(First(s, n))
  <2> SUFFICES ASSUME NEW n \in 0..N PROVE Those(First(rects, n), S) = FlattenSeq(First(s, n))
    OBVIOUS
  <2>1. DOMAIN First(rects, n) = 1..n /\ \A i \in 1..n : First(rects, n)[i] = rects[i] /\ i \in 1..N
    BY <1>1 DEF First
  <2>2. First(s, n) = [i \in DOMAIN First(rects, n) |->
                          IF First(rects, n)[i] \in S THEN <<First(rects, n)[i]>> ELSE <<>>]
    BY <2>1 DEF First
  <2> QED  BY <2>2, Zenon DEF Those
<1>4. /\ \A n \in 1..N : FlattenSeq(First(s, n)) = FlattenSeq(First(s, n - 1)) \o s[n]
      /\ FlattenSeq(First(s, 0)) = <<>>
  BY <1>2, FlattenFirst, Zenon
<1>5. \A n \in 1..N : First(s, n - 1) \in Seq(Seq(R)) /\ First(s, n) \in Seq(Seq(R))
  BY <1>2, FirstStep, Zenon
<1>6. \A n \in 0..N : FlattenSeq(First(s, n)) \in Seq(R)
  <2>1. FlattenSeq(First(s, 0)) \in Seq(R)
    <3>1. <<>> \in Seq(R)
      OBVIOUS
    <3> QED  BY <1>4, <3>1, Zenon
  <2>2. \A n \in 1..N : FlattenSeq(First(s, n)) \in Seq(R)
    BY <1>5, FlattenType, Zenon
  <2> QED  BY <1>1, <2>1, <2>2
<1>7. ASSUME NEW n \in 1..N
      PROVE  ThoseStep(rects, S, n)
  <2>1. n \in 0..N /\ n - 1 \in 0..N
    BY <1>1
  <2>2. PICK a \in Seq(R) : a = Those(First(rects, n - 1), S)
    BY <1>3, <1>6, <2>1
  <2>3. Those(First(rects, n), S) = a \o s[n]
    BY <1>3, <1>4, <2>1, <2>2, Zenon
  <2>4. s[n] = IF rects[n] \in S THEN <<rects[n]>> ELSE <<>>
    OBVIOUS
  <2>5. a \o <<>> = a /\ a \o <<rects[n]>> = Append(a, rects[n])
    BY <1>1
  <2> QED  BY <2>2, <2>3, <2>4, <2>5, Zenon DEF ThoseStep
<1>8. First(rects, N) = rects
  BY FirstOfAll, Zenon
<1>9. 0 \in 0..N
  BY <1>1
<1> HIDE DEF s
<1> QED  BY <1>3, <1>4, <1>6, <1>7, <1>8, <1>9, Zenon

LEMMA ThoseAre ==
    ASSUME NEW R, NEW rects \in Seq(R), NEW S
    PROVE  /\ Those(rects, S) \in Seq(R)
           /\ \A r : r \in ToSet(Those(rects, S)) <=> r \in ToSet(rects) /\ r \in S
<1> DEFINE N == Len(rects)
           s == [i \in 1..N |-> IF rects[i] \in S THEN <<rects[i]>> ELSE <<>>]
<1>1. N \in Nat /\ DOMAIN rects = 1..N /\ \A i \in 1..N : rects[i] \in R
  OBVIOUS
<1>2. s \in Seq(Seq(R)) /\ Len(s) = N
  <2>1. ASSUME NEW i \in 1..N PROVE s[i] \in Seq(R)
    BY <1>1
  <2> QED  BY <1>1, <2>1
<1>3. Those(rects, S) = FlattenSeq(s)
  BY <1>1 DEF Those
<1>4. \A i \in 1..N : \A r : r \in ToSet(s[i]) <=> r = rects[i] /\ r \in S
  <2> SUFFICES ASSUME NEW i \in 1..N PROVE \A r : r \in ToSet(s[i]) <=> r = rects[i] /\ r \in S
    OBVIOUS
  <2>1. ToSet(<<rects[i]>>) = {rects[i]} /\ ToSet(<<>>) = {}
    BY DEF ToSet
  <2>2. s[i] = IF rects[i] \in S THEN <<rects[i]>> ELSE <<>>
    OBVIOUS
  <2> QED  BY <2>1, <2>2
<1> HIDE DEF s
<1>5. FlattenSeq(s) \in Seq(R)
      /\ \A r : r \in ToSet(FlattenSeq(s)) <=> \E i \in 1..N : r \in ToSet(s[i])
  BY <1>2, FlattenType, FlattenElements, Zenon
<1>6. \A r : r \in ToSet(rects) <=> \E i \in 1..N : r = rects[i]
  BY <1>1, ElementOf, Zenon
<1>7. ASSUME NEW r
      PROVE  r \in ToSet(FlattenSeq(s)) <=> r \in ToSet(rects) /\ r \in S
  <2>1. (\E i \in 1..N : r \in ToSet(s[i])) <=> r \in S /\ \E i \in 1..N : r = rects[i]
    BY <1>4
  <2> QED  BY <1>5, <1>6, <2>1, Zenon
<1> QED  BY <1>3, <1>5, <1>7, Zenon

\* What is picked depends on the rectangles that are there only.
LEMMA ThoseSame ==
    ASSUME NEW rects, NEW S, NEW T, \A r \in ToSet(rects) : r \in S <=> r \in T
    PROVE  Those(rects, S) = Those(rects, T)
<1>1. \A i \in DOMAIN rects : rects[i] \in S <=> rects[i] \in T
  BY DEF ToSet
<1>2. [i \in DOMAIN rects |-> IF rects[i] \in S THEN <<rects[i]>> ELSE <<>>]
        = [i \in DOMAIN rects |-> IF rects[i] \in T THEN <<rects[i]>> ELSE <<>>]
  BY <1>1
<1> QED  BY <1>2, Zenon DEF Those

-----------------------------------------------------------------------------
(* The rectangles of a row from left to right. *)

SortedFromLeft(rects) ==
    \A i, j \in DOMAIN rects : i < j => rects[i].left <= rects[j].left

ToTheLeft(rects, r) == {i \in DOMAIN rects : rects[i].left <= r.left}

InsertedAt(u, rects, r, k) ==
    /\ u = Inserted(rects, r) /\ k = Cardinality(ToTheLeft(rects, r))
    /\ Len(u) = Len(rects) + 1
    /\ \A i \in 1..k : u[i] = rects[i]
    /\ u[k + 1] = r
    /\ \A i \in (k + 1)..Len(rects) : u[i + 1] = rects[i]

\* What is inserted comes between what is there.
LEMMA InsertedIs ==
    ASSUME NEW R, NEW rects \in Seq(R), NEW r \in R
    PROVE  \E u \in Seq(R), k \in 0..Len(rects) : InsertedAt(u, rects, r, k)
<1> DEFINE N == Len(rects)
           A == ToTheLeft(rects, r)
<1>1. N \in Nat /\ DOMAIN rects = 1..N
  OBVIOUS
<1>2. Cardinality(A) \in 0..N
  <2>1. IsFiniteSet(1..N) /\ Cardinality(1..N) = N
    <3> HIDE DEF N
    <3>1. 1 \in Int /\ N \in Int
      BY <1>1
    <3>2. IsFiniteSet(1..N) /\ Cardinality(1..N) = IF 1 > N THEN 0 ELSE N - 1 + 1
      BY <3>1, FS_Interval, Zenon
    <3> QED  BY <1>1, <3>2
  <2>2. A \subseteq 1..N
    BY <1>1 DEF ToTheLeft
  <2> HIDE DEF A
  <2>3. IsFiniteSet(A) /\ Cardinality(A) <= N /\ Cardinality(A) \in Nat
    BY <2>1, <2>2, FS_Subset, FS_CardinalityType
  <2> QED  BY <1>1, <2>3
<1>3. PICK k \in 0..N : k = Cardinality(A)
  BY <1>2
<1> HIDE DEF A, N
<1>4. k \in Nat /\ k <= N /\ N - k \in Nat
  BY <1>1
<1>5. Inserted(rects, r) = (SubSeq(rects, 1, k) \o <<r>>) \o SubSeq(rects, k + 1, N)
  <2>1. Inserted(rects, r) = InsertAt(rects, k + 1, r)
    BY <1>3 DEF Inserted, A, ToTheLeft
  <2>2. (k + 1) - 1 = k
    BY <1>4
  <2> QED  BY <2>1, <2>2, Zenon DEF InsertAt, N
<1>6. PICK a \in Seq(R), b \in Seq(R) :
          /\ a = SubSeq(rects, 1, k) /\ b = SubSeq(rects, k + 1, N)
          /\ Len(a) = k /\ Len(b) = N - k
          /\ \A i \in 1..k : a[i] = rects[i]
          /\ \A i \in 1..(N - k) : b[i] = rects[k + i]
  <2>1. SubSeq(rects, 1, k) \in Seq(R) /\ Len(SubSeq(rects, 1, k)) = k
        /\ \A i \in 1..k : SubSeq(rects, 1, k)[i] = rects[i]
    BY <1>1, <1>4 DEF N
  <2>2. /\ SubSeq(rects, k + 1, N) \in Seq(R)
        /\ Len(SubSeq(rects, k + 1, N)) = IF k + 1 <= N THEN N - (k + 1) + 1 ELSE 0
        /\ \A i \in 1..(N - (k + 1) + 1) : SubSeq(rects, k + 1, N)[i] = rects[k + 1 + i - 1]
    <3>1. k + 1 \in 1..(N + 1) /\ N \in (k + 1 - 1)..N
      BY <1>1, <1>4
    <3>2. k + 1 \in Int /\ N \in Int /\ \A i \in (k + 1)..N : rects[i] \in R
      BY <1>1, <1>4 DEF N
    <3> QED  BY <3>2, SubSeqProperties
  <2>3. PICK b \in Seq(R) : b = SubSeq(rects, k + 1, N)
    BY <2>2
  <2>4. Len(b) = N - k
    BY <1>1, <1>4, <2>2, <2>3
  <2>5. ASSUME NEW i \in 1..(N - k) PROVE b[i] = rects[k + i]
    <3>1. i \in 1..(N - (k + 1) + 1) /\ k + 1 + i - 1 = k + i
      BY <1>1, <1>4
    <3> QED  BY <2>2, <2>3, <3>1, Zenon
  <2> QED  BY <2>1, <2>3, <2>4, <2>5, Zenon
<1> DEFINE c == [i \in 1..(k + 1) |-> IF i <= k THEN rects[i] ELSE r]
           u == [i \in 1..(N + 1) |-> IF i <= k THEN rects[i] ELSE IF i = k + 1 THEN r ELSE rects[i - 1]]
<1>7. c \in Seq(R) /\ Len(c) = k + 1 /\ u \in Seq(R) /\ Len(u) = N + 1
  <2>1. ASSUME NEW i \in 1..(k + 1)
        PROVE  (IF i <= k THEN rects[i] ELSE r) \in R
    BY <1>1, <1>4
  <2>2. ASSUME NEW i \in 1..(N + 1)
        PROVE  (IF i <= k THEN rects[i] ELSE IF i = k + 1 THEN r ELSE rects[i - 1]) \in R
    BY <1>1, <1>4
  <2> QED  BY <1>1, <1>4, <2>1, <2>2
<1>8. Joins(c, a, <<r>>)
  <2>1. Len(<<r>>) = 1 /\ <<r>>[1] = r
    OBVIOUS
  <2>2. ASSUME NEW i \in 1..(k + 1) PROVE c[i] = IF i <= Len(a) THEN a[i] ELSE <<r>>[i - Len(a)]
    <3>1. i <= k => i \in 1..k
      BY <1>4
    <3>2. ~(i <= k) => i - Len(a) = 1
      BY <1>4, <1>6
    <3> QED  BY <1>6, <2>1, <3>1, <3>2
  <2> HIDE DEF c
  <2> QED  BY <1>6, <1>7, <2>1, <2>2 DEF Joins
<1>9. Joins(u, c, b)
  <2>1. ASSUME NEW i \in 1..(N + 1) PROVE u[i] = IF i <= Len(c) THEN c[i] ELSE b[i - Len(c)]
    <3>1. CASE i <= k + 1
      <4>1. i \in 1..(k + 1) /\ (i <= k \/ i = k + 1)
        BY <1>1, <1>4, <3>1
      <4> QED  BY <1>7, <1>4, <3>1, <4>1
    <3>2. CASE ~(i <= k + 1)
      <4>1. i - (k + 1) \in 1..(N - k) /\ k + (i - (k + 1)) = i - 1 /\ ~(i <= k) /\ i # k + 1
        BY <1>1, <1>4, <3>2
      <4>2. b[i - (k + 1)] = rects[i - 1] /\ u[i] = rects[i - 1]
        BY <1>6, <4>1
      <4> HIDE DEF u, c
      <4> QED  BY <1>7, <3>2, <4>2
    <3> QED  BY <3>1, <3>2
  <2> HIDE DEF u, c
  <2>2. Len(u) = Len(c) + Len(b)
    BY <1>1, <1>4, <1>6, <1>7
  <2> QED  BY <1>7, <2>1, <2>2 DEF Joins
<1>10. \A i \in 1..k : u[i] = rects[i]
  BY <1>1, <1>4
<1>11. u[k + 1] = r
  BY <1>1, <1>4
<1>12. ASSUME NEW i \in (k + 1)..N PROVE u[i + 1] = rects[i]
  <2>1. i + 1 \in 1..(N + 1) /\ ~(i + 1 <= k) /\ i + 1 # k + 1 /\ (i + 1) - 1 = i
    BY <1>1, <1>4
  <2> QED  BY <2>1
<1> HIDE DEF c, u
<1>13. u = Inserted(rects, r)
  <2>1. <<r>> \in Seq(R)
    OBVIOUS
  <2>2. c = a \o <<r>>
    BY <1>7, <1>8, <2>1, ConcatIs, Zenon
  <2>3. u = c \o b
    BY <1>7, <1>9, ConcatIs, Zenon
  <2> QED  BY <1>5, <1>6, <2>2, <2>3, Zenon
<1>14. InsertedAt(u, rects, r, k)
  BY <1>3, <1>7, <1>10, <1>11, <1>12, <1>13, Zenon DEF InsertedAt, N, A
<1> QED  BY <1>7, <1>14, Zenon DEF N

\* It is among what is there, at its place.
\* What is to the left of the place to insert at is at the front, if all is sorted.
LEMMA FrontToTheLeft ==
    ASSUME NEW R, \A x \in R : x.left \in Int, NEW rects \in Seq(R), NEW r \in R,
           SortedFromLeft(rects), NEW k \in 0..Len(rects), k = Cardinality(ToTheLeft(rects, r))
    PROVE  /\ \A i \in 1..k : rects[i].left <= r.left
           /\ \A i \in (k + 1)..Len(rects) : r.left < rects[i].left
<1> DEFINE N == Len(rects)
           A == ToTheLeft(rects, r)
<1>1. /\ N \in Nat /\ DOMAIN rects = 1..N /\ \A i \in 1..N : rects[i] \in R /\ rects[i].left \in Int
      /\ r.left \in Int /\ k = Cardinality(A) /\ k \in 0..N
  OBVIOUS
<1>2. \A i, j \in 1..N : i < j => rects[i].left <= rects[j].left
  BY <1>1 DEF SortedFromLeft
<1>3. A = 1..k
  <2>1. CASE A = {}
    <3>1. Cardinality(A) = 0
      BY <2>1, FS_EmptySet
    <3>2. k = 0
      BY <1>1, <3>1
    <3>3. 1..0 = {}
      OBVIOUS
    <3> HIDE DEF A
    <3> QED  BY <2>1, <3>2, <3>3, Zenon
  <2>2. CASE A # {}
    <3>1. A \subseteq Nat /\ \A i \in A : i <= N
      BY <1>1 DEF ToTheLeft
    <3>2. PICK m \in A : \A i \in A : i <= m
      <4> HIDE DEF A, N
      <4>1. Max(A) \in A /\ \A i \in A : i <= Max(A)
        BY <1>1, <2>2, <3>1, LargestOf
      <4> QED  BY <4>1
    <3>3. m \in 1..N /\ rects[m].left <= r.left
      BY <1>1 DEF ToTheLeft
    <3>4. ASSUME NEW i \in 1..m PROVE i \in A
      <4>1. i \in 1..N /\ (i = m \/ i < m)
        BY <1>1, <3>3
      <4>2. rects[i].left <= rects[m].left
        BY <1>1, <1>2, <3>3, <4>1
      <4>3. rects[i].left \in Int /\ rects[m].left \in Int
        BY <1>1, <3>3, <4>1
      <4> QED  BY <1>1, <3>3, <4>1, <4>2, <4>3 DEF ToTheLeft
    <3>5. A = 1..m
      <4>1. A \subseteq 1..N
        BY <1>1 DEF ToTheLeft
      <4> HIDE DEF A
      <4>2. \A i \in A : i \in 1..m
        BY <1>1, <3>2, <3>3, <4>1
      <4> QED  BY <3>4, <4>2
    <3>6. Cardinality(1..m) = m
      BY <3>3, FS_Interval
    <3> HIDE DEF A
    <3> QED  BY <1>1, <3>5, <3>6
  <2> QED  BY <2>1, <2>2
<1>4. \A i \in 1..k : rects[i].left <= r.left
  BY <1>3 DEF ToTheLeft
<1>5. ASSUME NEW i \in (k + 1)..N PROVE r.left < rects[i].left
  <2>1. i \in 1..N /\ i \notin 1..k
    BY <1>1
  <2>2. i \notin A
    BY <1>3, <2>1
  <2>3. ~(rects[i].left <= r.left) /\ rects[i].left \in Int
    BY <1>1, <2>1, <2>2 DEF ToTheLeft
  <2> QED  BY <1>1, <2>3
<1> QED  BY <1>4, <1>5

LEMMA InsertedSorts ==
    ASSUME NEW R, \A x \in R : x.left \in Int, NEW rects \in Seq(R), NEW r \in R
    PROVE  /\ Inserted(rects, r) \in Seq(R) /\ Len(Inserted(rects, r)) = Len(rects) + 1
           /\ \A e : e \in ToSet(Inserted(rects, r)) <=> e \in ToSet(rects) \/ e = r
           /\ SortedFromLeft(rects) => SortedFromLeft(Inserted(rects, r))
<1> DEFINE N == Len(rects)
           A == ToTheLeft(rects, r)
<1>1. /\ N \in Nat /\ DOMAIN rects = 1..N /\ \A i \in 1..N : rects[i] \in R /\ rects[i].left \in Int
      /\ r.left \in Int
  OBVIOUS
<1>2. PICK u \in Seq(R), k \in 0..N : InsertedAt(u, rects, r, k)
  BY InsertedIs, Zenon
<1>3. /\ u = Inserted(rects, r) /\ k = Cardinality(A) /\ Len(u) = N + 1
      /\ \A i \in 1..k : u[i] = rects[i]
      /\ u[k + 1] = r
      /\ \A i \in (k + 1)..N : u[i + 1] = rects[i]
  <2> HIDE DEF N, A
  <2> QED  BY <1>2, Zenon DEF InsertedAt, N, A
<1>4. DOMAIN u = 1..(N + 1)
  BY <1>3
<1>5. \A i \in 1..(N + 1) : \/ i <= k /\ i \in 1..N /\ u[i] = rects[i]
                            \/ i = k + 1 /\ u[i] = r
                            \/ i > k + 1 /\ i - 1 \in 1..N /\ u[i] = rects[i - 1]
  <2> SUFFICES ASSUME NEW i \in 1..(N + 1), i > k + 1 PROVE i - 1 \in 1..N /\ u[i] = rects[i - 1]
    BY <1>1, <1>3
  <2>1. i - 1 \in (k + 1)..N /\ (i - 1) + 1 = i
    BY <1>1, <1>3
  <2>2. u[(i - 1) + 1] = rects[i - 1]
    BY <1>3, <2>1
  <2> QED  BY <1>1, <1>3, <2>1, <2>2
<1>6. ASSUME NEW e
      PROVE  e \in ToSet(u) <=> e \in ToSet(rects) \/ e = r
  <2>1. /\ e \in ToSet(u) <=> \E i \in 1..(N + 1) : e = u[i]
        /\ e \in ToSet(rects) <=> \E i \in 1..N : e = rects[i]
    BY <1>1, <1>4, ElementOf, Zenon
  <2>2. ASSUME NEW i \in 1..N PROVE \E j \in 1..(N + 1) : u[j] = rects[i]
    <3>1. CASE i <= k
      BY <1>1, <1>3, <3>1
    <3>2. CASE i > k
      <4>1. i \in (k + 1)..N /\ i + 1 \in 1..(N + 1)
        BY <1>1, <1>3, <3>2
      <4> QED  BY <1>3, <4>1
    <3> QED  BY <1>1, <1>3, <3>1, <3>2
  <2>3. k + 1 \in 1..(N + 1)
    BY <1>1, <1>3
  <2>4. ASSUME NEW i \in 1..(N + 1) PROVE u[i] = r \/ \E j \in 1..N : u[i] = rects[j]
    BY <1>5
  <2>5. ASSUME e = r PROVE \E i \in 1..(N + 1) : e = u[i]
    BY <1>3, <2>3, <2>5
  <2>6. ASSUME NEW i \in 1..N, e = rects[i] PROVE \E j \in 1..(N + 1) : e = u[j]
    BY <2>2, <2>6
  <2>7. ASSUME NEW i \in 1..(N + 1), e = u[i] PROVE e = r \/ \E j \in 1..N : e = rects[j]
    BY <2>4, <2>7
  <2> QED  BY <2>1, <2>5, <2>6, <2>7, Zenon
<1>7. ASSUME SortedFromLeft(rects)
      PROVE  SortedFromLeft(u)
  <2>1. \A i, j \in 1..N : i < j => rects[i].left <= rects[j].left
    BY <1>1, <1>7 DEF SortedFromLeft
  <2>2. /\ \A i \in 1..k : rects[i].left <= r.left
        /\ \A i \in (k + 1)..N : r.left < rects[i].left
    BY <1>2, <1>7, <1>3, FrontToTheLeft, Zenon
  <2>3. \A i \in 1..k : rects[i].left <= r.left
    BY <2>2
  <2>4. ASSUME NEW i \in (k + 1)..N PROVE r.left <= rects[i].left
    <3>1. rects[i].left \in Int /\ r.left < rects[i].left
      BY <1>1, <1>3, <2>2
    <3> QED  BY <1>1, <3>1
  <2> HIDE DEF A
  <2>5. ASSUME NEW i \in 1..(N + 1), NEW j \in 1..(N + 1), i < j
        PROVE  u[i].left <= u[j].left
    <3>1. CASE i <= k
      <4>1. i \in 1..N /\ i \in 1..k /\ u[i] = rects[i] /\ rects[i].left <= r.left /\ rects[i].left \in Int
        BY <1>1, <1>3, <2>3, <3>1
      <4>2. CASE j <= k
        BY <1>1, <1>3, <2>1, <2>5, <4>1, <4>2
      <4>3. CASE j = k + 1
        BY <1>3, <4>1, <4>3
      <4>4. CASE j > k + 1
        <5>1. j - 1 \in 1..N /\ u[j] = rects[j - 1] /\ i < j - 1
          BY <1>1, <1>3, <1>5, <3>1, <4>4
        <5> QED  BY <2>1, <4>1, <5>1
      <4> QED  BY <1>3, <4>2, <4>3, <4>4
    <3>2. CASE i = k + 1
      <4>1. j - 1 \in (k + 1)..N /\ u[j] = rects[j - 1]
        BY <1>1, <1>3, <1>5, <2>5, <3>2
      <4> QED  BY <1>3, <2>4, <3>2, <4>1
    <3>3. CASE i > k + 1
      <4>1. i - 1 \in 1..N /\ u[i] = rects[i - 1] /\ j - 1 \in 1..N /\ u[j] = rects[j - 1] /\ i - 1 < j - 1
        <5>1. i - 1 \in 1..N /\ u[i] = rects[i - 1]
          BY <1>1, <1>3, <1>5, <3>3
        <5>2. j - 1 \in 1..N /\ u[j] = rects[j - 1] /\ j > k + 1
          BY <1>1, <1>3, <1>5, <2>5, <3>3
        <5>3. i \in Int /\ j \in Int
          BY <1>1
        <5> QED  BY <2>5, <5>1, <5>2, <5>3
      <4> QED  BY <2>1, <4>1
    <3> QED  BY <1>3, <3>1, <3>2, <3>3
  <2> QED  BY <1>4, <2>5 DEF SortedFromLeft
<1> HIDE DEF A, N
<1>8. SortedFromLeft(rects) => SortedFromLeft(u)
  BY <1>7
<1> QED  BY <1>3, <1>6, <1>8, Zenon DEF N

\* A sequence has the first rectangles in an order from left to right, and as they
\* came where that is the same.
InOrder(order, u, rects, n) ==
    /\ order \in [1..n -> 1..n]
    /\ \A i \in 1..n : u[i] = rects[order[i]]
    /\ \A i, j \in 1..n : i < j => \/ u[i].left < u[j].left
                                   \/ u[i].left = u[j].left /\ order[i] < order[j]

LEMMA InsertedInOrder ==
    ASSUME NEW R, \A x \in R : x.left \in Int, NEW before \in Seq(R), NEW rects, NEW n \in Nat \ {0},
           rects[n] \in R, Len(before) = n - 1, SortedFromLeft(before),
           \E order : InOrder(order, before, rects, n - 1)
    PROVE  \E order : InOrder(order, Inserted(before, rects[n]), rects, n)
<1>1. PICK order : InOrder(order, before, rects, n - 1)
  OBVIOUS
<1>2. PICK u \in Seq(R), k \in 0..Len(before) : InsertedAt(u, before, rects[n], k)
  BY InsertedIs, Zenon
<1>3. /\ u = Inserted(before, rects[n]) /\ k = Cardinality(ToTheLeft(before, rects[n]))
      /\ Len(u) = Len(before) + 1
      /\ \A i \in 1..k : u[i] = before[i]
      /\ u[k + 1] = rects[n]
      /\ \A i \in (k + 1)..Len(before) : u[i + 1] = before[i]
  BY <1>2, Zenon DEF InsertedAt
<1>4. /\ \A i \in 1..k : before[i].left <= rects[n].left
      /\ \A i \in (k + 1)..Len(before) : rects[n].left < before[i].left
  BY <1>3, FrontToTheLeft, Zenon
<1>5. /\ k \in 0..(n - 1)
      /\ order \in [1..(n - 1) -> 1..(n - 1)]
      /\ \A i \in 1..(n - 1) : before[i] = rects[order[i]] /\ before[i].left \in Int
      /\ \A i, j \in 1..(n - 1) : i < j => \/ before[i].left < before[j].left
                                           \/ before[i].left = before[j].left /\ order[i] < order[j]
      /\ rects[n].left \in Int
  <2>1. /\ order \in [1..(n - 1) -> 1..(n - 1)]
        /\ \A i \in 1..(n - 1) : before[i] = rects[order[i]]
        /\ \A i, j \in 1..(n - 1) : i < j => \/ before[i].left < before[j].left
                                             \/ before[i].left = before[j].left /\ order[i] < order[j]
    BY <1>1, Zenon DEF InOrder
  <2>2. \A i \in 1..(n - 1) : before[i] \in R
    OBVIOUS
  <2> QED  BY <2>1, <2>2
<1> DEFINE longer == [i \in 1..n |-> IF i <= k THEN order[i] ELSE IF i = k + 1 THEN n ELSE order[i - 1]]
\* Where a rectangle of the longer sequence comes from.
<1>6. ASSUME NEW i \in 1..n
      PROVE  \/ i <= k /\ i \in 1..(n - 1) /\ u[i] = before[i] /\ longer[i] = order[i]
             \/ i = k + 1 /\ u[i] = rects[n] /\ longer[i] = n
             \/ /\ i > k + 1 /\ i - 1 \in 1..(n - 1) /\ u[i] = before[i - 1]
                /\ longer[i] = order[i - 1] /\ i - 1 \in (k + 1)..Len(before)
  <2>1. CASE i <= k
    BY <1>3, <1>5, <2>1
  <2>2. CASE i = k + 1
    BY <1>3, <1>5, <2>2
  <2>3. CASE i > k + 1
    <3>1. i - 1 \in (k + 1)..Len(before) /\ i - 1 \in 1..(n - 1) /\ (i - 1) + 1 = i
      BY <1>5, <2>3
    <3>2. u[(i - 1) + 1] = before[i - 1]
      BY <1>3, <3>1
    <3>3. longer[i] = order[i - 1]
      BY <1>5, <2>3
    <3> QED  BY <2>3, <3>1, <3>2, <3>3
  <2> QED  BY <1>5, <2>1, <2>2, <2>3
<1> HIDE DEF longer
<1>7. ASSUME NEW i \in 1..n PROVE longer[i] \in 1..n /\ u[i] = rects[longer[i]]
  <2>1. CASE i <= k /\ i \in 1..(n - 1) /\ u[i] = before[i] /\ longer[i] = order[i]
    BY <1>5, <2>1
  <2>2. CASE i = k + 1 /\ u[i] = rects[n] /\ longer[i] = n
    BY <2>2
  <2>3. CASE i - 1 \in 1..(n - 1) /\ u[i] = before[i - 1] /\ longer[i] = order[i - 1]
    <3>1. order[i - 1] \in 1..(n - 1) /\ before[i - 1] = rects[order[i - 1]]
      BY <1>5, <2>3
    <3> QED  BY <2>3, <3>1
  <2> QED  BY <1>6, <2>1, <2>2, <2>3
<1>8. longer \in [1..n -> 1..n]
  <2>1. longer = [i \in 1..n |-> longer[i]]
    BY DEF longer
  <2> QED  BY <1>7, <2>1
<1>9. ASSUME NEW i \in 1..n, NEW j \in 1..n, i < j
      PROVE  \/ u[i].left < u[j].left
             \/ u[i].left = u[j].left /\ longer[i] < longer[j]
  <2>1. CASE i <= k
    <3>1. i \in 1..(n - 1) /\ u[i] = before[i] /\ longer[i] = order[i] /\ before[i].left <= rects[n].left
      BY <1>4, <1>5, <1>6, <2>1
    <3>2. CASE j <= k
      <4>1. j \in 1..(n - 1) /\ u[j] = before[j] /\ longer[j] = order[j]
        BY <1>5, <1>6, <3>2
      <4>2. before[i].left < before[j].left \/ (before[i].left = before[j].left /\ order[i] < order[j])
        BY <1>5, <1>9, <3>1, <4>1, Zenon
      <4> QED  BY <3>1, <4>1, <4>2, Zenon
    <3>3. CASE j = k + 1
      <4>1. u[j] = rects[n] /\ longer[j] = n
        BY <1>5, <1>6, <3>3
      <4>2. order[i] \in 1..(n - 1)
        BY <1>5, <3>1
      <4>3. u[i].left \in Int /\ u[j].left \in Int /\ u[i].left <= u[j].left
        <5>1. before[i].left \in Int /\ rects[n].left \in Int
          BY <1>5, <3>1, Zenon
        <5> QED  BY <3>1, <4>1, <5>1, Zenon
      <4>4. longer[i] < longer[j]
        BY <3>1, <4>1, <4>2
      <4> QED  BY <4>3, <4>4
    <3>4. CASE j > k + 1
      <4>1. j - 1 \in 1..(n - 1) /\ u[j] = before[j - 1] /\ longer[j] = order[j - 1] /\ i < j - 1
        <5>1. k \in Nat /\ i \in Nat /\ j \in Nat /\ ~(j <= k) /\ j # k + 1
          BY <1>5, <3>4
        <5>2. j - 1 \in 1..(n - 1) /\ u[j] = before[j - 1] /\ longer[j] = order[j - 1]
          BY <1>6, <5>1, Zenon
        <5>3. i < j - 1
          BY <2>1, <3>4, <5>1
        <5> QED  BY <5>2, <5>3
      <4>2. \/ before[i].left < before[j - 1].left
            \/ before[i].left = before[j - 1].left /\ order[i] < order[j - 1]
        BY <1>5, <3>1, <4>1, Zenon
      <4> QED  BY <3>1, <4>1, <4>2, Zenon
    <3> QED  BY <1>5, <3>2, <3>3, <3>4
  <2>2. CASE i = k + 1
    <3>1. u[i] = rects[n]
      BY <1>3, <2>2, Zenon
    <3>2. j - 1 \in (k + 1)..Len(before) /\ u[j] = before[j - 1]
      BY <1>5, <1>6, <1>9, <2>2
    <3> QED  BY <1>4, <3>1, <3>2
  <2>3. CASE i > k + 1
    <3>1. i - 1 \in 1..(n - 1) /\ u[i] = before[i - 1] /\ longer[i] = order[i - 1]
      BY <1>5, <1>6, <2>3
    <3>2. j - 1 \in 1..(n - 1) /\ u[j] = before[j - 1] /\ longer[j] = order[j - 1]
      <4>1. k \in Nat /\ i \in Nat /\ j \in Nat /\ i < j
        BY <1>5, <1>9
      <4>2. ~(j <= k) /\ j # k + 1
        BY <2>3, <4>1
      <4> QED  BY <1>6, <4>2, Zenon
    <3>3. i - 1 < j - 1
      <4>1. i \in Nat /\ j \in Nat /\ i < j
        BY <1>9
      <4> QED  BY <4>1
    <3>4. \/ before[i - 1].left < before[j - 1].left
          \/ before[i - 1].left = before[j - 1].left /\ order[i - 1] < order[j - 1]
      BY <1>5, <3>1, <3>2, <3>3, Zenon
    <3> QED  BY <3>1, <3>2, <3>4, Zenon
  <2> QED  BY <1>5, <2>1, <2>2, <2>3
<1>10. InOrder(longer, u, rects, n)
  <2>1. \A i \in 1..n : u[i] = rects[longer[i]]
    BY <1>7, Zenon
  <2>2. \A i, j \in 1..n : i < j => \/ u[i].left < u[j].left
                                    \/ u[i].left = u[j].left /\ longer[i] < longer[j]
    <3> TAKE i, j \in 1..n
    <3> HAVE i < j
    <3> QED  BY <1>9, Zenon
  <2> QED  BY <1>8, <2>1, <2>2, Zenon DEF InOrder
<1> QED  BY <1>3, <1>10, Zenon

\* sortFragments leaves the rectangles in order from left to right, and as they came
\* where that is the same, so that each is there as often as it was.
THEOREM FromLeftSorts ==
    ASSUME NEW R, \A x \in R : x.left \in Int, NEW rects \in Seq(R)
    PROVE  /\ FromLeft(rects) \in Seq(R) /\ Len(FromLeft(rects)) = Len(rects)
           /\ \A e : e \in ToSet(FromLeft(rects)) <=> e \in ToSet(rects)
           /\ \E order : InOrder(order, FromLeft(rects), rects, Len(rects))
<1> DEFINE N == Len(rects)
           step == [n \in 1..N |-> [v \in Seq(R) |-> Inserted(v, rects[n])]]
<1>1. N \in Nat /\ DOMAIN rects = 1..N /\ \A n \in 1..N : rects[n] \in R
  OBVIOUS
<1>2. PICK f \in [0..N -> Seq(R)] : f[0] = <<>> /\ Takes(f, step, N)
  <2>1. ASSUME NEW n \in 1..N, NEW v \in Seq(R) PROVE Inserted(v, rects[n]) \in Seq(R)
    BY <1>1, InsertedSorts, Zenon
  <2>2. Steps(step, N, Seq(R))
    BY <2>1 DEF Steps
  <2>3. <<>> \in Seq(R)
    OBVIOUS
  <2> HIDE DEF step, N
  <2> QED  BY <1>1, <2>2, <2>3, Recursion
<1>3. ASSUME NEW n \in 1..N PROVE f[n] = Inserted(f[n - 1], rects[n])
  <2>1. n - 1 \in 0..N
    BY <1>1
  <2> QED  BY <1>2, <2>1 DEF Takes
<1> DEFINE Builds(g) == g = [n \in 0..N |-> IF n = 0 THEN <<>> ELSE Inserted(g[n - 1], rects[n])]
           g == CHOOSE h : Builds(h)
<1>4. FromLeft(rects) = g[N]
  BY DEF FromLeft
<1>5. Builds(f)
  BY <1>2, <1>3
<1>6. Builds(g)
  BY <1>5
<1> HIDE DEF g
<1> DEFINE Told == {n \in 0..N : /\ f[n] = g[n] /\ Len(f[n]) = n /\ SortedFromLeft(f[n])
                                 /\ \E order : InOrder(order, f[n], rects, n)
                                 /\ \A e : e \in ToSet(f[n]) <=> \E i \in 1..n : e = rects[i]}
<1>7. 0 \in Told
  <2>1. ToSet(<<>>) = {} /\ 1..0 = {} /\ DOMAIN <<>> = {} /\ Len(<<>>) = 0 /\ 0 \in 0..N
    BY <1>1 DEF ToSet
  <2>2. f[0] = g[0]
    BY <1>2, <1>6, <2>1
  <2>3. InOrder([i \in 1..0 |-> i], <<>>, rects, 0)
    BY <2>1 DEF InOrder
  <2>4. \E order : InOrder(order, f[0], rects, 0)
    BY <1>2, <2>3, Zenon
  <2> QED  BY <1>2, <2>1, <2>2, <2>4 DEF SortedFromLeft
<1>8. ASSUME NEW n \in 1..N, n - 1 \in Told PROVE n \in Told
  <2>1. n \in 0..N /\ n - 1 \in 0..N /\ n # 0
    BY <1>1
  <2>2. f[n] = g[n]
    <3>1. g[n] = Inserted(g[n - 1], rects[n])
      BY <1>6, <2>1
    <3>2. f[n - 1] = g[n - 1]
      BY <1>8
    <3> QED  BY <1>3, <3>1, <3>2, Zenon
  <2>3. PICK before \in Seq(R) : before = f[n - 1]
    BY <2>1
  <2>4. /\ Len(before) = n - 1 /\ SortedFromLeft(before)
        /\ \E order : InOrder(order, before, rects, n - 1)
        /\ \A e : e \in ToSet(before) <=> \E i \in 1..(n - 1) : e = rects[i]
    BY <1>8, <2>3
  <2>5. f[n] = Inserted(before, rects[n])
    BY <1>3, <2>3
  <2>6. /\ Len(f[n]) = Len(before) + 1 /\ SortedFromLeft(f[n])
        /\ \A e : e \in ToSet(f[n]) <=> e \in ToSet(before) \/ e = rects[n]
    <3>1. rects[n] \in R
      BY <1>1
    <3> DEFINE w == Inserted(before, rects[n])
    <3>2. /\ Len(w) = Len(before) + 1 /\ SortedFromLeft(w)
          /\ \A e : e \in ToSet(w) <=> e \in ToSet(before) \/ e = rects[n]
      BY <2>4, <3>1, InsertedSorts, Zenon
    <3> QED  BY <2>5, <3>2, Zenon
  <2>7. \A i : i \in 1..n <=> i \in 1..(n - 1) \/ i = n
    OBVIOUS
  <2>8. ASSUME NEW e PROVE e \in ToSet(f[n]) <=> \E i \in 1..n : e = rects[i]
    BY <2>4, <2>6, <2>7, Zenon
  <2>9. Len(f[n]) = n
    BY <2>4, <2>6
  <2>10. \E order : InOrder(order, f[n], rects, n)
    <3>1. rects[n] \in R /\ n \in Nat \ {0}
      BY <1>1
    <3>2. PICK all : all = rects
      OBVIOUS
    <3>3. \E order : InOrder(order, Inserted(before, all[n]), all, n)
      BY <2>4, <3>1, <3>2, InsertedInOrder, Zenon
    <3> QED  BY <2>5, <3>2, <3>3, Zenon
  <2> QED  BY <2>1, <2>2, <2>6, <2>8, <2>9, <2>10, Zenon
<1>9. N \in Told
  <2> HIDE DEF Told
  <2>1. \A n \in 0..N : n \in Told
    BY <1>1, <1>7, <1>8, UpTo
  <2> QED  BY <1>1, <2>1
<1>10. \A e : e \in ToSet(rects) <=> \E i \in 1..N : e = rects[i]
  BY <1>1, ElementOf, Zenon
<1>11. f[N] \in Seq(R)
  BY <1>1
<1>12. /\ f[N] = g[N] /\ Len(f[N]) = N
       /\ \E order : InOrder(order, f[N], rects, N)
       /\ \A e : e \in ToSet(f[N]) <=> \E i \in 1..N : e = rects[i]
  BY <1>9, Zenon
<1>13. \A e : e \in ToSet(f[N]) <=> e \in ToSet(rects)
  BY <1>10, <1>12
<1> QED  BY <1>4, <1>11, <1>12, <1>13, Zenon DEF N

\* The largest size of a row is that of one of its rectangles.
LEMMA RowSizeOf ==
    ASSUME NEW R, \A r \in R : r.size \in Nat, NEW rects \in Seq(R), rects # <<>>
    PROVE  /\ \E r \in ToSet(rects) : r.size = RowSize(rects)
           /\ \A r \in ToSet(rects) : r.size <= RowSize(rects)
           /\ RowSize(rects) \in Nat
<1> DEFINE N == Len(rects)
           sizes == {rects[k].size : k \in 1..N}
<1>1. N \in Nat \ {0} /\ DOMAIN rects = 1..N /\ \A k \in 1..N : rects[k].size \in Nat
  OBVIOUS
<1>2. PICK all \in Seq(Nat) : Len(all) = N /\ \A k \in 1..N : all[k] = rects[k].size
  <2>1. /\ [k \in 1..N |-> rects[k].size] \in Seq(Nat)
        /\ Len([k \in 1..N |-> rects[k].size]) = N
    BY <1>1
  <2> QED  BY <2>1
<1>3. PICK b \in Nat : \A k \in 1..N : rects[k].size <= b
  BY <1>1, <1>2, BoundOf
<1>4. sizes \subseteq Nat /\ sizes # {} /\ \A k \in sizes : k <= b
  BY <1>1, <1>3
<1>5. RowSize(rects) = Max(sizes)
  BY <1>1 DEF RowSize
<1> HIDE DEF sizes
<1>6. RowSize(rects) \in sizes /\ \A k \in sizes : k <= RowSize(rects)
  BY <1>4, <1>5, LargestOf
<1> QED  BY <1>1, <1>4, <1>6 DEF sizes, ToSet

-----------------------------------------------------------------------------
(* The rows that rectangles are put into. *)

Placeable(x) == x.y \in Int /\ x.height \in Nat

LEMMA LevelFacts ==
    ASSUME NEW a, NEW b, Placeable(a), Placeable(b)
    PROVE  /\ Level(a, a) /\ (Level(a, b) <=> Level(b, a))
           /\ Level(a, b) => SameRow(a, b)
           /\ Apart(a, b) => ~SameRow(a, b)
<1>1. PICK d \in Nat : d = Distance(a.y, b.y) /\ d = Distance(b.y, a.y) /\ Distance(a.y, a.y) = 0
  BY DEF Placeable, Distance
<1>2. PICK h \in Nat : h = Larger(a.height, b.height) /\ h = Larger(b.height, a.height)
  BY DEF Placeable, Larger
<1>3. Larger(a.height, a.height) \in Nat
  BY DEF Placeable, Larger
<1>4. PICK l \in Nat : l = Larger(150, 32 * h) /\ l >= 150 /\ l >= 32 * h /\ (l = 150 \/ l = 32 * h)
  BY DEF Larger
<1>5. Level(a, a)
  BY <1>1, <1>3 DEF Level
<1>6. Level(a, b) <=> d * 4 <= h
  BY <1>1, <1>2, Zenon DEF Level
<1>7. Level(b, a) <=> d * 4 <= h
  BY <1>1, <1>2, Zenon DEF Level
<1>8. SameRow(a, b) <=> d * 100 <= l
  BY <1>1, <1>2, <1>4, Zenon DEF SameRow
<1>9. Apart(a, b) <=> d >= 2 /\ d * 2 > h
  BY <1>1, <1>2, Zenon DEF Apart
<1>10. d * 4 <= h => d * 100 <= l
  BY <1>4
<1>11. d >= 2 /\ d * 2 > h => ~(d * 100 <= l)
  BY <1>4
<1> QED  BY <1>5, <1>6, <1>7, <1>8, <1>9, <1>10, <1>11

\* Only where they stand counts.
LEMMA LevelSame ==
    ASSUME NEW a, NEW b, NEW c, a.y = c.y, a.height = c.height
    PROVE  /\ Level(a, b) <=> Level(c, b)
           /\ Level(b, a) <=> Level(b, c)
           /\ SameRow(a, b) <=> SameRow(c, b)
BY Zenon DEF Level, SameRow

\* Rows of rectangles of a set.
RowsOf(R) == {w \in [y : Int, height : Nat, rects : Seq(R)] : w.rects # <<>>}

\* A rectangle opens a row of its own, or joins the last one that is next to it.
Opens(u, rows, rect) ==
    /\ \A i \in DOMAIN rows : i > Len(rows) - 4 => ~SameRow(rows[i], rect)
    /\ Len(u) = Len(rows) + 1
    /\ \A i \in DOMAIN rows : u[i] = rows[i]
    /\ u[Len(rows) + 1] = [y |-> rect.y, height |-> rect.height, rects |-> <<rect>>]

JoinsRow(u, rows, rect, m) ==
    /\ SameRow(rows[m], rect)
    /\ Len(u) = Len(rows)
    /\ \A i \in DOMAIN rows : i # m => u[i] = rows[i]
    /\ u[m].y = rows[m].y /\ u[m].height = rows[m].height
    /\ u[m].rects = Append(rows[m].rects, rect)

LEMMA PlacedIs ==
    ASSUME NEW R, NEW rows \in Seq(RowsOf(R)), NEW rect \in R, Placeable(rect)
    PROVE  /\ Placed(rows, rect) \in Seq(RowsOf(R))
           /\ \/ Opens(Placed(rows, rect), rows, rect)
              \/ \E m \in DOMAIN rows : JoinsRow(Placed(rows, rect), rows, rect, m)
<1> DEFINE N == Len(rows)
           near == {i \in DOMAIN rows : i > Len(rows) - 4 /\ SameRow(rows[i], rect)}
           u == Placed(rows, rect)
<1>1. N \in Nat /\ DOMAIN rows = 1..N /\ \A i \in 1..N : rows[i] \in RowsOf(R)
  OBVIOUS
<1>2. CASE near = {}
  <2> DEFINE row == [y |-> rect.y, height |-> rect.height, rects |-> <<rect>>]
  <2>1. row \in RowsOf(R)
    <3>1. <<rect>> \in Seq(R) /\ <<rect>> # <<>>
      OBVIOUS
    <3> QED  BY <3>1 DEF RowsOf, Placeable
  <2>2. u = Append(rows, row)
    BY <1>2 DEF Placed
  <2>3. \A i \in DOMAIN rows : i > Len(rows) - 4 => ~SameRow(rows[i], rect)
    BY <1>2
  <2> HIDE DEF u, near, row
  <2>4. u \in Seq(RowsOf(R)) /\ Len(u) = Len(rows) + 1 /\ u[Len(rows) + 1] = row
        /\ \A i \in DOMAIN rows : u[i] = rows[i]
    BY <1>1, <2>1, <2>2
  <2>5. Opens(u, rows, rect)
    BY <2>3, <2>4 DEF Opens, row
  <2> QED  BY <2>4, <2>5, Zenon DEF u
<1>3. CASE near # {}
  <2>1. near \in SUBSET Nat /\ \A i \in near : i <= N
    BY <1>1
  <2>2. PICK m \in near : m = Max(near)
    <3> HIDE DEF near, N
    <3>1. Max(near) \in near
      BY <1>1, <1>3, <2>1, LargestOf
    <3> QED  BY <3>1
  <2>3. m \in 1..N /\ SameRow(rows[m], rect)
    BY <1>1
  <2>4. u = [rows EXCEPT ![m].rects = Append(@, rect)]
    BY <1>3, <2>2 DEF Placed
  <2> HIDE DEF u, near
  <2> DEFINE row == [rows[m] EXCEPT !.rects = Append(@, rect)]
  <2>5. /\ row \in RowsOf(R)
        /\ row.y = rows[m].y /\ row.height = rows[m].height /\ row.rects = Append(rows[m].rects, rect)
    <3>1. PICK w \in RowsOf(R) : w = rows[m]
      BY <1>1, <2>3
    <3>2. PICK all : all = Seq(R)
      OBVIOUS
    <3>3. w \in [y : Int, height : Nat, rects : all]
      BY <3>2 DEF RowsOf
    <3>4. PICK rs \in Seq(R) : rs = w.rects
      BY <3>2, <3>3
    <3>5. Append(rs, rect) \in Seq(R) /\ Append(rs, rect) # <<>>
      OBVIOUS
    <3>6. PICK ns \in all : ns = Append(rs, rect) /\ ns # <<>>
      BY <3>2, <3>5
    <3>7. row = [w EXCEPT !.rects = ns]
      BY <3>1, <3>4, <3>6, Zenon
    <3> HIDE DEF row
    <3>8. row \in [y : Int, height : Nat, rects : all] /\ row.rects = ns /\ row.y = w.y /\ row.height = w.height
      BY <3>3, <3>7
    <3> QED  BY <3>1, <3>2, <3>4, <3>6, <3>8 DEF RowsOf
  <2>6. u = [rows EXCEPT ![m] = row]
    BY <2>4, <2>5
  <2> HIDE DEF row
  <2>7. u \in Seq(RowsOf(R)) /\ Len(u) = Len(rows) /\ u[m] = row
        /\ \A i \in DOMAIN rows : i # m => u[i] = rows[i]
    BY <1>1, <2>3, <2>5, <2>6
  <2>8. JoinsRow(u, rows, rect, m)
    BY <2>3, <2>7 DEF JoinsRow, row
  <2> QED  BY <1>1, <2>3, <2>7, <2>8, Zenon DEF u
<1> QED  BY <1>2, <1>3

\* The rows come about rectangle by rectangle.
LEMMA RowsSteps ==
    ASSUME NEW rects, NEW R, \A r \in R : Placeable(r), Visible(rects) \in Seq(R)
    PROVE  \E f \in [0..Len(Visible(rects)) -> Seq(RowsOf(R))] :
              /\ f[0] = <<>>
              /\ \A n \in 1..Len(Visible(rects)) : f[n] = Placed(f[n - 1], Visible(rects)[n])
              /\ Rows(rects) = f[Len(Visible(rects))]
<1>1. PICK v \in Seq(R) : v = Visible(rects)
  OBVIOUS
<1> DEFINE N == Len(v)
           step == [n \in 1..N |-> [w \in Seq(RowsOf(R)) |-> Placed(w, v[n])]]
<1>2. N \in Nat /\ \A n \in 1..N : v[n] \in R
  OBVIOUS
<1>3. PICK f \in [0..N -> Seq(RowsOf(R))] : f[0] = <<>> /\ Takes(f, step, N)
  <2>1. ASSUME NEW n \in 1..N, NEW w \in Seq(RowsOf(R)) PROVE Placed(w, v[n]) \in Seq(RowsOf(R))
    <3>1. v[n] \in R /\ Placeable(v[n])
      BY <1>2
    <3> QED  BY <3>1, PlacedIs, Zenon
  <2>2. Steps(step, N, Seq(RowsOf(R)))
    BY <2>1 DEF Steps
  <2>3. <<>> \in Seq(RowsOf(R))
    OBVIOUS
  <2> HIDE DEF step, N
  <2> QED  BY <1>2, <2>2, <2>3, Recursion
<1>4. ASSUME NEW n \in 1..N PROVE f[n] = Placed(f[n - 1], v[n])
  <2>1. n - 1 \in 0..N
    BY <1>2
  <2> QED  BY <1>3, <2>1 DEF Takes
<1> DEFINE Builds(g) == g = [n \in 0..N |-> IF n = 0 THEN <<>> ELSE Placed(g[n - 1], v[n])]
           g == CHOOSE h : Builds(h)
<1>5. Rows(rects) = g[N]
  BY <1>1 DEF Rows
<1>6. Builds(f)
  BY <1>3, <1>4
<1>7. Builds(g)
  BY <1>6
<1> HIDE DEF g
<1> DEFINE Same == {n \in 0..N : f[n] = g[n]}
<1>8. 0 \in Same
  <2>1. 0 \in 0..N
    BY <1>2
  <2> QED  BY <1>3, <1>7, <2>1
<1>9. ASSUME NEW n \in 1..N, n - 1 \in Same PROVE n \in Same
  <2>1. n \in 0..N /\ n # 0
    BY <1>2
  <2>2. g[n] = Placed(g[n - 1], v[n])
    BY <1>7, <2>1
  <2>3. f[n - 1] = g[n - 1]
    BY <1>9
  <2>4. f[n] = g[n]
    BY <1>4, <2>2, <2>3, Zenon
  <2> QED  BY <2>1, <2>4
<1>10. N \in Same
  <2> HIDE DEF Same
  <2>1. \A n \in 0..N : n \in Same
    BY <1>2, <1>8, <1>9, UpTo
  <2> QED  BY <1>2, <2>1
<1>11. Rows(rects) = f[N]
  BY <1>5, <1>10
<1> HIDE DEF step
<1> QED  BY <1>1, <1>3, <1>4, <1>11, Zenon

-----------------------------------------------------------------------------
(* On a page that is laid out clearly, a row is a line with all of its parts.  *)

NearTo(v, x) == {s \in ToSet(v) : Level(x, s)}

\* A row has all of the first rectangles that are level with one of them.
RowAt(row, v, n, i) ==
    /\ row.y = v[i].y /\ row.height = v[i].height
    /\ row.rects = Those(First(v, n), NearTo(v, v[i]))

\* The rows of the first rectangles, of which the last one stands in the last row.
LinesOf(w, v, n) ==
    /\ \A k \in DOMAIN w : \E i \in 1..n : RowAt(w[k], v, n, i)
    /\ \A j \in 1..n : \E k \in DOMAIN w : Level(w[k], v[j])
    /\ \A k, l \in DOMAIN w : Level(w[k], w[l]) => k = l
    /\ n > 0 => Len(w) > 0 /\ Level(w[Len(w)], v[n])

\* What makes a page clear.
ClearOrder(v) ==
    \A i, j \in DOMAIN v :
        /\ Level(v[i], v[j]) \/ Apart(v[i], v[j])
        /\ \A k \in DOMAIN v :
              /\ Level(v[i], v[j]) /\ Level(v[j], v[k]) => Level(v[i], v[k])
              /\ i < j /\ j < k /\ Level(v[i], v[k]) => Level(v[i], v[j])

\* One that is level with any row is level with the last one.
LEMMA LevelWithLast ==
    ASSUME NEW R, \A r \in R : Placeable(r), NEW v \in Seq(R), ClearOrder(v), NEW n \in 1..Len(v),
           NEW w \in Seq(RowsOf(R)), LinesOf(w, v, n - 1),
           NEW k \in DOMAIN w, Level(w[k], v[n])
    PROVE  Level(w[Len(w)], v[n])
<1>1. /\ Len(v) \in Nat /\ DOMAIN v = 1..Len(v) /\ \A i \in 1..Len(v) : v[i] \in R /\ Placeable(v[i])
      /\ Len(w) \in Nat /\ DOMAIN w = 1..Len(w)
  OBVIOUS
<1>2. PICK i \in 1..(n - 1) : RowAt(w[k], v, n - 1, i)
  BY DEF LinesOf
<1>3. n - 1 \in 1..Len(v) /\ i \in 1..Len(v) /\ n - 1 > 0 /\ i <= n - 1 /\ n - 1 < n
  BY <1>1, <1>2
<1>4. Len(w) > 0 /\ Level(w[Len(w)], v[n - 1])
  BY <1>3 DEF LinesOf
<1>5. Len(w) \in DOMAIN w
  BY <1>1, <1>4
<1>6. PICK l \in 1..(n - 1) : RowAt(w[Len(w)], v, n - 1, l)
  BY <1>5 DEF LinesOf
<1>7. l \in 1..Len(v)
  BY <1>1, <1>6
<1>8. Level(v[i], v[n])
  BY <1>2, LevelSame, Zenon DEF RowAt
<1>9. Level(v[l], v[n - 1])
  BY <1>4, <1>6, LevelSame, Zenon DEF RowAt
<1>10. Level(v[n - 1], v[n])
  <2>1. CASE i = n - 1
    BY <1>8, <2>1
  <2>2. CASE i # n - 1
    <3>1. i < n - 1
      BY <1>2, <1>3, <2>2
    <3>2. Level(v[i], v[n - 1])
      BY <1>1, <1>3, <1>8, <3>1 DEF ClearOrder
    <3>3. Level(v[n - 1], v[i])
      BY <1>1, <1>3, <3>2, LevelFacts
    <3> QED  BY <1>1, <1>3, <1>8, <3>3 DEF ClearOrder
  <2> QED  BY <2>1, <2>2
<1>11. Level(v[l], v[n])
  BY <1>1, <1>3, <1>7, <1>9, <1>10 DEF ClearOrder
<1> QED  BY <1>6, <1>11, LevelSame, Zenon DEF RowAt

\* One more rectangle in the row it is level with.
LEMMA RowAtStep ==
    ASSUME NEW R, NEW v \in Seq(R), NEW n \in 1..Len(v), NEW i \in 1..Len(v)
    PROVE  /\ Level(v[i], v[n]) =>
                 Those(First(v, n), NearTo(v, v[i]))
                     = Append(Those(First(v, n - 1), NearTo(v, v[i])), v[n])
           /\ ~Level(v[i], v[n]) =>
                 Those(First(v, n), NearTo(v, v[i])) = Those(First(v, n - 1), NearTo(v, v[i]))
<1>1. n \in DOMAIN v
  OBVIOUS
<1>2. v[n] \in NearTo(v, v[i]) <=> Level(v[i], v[n])
  BY <1>1 DEF NearTo, ToSet
<1>3. ThoseStep(v, NearTo(v, v[i]), n)
  BY ThoseSteps, Zenon
<1> QED  BY <1>2, <1>3, Zenon DEF ThoseStep

LEMMA LinesOpened ==
    ASSUME NEW R, \A r \in R : Placeable(r), NEW v \in Seq(R), ClearOrder(v), NEW n \in 1..Len(v),
           NEW w \in Seq(RowsOf(R)), LinesOf(w, v, n - 1),
           NEW u \in Seq(RowsOf(R)), Opens(u, w, v[n])
    PROVE  LinesOf(u, v, n)
<1>1. /\ Len(v) \in Nat /\ DOMAIN v = 1..Len(v) /\ \A i \in 1..Len(v) : v[i] \in R /\ Placeable(v[i])
      /\ Len(w) \in Nat /\ DOMAIN w = 1..Len(w)
      /\ \A k \in 1..Len(w) : w[k] \in RowsOf(R)
      /\ n - 1 \in Nat
  OBVIOUS
<1>2. \A k \in DOMAIN w : Placeable(w[k])
  BY <1>1 DEF RowsOf, Placeable
<1>3. /\ \A i \in DOMAIN w : i > Len(w) - 4 => ~SameRow(w[i], v[n])
      /\ Len(u) = Len(w) + 1 /\ \A i \in DOMAIN w : u[i] = w[i]
      /\ u[Len(w) + 1] = [y |-> v[n].y, height |-> v[n].height, rects |-> <<v[n]>>]
  BY DEF Opens
<1>4. ASSUME NEW k \in DOMAIN w PROVE ~Level(w[k], v[n])
  <2> SUFFICES ASSUME Level(w[k], v[n]) PROVE FALSE
    OBVIOUS
  <2>1. Level(w[Len(w)], v[n])
    BY LevelWithLast
  <2>2. Len(w) \in DOMAIN w /\ Len(w) > Len(w) - 4
    BY <1>1
  <2>3. SameRow(w[Len(w)], v[n])
    BY <1>1, <1>2, <2>1, <2>2, LevelFacts
  <2> QED  BY <1>3, <2>2, <2>3
<1>5. \A i \in 1..(n - 1) : i \in 1..Len(v)
  BY <1>1
<1>6. ASSUME NEW j \in 1..(n - 1) PROVE ~Level(v[n], v[j])
  <2> SUFFICES ASSUME Level(v[n], v[j]) PROVE FALSE
    OBVIOUS
  <2>1. PICK k \in DOMAIN w : Level(w[k], v[j])
    BY DEF LinesOf
  <2>2. PICK i \in 1..(n - 1) : RowAt(w[k], v, n - 1, i)
    BY DEF LinesOf
  <2>3. Level(v[i], v[j])
    BY <2>1, <2>2, LevelSame, Zenon DEF RowAt
  <2>4. Level(v[j], v[n])
    BY <1>1, <1>5, LevelFacts
  <2>5. Level(v[i], v[n])
    BY <1>1, <1>5, <2>3, <2>4 DEF ClearOrder
  <2>6. Level(w[k], v[n])
    BY <2>2, <2>5, LevelSame, Zenon DEF RowAt
  <2> QED  BY <1>4, <2>6
<1>7. Those(First(v, n), NearTo(v, v[n])) = <<v[n]>>
  <2>1. Level(v[n], v[n])
    BY <1>1, LevelFacts
  <2>2. PICK before \in Seq(R) : before = Those(First(v, n - 1), NearTo(v, v[n]))
    <3>1. n - 1 \in 0..Len(v)
      BY <1>1
    <3>2. Those(First(v, n - 1), NearTo(v, v[n])) \in Seq(R)
      BY <3>1, ThoseSteps, Zenon
    <3> QED  BY <3>2
  <2>3. before = <<>>
    <3>1. First(v, n - 1) \in Seq(R)
      BY FirstStep, Zenon
    <3>2. \A r : r \in ToSet(before) <=> r \in ToSet(First(v, n - 1)) /\ r \in NearTo(v, v[n])
      BY <2>2, <3>1, ThoseAre, Zenon
    <3>3. ASSUME NEW r \in ToSet(First(v, n - 1)) PROVE r \notin NearTo(v, v[n])
      <4>1. PICK j \in 1..(n - 1) : r = v[j]
        BY DEF ToSet, First
      <4>2. ~Level(v[n], r)
        BY <1>6, <4>1
      <4> QED  BY <4>2 DEF NearTo
    <3>4. ToSet(before) = {}
      BY <3>2, <3>3, Zenon
    <3>5. \A i \in DOMAIN before : before[i] \in ToSet(before)
      BY DEF ToSet
    <3>6. before # <<>> => 1 \in DOMAIN before
      OBVIOUS
    <3> QED  BY <3>4, <3>5, <3>6, Zenon
  <2>4. Append(<<>>, v[n]) = <<v[n]>>
    OBVIOUS
  <2>5. Those(First(v, n), NearTo(v, v[n])) = Append(before, v[n])
    BY <1>1, <2>1, <2>2, RowAtStep
  <2> QED  BY <2>3, <2>4, <2>5
<1>8. RowAt(u[Len(w) + 1], v, n, n)
  BY <1>3, <1>7 DEF RowAt
<1>9. ASSUME NEW k \in DOMAIN w PROVE \E i \in 1..n : RowAt(u[k], v, n, i)
  <2>1. PICK i \in 1..(n - 1) : RowAt(w[k], v, n - 1, i)
    BY DEF LinesOf
  <2>2. ~Level(v[i], v[n])
    BY <1>4, <2>1, LevelSame, Zenon DEF RowAt
  <2>3. Those(First(v, n), NearTo(v, v[i])) = Those(First(v, n - 1), NearTo(v, v[i]))
    BY <1>5, <2>2, RowAtStep, Zenon
  <2>4. RowAt(u[k], v, n, i)
    BY <1>3, <2>1, <2>3, Zenon DEF RowAt
  <2>5. i \in 1..n
    BY <1>1, <2>1
  <2> QED  BY <2>4, <2>5
<1>10. DOMAIN u = 1..(Len(w) + 1)
  BY <1>3
<1>11. \A k \in DOMAIN u : k \in DOMAIN w \/ k = Len(w) + 1
  BY <1>1, <1>10
<1>12. n \in 1..n
  BY <1>1
<1>13. \A k \in DOMAIN u : \E i \in 1..n : RowAt(u[k], v, n, i)
  BY <1>8, <1>9, <1>11, <1>12
<1>14. Level(u[Len(w) + 1], v[n])
  <2>1. Level(v[n], v[n])
    BY <1>1, LevelFacts
  <2> QED  BY <1>8, <2>1, LevelSame, Zenon DEF RowAt
<1>15. ASSUME NEW j \in 1..n PROVE \E k \in DOMAIN u : Level(u[k], v[j])
  <2>1. CASE j = n
    BY <1>1, <1>10, <1>14, <2>1
  <2>2. CASE j # n
    <3>1. j \in 1..(n - 1)
      BY <1>1, <2>2
    <3>2. PICK k \in DOMAIN w : Level(w[k], v[j])
      BY <3>1 DEF LinesOf
    <3>3. k \in DOMAIN u /\ Level(u[k], v[j])
      BY <1>1, <1>3, <1>10, <3>2
    <3> QED  BY <3>3
  <2> QED  BY <2>1, <2>2
<1>16. ASSUME NEW k \in DOMAIN u, NEW l \in DOMAIN u, Level(u[k], u[l]) PROVE k = l
  <2>1. ASSUME NEW m \in DOMAIN w PROVE ~Level(u[m], u[Len(w) + 1]) /\ ~Level(u[Len(w) + 1], u[m])
    <3>1. ~Level(w[m], v[n])
      BY <1>4
    <3>2. ~Level(v[n], w[m])
      BY <1>1, <1>2, <3>1, LevelFacts
    <3>3. u[m] = w[m] /\ u[Len(w) + 1].y = v[n].y /\ u[Len(w) + 1].height = v[n].height
      BY <1>3
    <3> QED  BY <3>1, <3>2, <3>3, LevelSame, Zenon
  <2>2. CASE k \in DOMAIN w /\ l \in DOMAIN w
    BY <1>3, <1>16, <2>2 DEF LinesOf
  <2> QED  BY <1>11, <1>16, <2>1, <2>2
<1>17. Len(u) > 0 /\ Level(u[Len(u)], v[n])
  BY <1>1, <1>3, <1>14
<1> QED  BY <1>13, <1>15, <1>16, <1>17 DEF LinesOf

LEMMA LinesJoined ==
    ASSUME NEW R, \A r \in R : Placeable(r), NEW v \in Seq(R), ClearOrder(v), NEW n \in 1..Len(v),
           NEW w \in Seq(RowsOf(R)), LinesOf(w, v, n - 1),
           NEW u \in Seq(RowsOf(R)), NEW m \in DOMAIN w, JoinsRow(u, w, v[n], m)
    PROVE  LinesOf(u, v, n)
<1>1. /\ Len(v) \in Nat /\ DOMAIN v = 1..Len(v) /\ \A i \in 1..Len(v) : v[i] \in R /\ Placeable(v[i])
      /\ Len(w) \in Nat /\ DOMAIN w = 1..Len(w)
      /\ \A k \in 1..Len(w) : w[k] \in RowsOf(R)
      /\ n - 1 \in Nat
  OBVIOUS
<1>2. \A k \in DOMAIN w : Placeable(w[k])
  BY <1>1 DEF RowsOf, Placeable
<1>3. /\ SameRow(w[m], v[n]) /\ Len(u) = Len(w)
      /\ \A i \in DOMAIN w : i # m => u[i] = w[i]
      /\ u[m].y = w[m].y /\ u[m].height = w[m].height
      /\ u[m].rects = Append(w[m].rects, v[n])
  BY DEF JoinsRow
<1>4. DOMAIN u = DOMAIN w /\ \A k \in DOMAIN w : u[k].y = w[k].y /\ u[k].height = w[k].height
  BY <1>1, <1>3
<1>5. \A i \in 1..(n - 1) : i \in 1..Len(v) /\ i \in 1..n
  BY <1>1
<1>6. PICK im \in 1..(n - 1) : RowAt(w[m], v, n - 1, im)
  BY DEF LinesOf
<1>7. Level(v[im], v[n]) /\ Level(w[m], v[n])
  <2>1. SameRow(v[im], v[n])
    BY <1>3, <1>6, LevelSame, Zenon DEF RowAt
  <2>2. Level(v[im], v[n])
    BY <1>1, <1>5, <2>1, LevelFacts DEF ClearOrder
  <2>3. Level(w[m], v[n])
    BY <1>6, <2>2, LevelSame, Zenon DEF RowAt
  <2> QED  BY <2>2, <2>3
<1>8. ASSUME NEW k \in DOMAIN w, k # m PROVE ~Level(w[k], v[n])
  <2> SUFFICES ASSUME Level(w[k], v[n]) PROVE FALSE
    OBVIOUS
  <2>1. PICK i \in 1..(n - 1) : RowAt(w[k], v, n - 1, i)
    BY DEF LinesOf
  <2>2. Level(v[i], v[n])
    BY <2>1, LevelSame, Zenon DEF RowAt
  <2>3. Level(v[n], v[im])
    BY <1>1, <1>5, <1>7, LevelFacts
  <2>4. Level(v[i], v[im])
    BY <1>1, <1>5, <2>2, <2>3 DEF ClearOrder
  <2>5. Level(w[k], w[m])
    BY <1>6, <2>1, <2>4, LevelSame, Zenon DEF RowAt
  <2> QED  BY <1>8, <2>5 DEF LinesOf
<1>9. RowAt(u[m], v, n, im)
  <2>1. Those(First(v, n), NearTo(v, v[im])) = Append(Those(First(v, n - 1), NearTo(v, v[im])), v[n])
    BY <1>5, <1>7, RowAtStep, Zenon
  <2> QED  BY <1>3, <1>6, <2>1, Zenon DEF RowAt
<1>10. ASSUME NEW k \in DOMAIN w, k # m PROVE \E i \in 1..n : RowAt(u[k], v, n, i)
  <2>1. PICK i \in 1..(n - 1) : RowAt(w[k], v, n - 1, i)
    BY DEF LinesOf
  <2>2. ~Level(v[i], v[n])
    BY <1>8, <1>10, <2>1, LevelSame, Zenon DEF RowAt
  <2>3. Those(First(v, n), NearTo(v, v[i])) = Those(First(v, n - 1), NearTo(v, v[i]))
    BY <1>5, <2>2, RowAtStep, Zenon
  <2>4. u[k] = w[k]
    BY <1>3, <1>10
  <2>5. RowAt(u[k], v, n, i)
    BY <2>1, <2>3, <2>4, Zenon DEF RowAt
  <2> QED  BY <1>5, <2>5
<1>11. \A k \in DOMAIN u : \E i \in 1..n : RowAt(u[k], v, n, i)
  BY <1>4, <1>5, <1>9, <1>10
<1>12. \A k \in DOMAIN w : \A x : Level(u[k], x) <=> Level(w[k], x)
  BY <1>4, LevelSame, Zenon
<1>13. ASSUME NEW j \in 1..n PROVE \E k \in DOMAIN u : Level(u[k], v[j])
  <2>1. CASE j = n
    BY <1>4, <1>7, <1>12, <2>1
  <2>2. CASE j # n
    <3>1. j \in 1..(n - 1)
      BY <1>1, <2>2
    <3>2. PICK k \in DOMAIN w : Level(w[k], v[j])
      BY <3>1 DEF LinesOf
    <3> QED  BY <1>4, <1>12, <3>2
  <2> QED  BY <2>1, <2>2
<1>14. ASSUME NEW k \in DOMAIN u, NEW l \in DOMAIN u, Level(u[k], u[l]) PROVE k = l
  <2>1. Level(w[k], u[l])
    BY <1>4, <1>12, <1>14
  <2>2. Level(w[k], w[l])
    BY <1>4, <2>1, LevelSame, Zenon
  <2> QED  BY <1>4, <2>2 DEF LinesOf
<1>15. Len(u) > 0 /\ Level(u[Len(u)], v[n])
  <2>1. Level(w[Len(w)], v[n])
    BY <1>7, LevelWithLast
  <2>2. Len(w) \in DOMAIN w
    BY <1>1
  <2> QED  BY <1>1, <1>3, <1>12, <2>1, <2>2
<1> QED  BY <1>11, <1>13, <1>14, <1>15 DEF LinesOf

\* On a clear page, every visible rectangle is in a row, and a row is all of the line
\* that any of its rectangles stands on.
THEOREM RowsAreLines ==
    ASSUME NEW rects \in Seq(Rectangles), Clear(rects)
    PROVE  /\ \A r \in ToSet(Visible(rects)) : \E k \in DOMAIN Rows(rects) : r \in ToSet(Rows(rects)[k].rects)
           /\ \A k \in DOMAIN Rows(rects) : \A r \in ToSet(Rows(rects)[k].rects) :
                 Rows(rects)[k].rects = OnLine(rects, r)
<1>1. PICK v \in Seq(Rectangles) : v = Visible(rects)
  BY ThoseAre DEF Visible
<1>2. Len(v) \in Nat /\ DOMAIN v = 1..Len(v) /\ \A r \in Rectangles : Placeable(r)
  BY DEF Rectangles, Placeable
<1>3. ClearOrder(v)
  BY <1>1, Zenon DEF Clear, ClearOrder
<1>4. PICK f \in [0..Len(v) -> Seq(RowsOf(Rectangles))] :
          /\ f[0] = <<>> /\ \A n \in 1..Len(v) : f[n] = Placed(f[n - 1], v[n])
          /\ Rows(rects) = f[Len(v)]
  BY <1>1, <1>2, RowsSteps, Zenon
<1> DEFINE Told == {n \in 0..Len(v) : LinesOf(f[n], v, n)}
<1>5. 0 \in Told
  <2>1. 0 \in 0..Len(v) /\ DOMAIN <<>> = {} /\ 1..0 = {} /\ ~(0 > 0)
    BY <1>2
  <2> QED  BY <1>4, <2>1 DEF LinesOf
<1>6. ASSUME NEW n \in 1..Len(v), n - 1 \in Told PROVE n \in Told
  <2>1. n \in 0..Len(v) /\ n - 1 \in 0..Len(v)
    BY <1>2
  <2>2. PICK w \in Seq(RowsOf(Rectangles)), u \in Seq(RowsOf(Rectangles)) : w = f[n - 1] /\ u = f[n]
    BY <2>1
  <2>3. u = Placed(w, v[n]) /\ LinesOf(w, v, n - 1)
    BY <1>4, <1>6, <2>2
  <2>4. v[n] \in Rectangles /\ Placeable(v[n])
    BY <1>2
  <2>5. Opens(u, w, v[n]) \/ \E m \in DOMAIN w : JoinsRow(u, w, v[n], m)
    BY <2>3, <2>4, PlacedIs, Zenon
  <2>6. CASE Opens(u, w, v[n])
    <3>1. LinesOf(u, v, n)
      BY <1>2, <1>3, <2>3, <2>6, LinesOpened
    <3> QED  BY <2>1, <2>2, <3>1
  <2>7. CASE \E m \in DOMAIN w : JoinsRow(u, w, v[n], m)
    <3>1. PICK m \in DOMAIN w : JoinsRow(u, w, v[n], m)
      BY <2>7
    <3>2. LinesOf(u, v, n)
      BY <1>2, <1>3, <2>3, <3>1, LinesJoined
    <3> QED  BY <2>1, <2>2, <3>2
  <2> QED  BY <2>5, <2>6, <2>7
<1>7. Len(v) \in Told
  <2> HIDE DEF Told
  <2>1. \A n \in 0..Len(v) : n \in Told
    BY <1>2, <1>5, <1>6, UpTo
  <2> QED  BY <1>2, <2>1
<1>8. PICK w \in Seq(RowsOf(Rectangles)) : w = Rows(rects) /\ LinesOf(w, v, Len(v))
  <2>1. Len(v) \in 0..Len(v)
    BY <1>2
  <2> QED  BY <1>4, <1>7, <2>1
<1>9. ASSUME NEW k \in DOMAIN w
      PROVE  \E i \in 1..Len(v) : /\ w[k].rects = Those(v, NearTo(v, v[i]))
                                  /\ \A x : Level(w[k], x) <=> Level(v[i], x)
  <2>1. PICK i \in 1..Len(v) : RowAt(w[k], v, Len(v), i)
    BY <1>8 DEF LinesOf
  <2>2. First(v, Len(v)) = v
    BY FirstOfAll, Zenon
  <2>3. \A x : Level(w[k], x) <=> Level(v[i], x)
    BY <2>1, LevelSame, Zenon DEF RowAt
  <2> QED  BY <2>1, <2>2, <2>3, Zenon DEF RowAt
<1>10. ASSUME NEW r \in ToSet(v) PROVE \E k \in DOMAIN w : r \in ToSet(w[k].rects)
  <2>1. PICK j \in 1..Len(v) : r = v[j]
    BY <1>2 DEF ToSet
  <2>2. PICK k \in DOMAIN w : Level(w[k], r)
    BY <1>8, <2>1 DEF LinesOf
  <2>3. PICK i \in 1..Len(v) : w[k].rects = Those(v, NearTo(v, v[i])) /\ Level(v[i], r)
    BY <1>9, <2>2
  <2>4. r \in NearTo(v, v[i])
    BY <2>3 DEF NearTo
  <2>5. r \in ToSet(w[k].rects)
    BY <2>3, <2>4, ThoseAre, Zenon
  <2> QED  BY <2>5
<1>11. ASSUME NEW k \in DOMAIN w, NEW r \in ToSet(w[k].rects) PROVE w[k].rects = OnLine(rects, r)
  <2>1. PICK i \in 1..Len(v) : w[k].rects = Those(v, NearTo(v, v[i]))
    BY <1>9
  <2>2. r \in ToSet(v) /\ r \in NearTo(v, v[i])
    BY <1>11, <2>1, ThoseAre, Zenon
  <2>3. Level(v[i], r)
    BY <2>2 DEF NearTo
  <2>4. PICK j \in 1..Len(v) : r = v[j]
    BY <1>2, <2>2 DEF ToSet
  <2>5. Level(r, v[i])
    BY <1>2, <2>3, <2>4, LevelFacts
  <2>6. ASSUME NEW s \in ToSet(v) PROVE s \in NearTo(v, v[i]) <=> s \in NearTo(v, r)
    <3>1. PICK l \in 1..Len(v) : s = v[l]
      BY <1>2 DEF ToSet
    <3>2. Level(v[i], s) <=> Level(r, s)
      BY <1>2, <1>3, <2>3, <2>4, <2>5, <3>1 DEF ClearOrder
    <3> QED  BY <3>2 DEF NearTo
  <2>7. Those(v, NearTo(v, v[i])) = Those(v, NearTo(v, r))
    BY <2>6, ThoseSame, Zenon
  <2>8. OnLine(rects, r) = Those(v, NearTo(v, r))
    BY <1>1, Zenon DEF OnLine, NearTo
  <2> QED  BY <2>1, <2>7, <2>8, Zenon
<1> QED  BY <1>1, <1>8, <1>10, <1>11

-----------------------------------------------------------------------------
(* The pictures of a page. *)

ImageObject == [name : STRING, coverage : Nat, thin : BOOLEAN]

LEMMA RegionsSteps ==
    ASSUME NEW page, page.objects \in Seq(ImageObject)
    PROVE  \E f \in [0..Len(page.objects) -> Seq(ImageObject)] :
              /\ f[0] = <<>>
              /\ \A n \in 1..Len(page.objects) :
                    f[n] = IF page.objects[n].coverage >= 25 /\ Len(f[n - 1]) < MaxIllustrations
                           THEN Append(f[n - 1], page.objects[n]) ELSE f[n - 1]
              /\ ImageRegions(page) = f[Len(page.objects)]
<1> DEFINE N == Len(page.objects)
           Next(v, n) == IF page.objects[n].coverage >= 25 /\ Len(v) < MaxIllustrations
                         THEN Append(v, page.objects[n]) ELSE v
           step == [n \in 1..N |-> [v \in Seq(ImageObject) |-> Next(v, n)]]
<1>1. N \in Nat /\ \A n \in 1..N : page.objects[n] \in ImageObject
  OBVIOUS
<1>2. ASSUME NEW n \in 1..N, NEW v \in Seq(ImageObject)
      PROVE  Next(v, n) \in Seq(ImageObject)
  BY <1>1
<1> HIDE DEF Next
<1>3. PICK f \in [0..N -> Seq(ImageObject)] : f[0] = <<>> /\ Takes(f, step, N)
  <2>1. Steps(step, N, Seq(ImageObject))
    BY <1>2 DEF Steps
  <2>2. <<>> \in Seq(ImageObject)
    OBVIOUS
  <2> HIDE DEF step, N
  <2> QED  BY <1>1, <2>1, <2>2, Recursion
<1>4. ASSUME NEW n \in 1..N
      PROVE  f[n] = Next(f[n - 1], n)
  <2>1. n - 1 \in 0..N
    BY <1>1
  <2> QED  BY <1>3, <2>1 DEF Takes
<1> DEFINE Builds(g) == g = [n \in 0..N |-> IF n = 0 THEN <<>> ELSE Next(g[n - 1], n)]
           g == CHOOSE h : Builds(h)
<1>5. ImageRegions(page) = g[N]
  BY DEF ImageRegions, Next
<1>6. Builds(f)
  BY <1>3, <1>4
<1>7. Builds(g)
  BY <1>6
<1> HIDE DEF g
<1> DEFINE Same == {n \in 0..N : f[n] = g[n]}
<1>8. N \in Same
  <2>1. 0 \in Same
    BY <1>1, <1>3, <1>7
  <2>2. ASSUME NEW n \in 1..N, n - 1 \in Same PROVE n \in Same
    <3>1. n \in 0..N /\ n # 0
      BY <1>1
    <3>2. g[n] = Next(g[n - 1], n)
      BY <1>7, <3>1
    <3> QED  BY <1>4, <2>2, <3>1, <3>2, Zenon
  <2> HIDE DEF Same
  <2>3. \A n \in 0..N : n \in Same
    BY <1>1, <2>1, <2>2, UpTo
  <2> QED  BY <1>1, <2>3
<1> QED  BY <1>3, <1>4, <1>5, <1>8 DEF Next

\* The look at a page sees every large object, if there are not too many.
LEMMA RegionsHold ==
    ASSUME NEW page, page.objects \in Seq(ImageObject)
    PROVE  /\ ImageRegions(page) \in Seq(ImageObject)
           /\ Cardinality(Large(page)) <= MaxIllustrations =>
                 \A i \in Large(page) :
                    \E k \in 1..Len(ImageRegions(page)) : ImageRegions(page)[k] = page.objects[i]
<1> DEFINE N == Len(page.objects)
           objects == page.objects
           Upto(n) == {i \in 1..n : objects[i].coverage >= 25}
<1>1. PICK f \in [0..N -> Seq(ImageObject)] :
          /\ f[0] = <<>>
          /\ \A n \in 1..N : f[n] = IF objects[n].coverage >= 25 /\ Len(f[n - 1]) < MaxIllustrations
                                     THEN Append(f[n - 1], objects[n]) ELSE f[n - 1]
          /\ ImageRegions(page) = f[N]
  BY RegionsSteps, Zenon
<1>2. /\ N \in Nat /\ objects \in Seq(ImageObject) /\ DOMAIN objects = 1..N
      /\ MaxIllustrations \in Nat
      /\ \A n \in 1..N : objects[n] \in ImageObject
  BY ConversionAssumption
<1>3. Large(page) = Upto(N)
  BY <1>2 DEF Large
<1>4. \A n \in 0..N : IsFiniteSet(Upto(n)) /\ Cardinality(Upto(n)) \in Nat
  <2> SUFFICES ASSUME NEW n \in 0..N PROVE IsFiniteSet(Upto(n)) /\ Cardinality(Upto(n)) \in Nat
    OBVIOUS
  <2>1. IsFiniteSet(1..n)
    BY <1>2, FS_Interval
  <2>2. Upto(n) \subseteq 1..n
    OBVIOUS
  <2>3. IsFiniteSet(Upto(n))
    BY <2>1, <2>2, FS_Subset
  <2> QED  BY <2>3, FS_CardinalityType
<1> SUFFICES ASSUME Cardinality(Upto(N)) <= MaxIllustrations
             PROVE  \A i \in Upto(N) : \E k \in 1..Len(f[N]) : f[N][k] = objects[i]
  BY <1>1, <1>2, <1>3
<1> DEFINE Seen == {n \in 0..N :
               /\ Len(f[n]) <= Cardinality(Upto(n))
               /\ \A i \in Upto(n) : \E k \in 1..Len(f[n]) : f[n][k] = objects[i]}
<1>5. 0 \in Seen
  <2>1. Upto(0) = {} /\ 0 \in 0..N
    BY <1>2
  <2> HIDE DEF Upto
  <2> QED  BY <1>1, <1>4, <2>1, FS_EmptySet
<1>6. ASSUME NEW n \in 1..N, n - 1 \in Seen PROVE n \in Seen
  <2> DEFINE before == f[n - 1]
  <2>1. n \in 0..N /\ n - 1 \in 0..N /\ before \in Seq(ImageObject) /\ objects[n] \in ImageObject
    <3>1. n \in 0..N /\ n - 1 \in 0..N
      BY <1>2
    <3>2. before \in Seq(ImageObject)
      BY <3>1
    <3> QED  BY <1>2, <3>1, <3>2
  <2>2. /\ Len(before) <= Cardinality(Upto(n - 1))
        /\ \A i \in Upto(n - 1) : \E k \in 1..Len(before) : before[k] = objects[i]
    BY <1>6
  <2>3. f[n] = IF objects[n].coverage >= 25 /\ Len(before) < MaxIllustrations
               THEN Append(before, objects[n]) ELSE before
    BY <1>1
  <2>4. Len(before) \in Nat
    BY <2>1
  <2> HIDE DEF before
  <2>5. CASE objects[n].coverage >= 25
    <3>1. Upto(n) = Upto(n - 1) \cup {n} /\ n \notin Upto(n - 1) /\ Upto(n) \subseteq Upto(N)
      BY <1>2, <2>5
    <3> HIDE DEF Upto, N
    <3>2. Cardinality(Upto(n)) = Cardinality(Upto(n - 1)) + 1
      BY <1>4, <2>1, <3>1, FS_AddElement
    <3>3. Cardinality(Upto(n)) <= Cardinality(Upto(N))
      <4>1. N \in 0..N
        BY <1>2
      <4> QED  BY <1>4, <3>1, <4>1, FS_Subset
    <3>4. Cardinality(Upto(n)) \in Nat /\ Cardinality(Upto(n - 1)) \in Nat /\ Cardinality(Upto(N)) \in Nat
      BY <1>2, <1>4, <2>1
    <3>5. f[n] = Append(before, objects[n])
      BY <1>2, <2>2, <2>3, <2>4, <2>5, <3>2, <3>3, <3>4
    <3>6. /\ Len(f[n]) = Len(before) + 1 /\ f[n][Len(before) + 1] = objects[n]
          /\ \A k \in 1..Len(before) : f[n][k] = before[k]
      BY <2>1, <3>5
    <3>7. Len(f[n]) <= Cardinality(Upto(n))
      BY <2>2, <2>4, <3>2, <3>4, <3>6
    <3>8. \A i \in Upto(n) : \E k \in 1..Len(f[n]) : f[n][k] = objects[i]
      <4> SUFFICES ASSUME NEW i \in Upto(n) PROVE \E k \in 1..Len(f[n]) : f[n][k] = objects[i]
        OBVIOUS
      <4>1. CASE i = n
        BY <2>4, <3>6, <4>1
      <4>2. CASE i \in Upto(n - 1)
        <5>1. PICK k \in 1..Len(before) : before[k] = objects[i]
          BY <2>2, <4>2
        <5> QED  BY <2>4, <3>6, <5>1
      <4> QED  BY <3>1, <4>1, <4>2
    <3> QED  BY <2>1, <3>7, <3>8
  <2>6. CASE ~(objects[n].coverage >= 25)
    <3>1. Upto(n) = Upto(n - 1)
      BY <1>2, <2>6
    <3>2. f[n] = before
      BY <2>3, <2>6
    <3> HIDE DEF Upto
    <3> QED  BY <2>1, <2>2, <3>1, <3>2
  <2> QED  BY <2>5, <2>6
<1>7. N \in Seen
  <2> HIDE DEF Seen
  <2>1. \A n \in 0..N : n \in Seen
    BY <1>2, <1>5, <1>6, UpTo
  <2> QED  BY <1>2, <2>1
<1> QED  BY <1>7

LEMMA CutImagesType ==
    ASSUME NEW page, page.objects \in Seq(ImageObject)
    PROVE  CutImages(page) \in Seq(STRING)
<1> DEFINE regions == ImageRegions(page)
           s == [i \in DOMAIN regions |-> IF regions[i].thin THEN <<>> ELSE <<regions[i].name>>]
<1>1. regions \in Seq(ImageObject)
  BY RegionsHold, Zenon
<1> HIDE DEF regions
<1>2. s \in Seq(Seq(STRING))
  <2>1. DOMAIN regions = 1..Len(regions) /\ \A i \in 1..Len(regions) : regions[i] \in ImageObject
    BY <1>1
  <2>2. ASSUME NEW i \in 1..Len(regions)
        PROVE  (IF regions[i].thin THEN <<>> ELSE <<regions[i].name>>) \in Seq(STRING)
    <3>1. PICK name \in STRING : name = regions[i].name
      BY <2>1 DEF ImageObject
    <3>2. <<name>> \in Seq(STRING) /\ <<>> \in Seq(STRING)
      OBVIOUS
    <3> QED  BY <3>1, <3>2, Zenon
  <2>3. Len(regions) \in Nat
    BY <1>1
  <2> QED  BY <2>1, <2>2, <2>3
<1> HIDE DEF s
<1>3. FlattenSeq(s) \in Seq(STRING)
  BY <1>2, FlattenType, Zenon
<1> QED  BY <1>3 DEF CutImages, s, regions

-----------------------------------------------------------------------------
(* The invariant of a conversion. *)

\* What the extraction makes of a page, and of the first n.
LookedAt(page) == [lines |-> PlainTextToLines(page.text, page.rects), images |-> CutImages(page)]

LookedUpTo(n) == [p \in 1..n |-> LookedAt(pdf.pages[p])]

PagesLeft == {"preflight", "extracting", "page", "failed"}

PlaceInv ==
    /\ pdf \in Documents
    /\ place \in PagesLeft \cup {"rebuilt", "written", "validating", "checked", "succeeded"}
    /\ layout \in {"none", "reflowable", "fixed"}
    /\ layout = "none" => place \in {"preflight", "failed"}
    /\ place = "preflight" => layout = "none"

\* What is extracted is extracted from the first pages, one after the other,
\* and all of them have been by the time the book is built.
ExtractionInv ==
    \E n \in 0..Len(pdf.pages) :
        /\ pages = IF layout = "reflowable" THEN LookedUpTo(n) ELSE <<>>
        /\ pageImages = IF layout = "fixed" THEN [p \in 1..n |-> p] ELSE <<>>
        /\ layout = "none" => n = 0
        /\ layout = "reflowable" => \A p \in 1..n : ~MissingText(pdf.pages[p], p)
        /\ place = "page" => n < Len(pdf.pages)
        /\ Built => n = Len(pdf.pages)

BookInv ==
    Built => book = IF layout = "fixed" THEN FixedLayoutBook(pageImages, pdf.outline)
                    ELSE Rebuild(pages, pdf.outline)

FileInv ==
    /\ place \in {"written", "validating", "checked", "succeeded"} => file = "whole"
    /\ file \in {"none", "partial", "whole"}

\* What has been reported is never ahead of where the conversion is.
ReportInv ==
    /\ reported \in [stage : {"preflight", "extracting", "rebuilding", "packaging", "validating"},
                     pages : Nat]
    /\ place = "preflight" => reported = [stage |-> "preflight", pages |-> 0]
    /\ place \in {"extracting", "page"} =>
          /\ reported.stage \in {"preflight", "extracting"}
          /\ reported.pages \in 0..Extracted
    /\ place = "rebuilt" => reported = [stage |-> "rebuilding", pages |-> Extracted]
    /\ place = "written" => reported = [stage |-> "packaging", pages |-> Extracted]

ConversionInv == PlaceInv /\ ExtractionInv /\ BookInv /\ FileInv /\ ReportInv

LEMMA DocumentPages ==
    ASSUME pdf \in Documents
    PROVE  /\ Len(pdf.pages) \in Nat /\ DOMAIN pdf.pages = 1..Len(pdf.pages)
           /\ \A p \in 1..Len(pdf.pages) :
                 pdf.pages[p].text \in Seq(Texts) /\ pdf.pages[p].objects \in Seq(ImageObject)
<1>1. pdf.pages \in Seq(ToSet(pdf.pages))
  BY DocumentAssumption
<1>2. Len(pdf.pages) \in Nat /\ DOMAIN pdf.pages = 1..Len(pdf.pages)
  BY <1>1
<1>3. \A p \in DOMAIN pdf.pages :
          pdf.pages[p].text \in Seq(Texts) /\ pdf.pages[p].objects \in Seq(ImageObject)
  BY DocumentAssumption DEF ImageObject
<1> QED  BY <1>2, <1>3

LEMMA PageLookedAt ==
    ASSUME NEW page, page.text \in Seq(Texts), page.objects \in Seq(ImageObject)
    PROVE  IsPage(LookedAt(page)) /\ Lettering(LookedAt(page).lines) = Words(page)
<1>1. /\ IsLines(PlainTextToLines(page.text, page.rects))
      /\ Lettering(PlainTextToLines(page.text, page.rects)) = Words(page)
  BY PlainTextRead, Zenon DEF Words
<1>2. CutImages(page) \in Seq(STRING)
  BY CutImagesType, Zenon
<1>3. /\ LookedAt(page).lines = PlainTextToLines(page.text, page.rects)
      /\ LookedAt(page).images = CutImages(page)
  BY DEF LookedAt
<1> QED  BY <1>1, <1>2, <1>3 DEF IsPage

LEMMA PagesLookedAt ==
    ASSUME pdf \in Documents, NEW n \in 0..Len(pdf.pages)
    PROVE  /\ \E P : LookedUpTo(n) \in Seq(P)
           /\ Len(LookedUpTo(n)) = n
           /\ \A p \in 1..n : /\ IsPage(LookedUpTo(n)[p])
                              /\ Lettering(LookedUpTo(n)[p].lines) = Words(pdf.pages[p])
           /\ n < Len(pdf.pages) =>
                 Append(LookedUpTo(n), LookedAt(pdf.pages[n + 1])) = LookedUpTo(n + 1)
<1> DEFINE N == Len(pdf.pages)
           P == {LookedAt(pdf.pages[p]) : p \in 1..N}
<1>1. N \in Nat
  BY DocumentPages
<1>2. ASSUME NEW p \in 1..N
      PROVE  /\ LookedAt(pdf.pages[p]) \in P /\ IsPage(LookedAt(pdf.pages[p]))
             /\ Lettering(LookedAt(pdf.pages[p]).lines) = Words(pdf.pages[p])
  BY DocumentPages, PageLookedAt
<1> HIDE DEF P
<1>3. \A m \in 0..N : LookedUpTo(m) \in Seq(P) /\ Len(LookedUpTo(m)) = m
                     /\ \A p \in 1..m : LookedUpTo(m)[p] = LookedAt(pdf.pages[p])
  BY <1>1, <1>2 DEF LookedUpTo
<1>4. \A p \in 1..n : p \in 1..N
  BY <1>1
<1>5. ASSUME n < N
      PROVE  LookedUpTo(n + 1) = Append(LookedUpTo(n), LookedAt(pdf.pages[n + 1]))
  <2>1. n + 1 \in 0..N /\ n \in 0..N /\ n + 1 \in 1..N /\ n \in Nat
    BY <1>1, <1>5
  <2>2. /\ LookedUpTo(n + 1) \in Seq(P) /\ Len(LookedUpTo(n + 1)) = n + 1
        /\ LookedUpTo(n) \in Seq(P) /\ Len(LookedUpTo(n)) = n
        /\ \A p \in 1..(n + 1) : LookedUpTo(n + 1)[p] = LookedAt(pdf.pages[p])
        /\ \A p \in 1..n : LookedUpTo(n)[p] = LookedAt(pdf.pages[p])
    BY <1>3, <2>1
  <2>3. LookedAt(pdf.pages[n + 1]) \in P
    BY <1>2, <2>1
  <2>4. /\ Len(LookedUpTo(n + 1)) = Len(LookedUpTo(n)) + 1
        /\ LookedUpTo(n + 1)[Len(LookedUpTo(n)) + 1] = LookedAt(pdf.pages[n + 1])
        /\ \A p \in 1..Len(LookedUpTo(n)) : LookedUpTo(n + 1)[p] = LookedUpTo(n)[p]
    BY <2>1, <2>2
  <2> QED  BY <2>2, <2>3, <2>4, AppendIs, Zenon
<1> QED  BY <1>2, <1>3, <1>4, <1>5

\* How far the extraction is.
LEMMA ExtractedCount ==
    ASSUME PlaceInv, NEW n \in 0..Len(pdf.pages),
           pages = IF layout = "reflowable" THEN LookedUpTo(n) ELSE <<>>,
           pageImages = IF layout = "fixed" THEN [p \in 1..n |-> p] ELSE <<>>,
           layout = "none" => n = 0
    PROVE  Extracted = n /\ Extracted \in Nat /\ Counted = n
<1>1. pdf \in Documents /\ n \in Nat /\ layout \in {"none", "reflowable", "fixed"}
  BY DocumentPages DEF PlaceInv
<1>2. Len(LookedUpTo(n)) = n
  BY <1>1, PagesLookedAt
<1>3. [p \in 1..n |-> p] \in Seq(Nat) /\ Len([p \in 1..n |-> p]) = n
  BY <1>1
<1>4. Len(pages) = (IF layout = "reflowable" THEN n ELSE 0)
      /\ Len(pageImages) = (IF layout = "fixed" THEN n ELSE 0)
  BY <1>2, <1>3
<1>5. PICK a \in Nat, b \in Nat : a = Len(pages) /\ b = Len(pageImages)
  BY <1>1, <1>4
<1>6. a + b = n
  BY <1>1, <1>4, <1>5
<1> QED  BY <1>1, <1>5, <1>6, Zenon DEF Extracted, Counted

LEMMA SectionsInOrder ==
    ASSUME ConversionInv, Built
    PROVE  /\ Len(book.sections) = Extracted /\ Extracted = Len(pdf.pages)
           /\ [k \in DOMAIN book.sections |-> book.sections[k].page]
                  = [p \in DOMAIN pdf.pages |-> p]
<1>1. PICK n \in 0..Len(pdf.pages) :
          /\ pages = IF layout = "reflowable" THEN LookedUpTo(n) ELSE <<>>
          /\ pageImages = IF layout = "fixed" THEN [p \in 1..n |-> p] ELSE <<>>
          /\ layout = "none" => n = 0
          /\ n = Len(pdf.pages)
  BY DEF ConversionInv, ExtractionInv
<1>2. Extracted = n
  BY <1>1, ExtractedCount DEF ConversionInv
<1>3. layout \in {"reflowable", "fixed"} /\ pdf \in Documents
  BY DEF ConversionInv, PlaceInv, Built
<1>4. Len(pdf.pages) \in Nat /\ DOMAIN pdf.pages = 1..n
  BY <1>1, <1>3, DocumentPages
<1>5. DOMAIN book.sections = 1..n /\ Len(book.sections) = n
      /\ \A k \in 1..n : book.sections[k].page = k
  <2>1. CASE layout = "reflowable"
    <3>1. book.sections = Sections(LookedUpTo(n))
      BY <1>1, <2>1 DEF ConversionInv, BookInv, Rebuild, Book
    <3>2. PICK P : LookedUpTo(n) \in Seq(P)
      BY <1>3, PagesLookedAt
    <3>3. Len(LookedUpTo(n)) = n /\ \A p \in 1..n : IsPage(LookedUpTo(n)[p])
      BY <1>3, PagesLookedAt
    <3>4. PICK ps \in Seq(P) : ps = LookedUpTo(n)
      BY <3>2
    <3>5. /\ Len(Sections(ps)) = Len(ps) /\ Sections(ps) \in Seq(SectionRecord)
          /\ \A k \in 1..Len(ps) : Sections(ps)[k].page = k
      <4>1. \A p \in 1..Len(ps) : IsPage(ps[p])
        BY <3>3, <3>4
      <4> QED  BY <4>1, RebuildRead, Zenon
    <3>6. DOMAIN Sections(ps) = 1..Len(Sections(ps))
      BY <3>5
    <3> QED  BY <3>1, <3>3, <3>4, <3>5, <3>6
  <2>2. CASE layout = "fixed"
    <3>1. pageImages = [p \in 1..n |-> p] /\ DOMAIN pageImages = 1..n
      BY <1>1, <2>2
    <3>2. book.sections = [p \in 1..n |-> [page |-> p, blocks |-> ImageBlocks(<<pageImages[p]>>)]]
      BY <2>2, <3>1 DEF ConversionInv, BookInv, FixedLayoutBook, Book
    <3>3. DOMAIN book.sections = 1..n /\ Len(book.sections) = n
      <4>1. n \in Nat
        BY <1>1, <1>4
      <4> QED  BY <3>2, <4>1
    <3> QED  BY <3>2, <3>3
  <2> QED  BY <1>3, <2>1, <2>2
<1> QED  BY <1>1, <1>2, <1>4, <1>5

LEMMA ConversionInitInv == ConversionInit => ConversionInv
<1> SUFFICES ASSUME ConversionInit PROVE ConversionInv
  OBVIOUS
<1> USE DEF ConversionInit
<1>1. PlaceInv /\ BookInv /\ FileInv /\ ReportInv
  BY DEF PlaceInv, PagesLeft, BookInv, FileInv, ReportInv, Built
<1>2. ExtractionInv
  <2>1. 0 \in 0..Len(pdf.pages)
    BY DocumentPages
  <2> QED  BY <2>1 DEF ExtractionInv, Built
<1> QED  BY <1>1, <1>2 DEF ConversionInv

\* A step that extracts nothing.
LEMMA ExtractionKept ==
    ASSUME ConversionInv, UNCHANGED <<pdf, layout, pages, pageImages>>,
           place' = "page" => place = "page" \/ Extracted < Len(pdf.pages),
           Built' => Built \/ Extracted = Len(pdf.pages)
    PROVE  ExtractionInv' /\ Extracted' = Extracted
<1>1. PICK n \in 0..Len(pdf.pages) :
          /\ pages = IF layout = "reflowable" THEN LookedUpTo(n) ELSE <<>>
          /\ pageImages = IF layout = "fixed" THEN [p \in 1..n |-> p] ELSE <<>>
          /\ layout = "none" => n = 0
          /\ layout = "reflowable" => \A p \in 1..n : ~MissingText(pdf.pages[p], p)
          /\ place = "page" => n < Len(pdf.pages)
          /\ Built => n = Len(pdf.pages)
  BY DEF ConversionInv, ExtractionInv
<1>2. Extracted = n
  BY <1>1, ExtractedCount DEF ConversionInv
<1>3. LookedUpTo(n)' = LookedUpTo(n)
  BY DEF LookedUpTo
<1>4. (\A p \in 1..n : ~MissingText(pdf.pages[p], p))' <=> \A p \in 1..n : ~MissingText(pdf.pages[p], p)
  OBVIOUS
<1>5. (place' = "page" => n < Len(pdf.pages)) /\ (Built' => n = Len(pdf.pages))
  BY <1>1, <1>2
<1>6. ExtractionInv'
  BY <1>1, <1>3, <1>4, <1>5 DEF ExtractionInv
<1> QED  BY <1>6 DEF Extracted

LEMMA ConversionStepInv == ConversionInv /\ [ConversionNext]_conversionVars => ConversionInv'
<1> SUFFICES ASSUME ConversionInv, [ConversionNext]_conversionVars PROVE ConversionInv'
  OBVIOUS
<1>1. PICK n \in 0..Len(pdf.pages) :
          /\ pages = IF layout = "reflowable" THEN LookedUpTo(n) ELSE <<>>
          /\ pageImages = IF layout = "fixed" THEN [p \in 1..n |-> p] ELSE <<>>
          /\ layout = "none" => n = 0
          /\ layout = "reflowable" => \A p \in 1..n : ~MissingText(pdf.pages[p], p)
          /\ place = "page" => n < Len(pdf.pages)
          /\ Built => n = Len(pdf.pages)
  BY DEF ConversionInv, ExtractionInv
<1>2. Extracted = n /\ Counted = n /\ n \in Nat /\ Len(pdf.pages) \in Nat /\ pdf \in Documents
  <2>1. pdf \in Documents
    BY DEF ConversionInv, PlaceInv
  <2> QED  BY <1>1, <2>1, ExtractedCount, DocumentPages DEF ConversionInv
<1>3. PlaceInv /\ BookInv /\ FileInv /\ ReportInv
  BY DEF ConversionInv
<1>4. Built => Len(book.sections) = n
  BY <1>2, SectionsInOrder
<1>5. CASE UNCHANGED conversionVars
  <2> USE <1>5 DEF conversionVars
  <2>1. ExtractionInv' /\ Extracted' = Extracted
    BY ExtractionKept DEF Built
  <2>2. PlaceInv' /\ BookInv' /\ FileInv' /\ ReportInv'
    BY <1>3, <2>1 DEF PlaceInv, PagesLeft, BookInv, FileInv, ReportInv, Built
  <2> QED  BY <2>1, <2>2 DEF ConversionInv
<1>6. CASE CancelContext
  <2> USE <1>6 DEF CancelContext
  <2>1. ExtractionInv' /\ Extracted' = Extracted
    BY ExtractionKept DEF Built
  <2>2. PlaceInv' /\ BookInv' /\ FileInv' /\ ReportInv'
    BY <1>3, <2>1 DEF PlaceInv, PagesLeft, BookInv, FileInv, ReportInv, Built
  <2> QED  BY <2>1, <2>2 DEF ConversionInv
<1>7. CASE Open
  <2> USE <1>7 DEF Open
  <2>1. n = 0 /\ pages = <<>> /\ pageImages = <<>>
    BY <1>1, <1>3 DEF PlaceInv
  <2>2. ExtractionInv'
    <3>1. LookedUpTo(0)' = <<>>
      BY DEF LookedUpTo
    <3>2. [p \in 1..0 |-> p] = <<>>
      OBVIOUS
    <3>3. 0 \in 0..Len(pdf'.pages)
      BY <1>2
    <3>4. layout' \in {"fixed", "reflowable"} /\ place' = "extracting" /\ 1..0 = {}
      OBVIOUS
    <3>5. /\ pages' = (IF layout' = "reflowable" THEN LookedUpTo(0)' ELSE <<>>)
          /\ pageImages' = (IF layout' = "fixed" THEN [p \in 1..0 |-> p] ELSE <<>>)
      BY <2>1, <3>1, <3>2
    <3>6. \A p \in 1..0 : ~MissingText(pdf'.pages[p], p)
      BY <3>4
    <3> QED  BY <3>3, <3>4, <3>5, <3>6 DEF ExtractionInv, Built
  <2>3. Extracted' \in Nat
    BY <2>1 DEF Extracted
  <2>4. PlaceInv' /\ BookInv' /\ FileInv' /\ ReportInv'
    BY <1>3, <2>3 DEF PlaceInv, PagesLeft, BookInv, FileInv, ReportInv, Built
  <2> QED  BY <2>2, <2>4 DEF ConversionInv
<1>8. CASE BeginPage
  <2> USE <1>8 DEF BeginPage
  <2>1. ExtractionInv' /\ Extracted' = Extracted
    BY ExtractionKept DEF Built, Remaining
  <2>2. PlaceInv' /\ BookInv' /\ FileInv' /\ ReportInv'
    BY <1>2, <1>3, <2>1 DEF PlaceInv, PagesLeft, BookInv, FileInv, ReportInv, Built, Remaining
  <2> QED  BY <2>1, <2>2 DEF ConversionInv
<1>9. CASE ExtractPage
  <2> USE <1>9 DEF ExtractPage
  <2>1. layout = "reflowable" /\ layout' = layout /\ pdf' = pdf /\ pageImages' = pageImages
        /\ place' = "extracting" /\ n < Len(pdf.pages) /\ pageImages = <<>>
    BY <1>1
  <2>2. pages' = LookedUpTo(n + 1)
    <3>1. pages' = Append(LookedUpTo(n), LookedAt(pdf.pages[n + 1]))
      BY <1>1, <1>2 DEF LookedAt
    <3> QED  BY <1>2, <2>1, <3>1, PagesLookedAt
  <2>3. n + 1 \in 0..Len(pdf.pages)
    BY <1>2, <2>1
  <2>4. \A p \in 1..(n + 1) : ~MissingText(pdf.pages[p], p)
    BY <1>1, <1>2
  <2>5. ExtractionInv'
    <3>1. LookedUpTo(n + 1)' = LookedUpTo(n + 1)
      BY <2>1 DEF LookedUpTo
    <3> HIDE <1>9
    <3> QED  BY <2>1, <2>2, <2>3, <2>4, <3>1 DEF ExtractionInv, Built
  <2>6. Extracted' = n + 1 /\ reported'.stage = reported.stage /\ reported'.pages = n + 1
    <3>1. Len(LookedUpTo(n + 1)) = n + 1
      BY <1>2, <2>3, PagesLookedAt
    <3> QED  BY <1>2, <1>3, <2>1, <2>2, <3>1 DEF Extracted, ReportInv
  <2>7. PlaceInv' /\ BookInv' /\ FileInv' /\ ReportInv'
    BY <1>2, <1>3, <2>1, <2>6 DEF PlaceInv, PagesLeft, BookInv, FileInv, ReportInv, Built
  <2> QED  BY <2>5, <2>7 DEF ConversionInv
<1>10. CASE RenderFixedPage
  <2> USE <1>10 DEF RenderFixedPage
  <2>1. layout = "fixed" /\ layout' = layout /\ pdf' = pdf /\ pages' = pages
        /\ place' = "extracting" /\ n < Len(pdf.pages) /\ pages = <<>>
    BY <1>1
  <2>2. pageImages' = [p \in 1..(n + 1) |-> p] /\ Len(pageImages') = n + 1
    <3>1. pageImages' = Append([p \in 1..n |-> p], n + 1)
      BY <1>1, <1>2
    <3>2. /\ [p \in 1..n |-> p] \in Seq(Nat) /\ [p \in 1..(n + 1) |-> p] \in Seq(Nat)
          /\ Len([p \in 1..n |-> p]) = n /\ Len([p \in 1..(n + 1) |-> p]) = n + 1
      BY <1>2
    <3>3. n + 1 \in Nat /\ \A k \in 1..n : k \in 1..(n + 1)
      BY <1>2
    <3>4. [p \in 1..(n + 1) |-> p] = Append([p \in 1..n |-> p], n + 1)
      BY <1>2, <3>2, <3>3
    <3> QED  BY <3>1, <3>2, <3>4
  <2>3. n + 1 \in 0..Len(pdf.pages)
    BY <1>2, <2>1
  <2>4. ExtractionInv'
    <3> HIDE <1>10
    <3> QED  BY <2>1, <2>2, <2>3 DEF ExtractionInv, Built
  <2>5. Extracted' = n + 1 /\ reported'.stage = reported.stage /\ reported'.pages = n + 1
    BY <1>2, <1>3, <2>1, <2>2 DEF Extracted, ReportInv
  <2>6. PlaceInv' /\ BookInv' /\ FileInv' /\ ReportInv'
    BY <1>2, <1>3, <2>1, <2>5 DEF PlaceInv, PagesLeft, BookInv, FileInv, ReportInv, Built
  <2> QED  BY <2>4, <2>6 DEF ConversionInv
<1>11. CASE RebuildBook
  <2> USE <1>11 DEF RebuildBook
  <2>1. ExtractionInv' /\ Extracted' = Extracted
    BY ExtractionKept DEF Built
  <2>2. PlaceInv' /\ BookInv' /\ FileInv' /\ ReportInv'
    BY <1>2, <1>3, <2>1 DEF PlaceInv, PagesLeft, BookInv, FileInv, ReportInv, Built
  <2> QED  BY <2>1, <2>2 DEF ConversionInv
<1>12. CASE WriteFile
  <2> USE <1>12 DEF WriteFile
  <2>1. ExtractionInv' /\ Extracted' = Extracted
    BY ExtractionKept DEF Built
  <2>2. PlaceInv' /\ BookInv' /\ FileInv' /\ ReportInv'
    BY <1>2, <1>3, <1>4, <2>1
       DEF PlaceInv, PagesLeft, BookInv, FileInv, ReportInv, Built
  <2> QED  BY <2>1, <2>2 DEF ConversionInv
<1>13. CASE ValidateStructure
  <2> USE <1>13 DEF ValidateStructure, Fail
  <2>1. ExtractionInv' /\ Extracted' = Extracted
    BY ExtractionKept DEF Built
  <2>2. CASE place' = "validating"
    BY <1>2, <1>3, <1>4, <2>1, <2>2
       DEF PlaceInv, PagesLeft, BookInv, FileInv, ReportInv, Built, ConversionInv
  <2>3. CASE Fail
    BY <1>3, <2>1, <2>3 DEF PlaceInv, PagesLeft, BookInv, FileInv, ReportInv, Built, ConversionInv
  <2> QED  BY <2>2, <2>3
<1>14. CASE ValidateEPUB \/ Succeed \/ StatFails
  <2> USE <1>14 DEF ValidateEPUB, Succeed, StatFails
  <2>1. ExtractionInv' /\ Extracted' = Extracted
    BY ExtractionKept DEF Built
  <2>2. PlaceInv' /\ BookInv' /\ FileInv' /\ ReportInv'
    BY <1>3, <2>1 DEF PlaceInv, PagesLeft, BookInv, FileInv, ReportInv, Built
  <2> QED  BY <2>1, <2>2 DEF ConversionInv
<1>15. CASE Stop
  <2> USE <1>15 DEF Stop, Fail
  <2>1. ExtractionInv' /\ Extracted' = Extracted
    BY ExtractionKept DEF Built
  <2>2. PlaceInv' /\ BookInv' /\ FileInv' /\ ReportInv'
    BY <1>2, <1>3, <2>1
       DEF PlaceInv, PagesLeft, BookInv, FileInv, ReportInv, Built
  <2> QED  BY <2>1, <2>2 DEF ConversionInv
<1> QED
  BY <1>5, <1>6, <1>7, <1>8, <1>9, <1>10, <1>11, <1>12, <1>13, <1>14, <1>15 DEF ConversionNext

\* The invariant holds throughout a conversion, for any document and any limits.
THEOREM ConversionInvariant == ConversionSpec => []ConversionInv
BY ConversionInitInv, ConversionStepInv, PTL DEF ConversionSpec

-----------------------------------------------------------------------------
(* The properties. *)

\* What Convert delivers, canceled or not, is there and complete; no scanned page is
\* among those of a reflowable book, but for the first and those with more than
\* MaxIllustrations regions.
THEOREM DeliveriesComplete == ConversionSpec => []DeliveredIsComplete
<1>1. ConversionInv => DeliveredIsComplete
  <2> SUFFICES ASSUME ConversionInv PROVE DeliveredIsComplete
    OBVIOUS
  <2>2. ASSUME place = "succeeded"
        PROVE  /\ file = "whole"
               /\ [k \in DOMAIN book.sections |-> book.sections[k].page]
                      = [p \in DOMAIN pdf.pages |-> p]
    <3>1. file = "whole"
      BY <2>2 DEF ConversionInv, FileInv
    <3> QED  BY <2>2, <3>1, SectionsInOrder DEF Built
  <2>3. ASSUME place = "succeeded", layout = "reflowable", NEW p \in DOMAIN pdf.pages \ {1},
               Textless(pdf.pages[p]), Cardinality(Large(pdf.pages[p])) <= MaxIllustrations,
               NEW i \in Large(pdf.pages[p])
        PROVE  pdf.pages[p].objects[i].coverage < 550
    <3> DEFINE page == pdf.pages[p]
               regions == ImageRegions(page)
    <3>1. pdf \in Documents
      BY DEF ConversionInv, PlaceInv
    <3>2. /\ Len(pdf.pages) \in Nat /\ DOMAIN pdf.pages = 1..Len(pdf.pages)
          /\ page.objects \in Seq(ImageObject)
      BY <3>1, DocumentPages
    <3>3. ~MissingText(page, p)
      BY <2>3, <3>2 DEF ConversionInv, ExtractionInv, Built
    <3>4. p > 1
      BY <3>2
    <3>5. regions # <<>> /\ ~Dominated(page)
      BY <2>3, <3>3, <3>4 DEF MissingText
    <3>6. regions \in Seq(ImageObject) /\ \E k \in 1..Len(regions) : regions[k] = page.objects[i]
      BY <2>3, <3>2, RegionsHold, Zenon
    <3>7. PICK k \in 1..Len(regions) : regions[k] = page.objects[i]
      BY <3>6
    <3>8. DOMAIN regions = 1..Len(regions)
      BY <3>6
    <3>9. ~(page.objects[i].coverage >= 550)
      BY <3>5, <3>7, <3>8 DEF Dominated
    <3>10. page.objects[i].coverage \in Nat
      <4>1. i \in DOMAIN page.objects
        BY DEF Large
      <4>2. page.objects[i] \in ImageObject
        BY <3>2, <4>1
      <4> QED  BY <4>2 DEF ImageObject
    <3> QED  BY <3>9, <3>10
  <2> QED  BY <2>2, <2>3 DEF DeliveredIsComplete
<1> QED  BY <1>1, ConversionInvariant, PTL

\* Every entry of the table of contents leads to the section of its page, and
\* one that was inferred to the section with its heading, wherever the pages
\* break their paragraphs.
THEOREM OutlineLeads == ConversionSpec => []EntriesLeadToHeadings
<1>1. ConversionInv => EntriesLeadToHeadings
  <2> SUFFICES ASSUME ConversionInv, Built, NEW i \in DOMAIN book.outline
               PROVE  LET entry == book.outline[i]
                          target == book.sections[SectionIndexForPage(book.sections, entry.page)]
                      IN /\ target.page = entry.page
                         /\ pdf.outline = <<>> /\ entry.title # MainText =>
                               IsHeadingOf(target, entry.title)
    BY DEF EntriesLeadToHeadings
  <2> DEFINE N == Len(pdf.pages)
             entry == book.outline[i]
  <2>1. pdf \in Documents /\ layout \in {"reflowable", "fixed"}
    BY DEF ConversionInv, PlaceInv, Built
  <2>2. N \in Nat /\ DOMAIN pdf.pages = 1..N
    BY <2>1, DocumentPages
  <2>3. /\ DOMAIN book.sections = 1..N /\ Len(book.sections) = N
        /\ \A k \in 1..N : book.sections[k].page = k
    <3>1. /\ Len(book.sections) = N
          /\ [k \in DOMAIN book.sections |-> book.sections[k].page] = [p \in 1..N |-> p]
      BY <2>2, SectionsInOrder
    <3> DEFINE shown == [k \in DOMAIN book.sections |-> book.sections[k].page]
    <3>2. DOMAIN shown = DOMAIN book.sections
          /\ \A k \in DOMAIN book.sections : shown[k] = book.sections[k].page
      OBVIOUS
    <3>3. DOMAIN shown = 1..N /\ \A k \in 1..N : shown[k] = k
      BY <3>1
    <3> QED  BY <3>1, <3>2, <3>3
  <2>4. /\ entry.page \in 1..N
        /\ pdf.outline = <<>> /\ entry.title # MainText =>
              IsHeadingOf(book.sections[entry.page], entry.title)
    <3>1. CASE pdf.outline # <<>>
      <4>1. book.outline = pdf.outline
        BY <3>1 DEF ConversionInv, BookInv, Rebuild, FixedLayoutBook, Book
      <4> QED  BY <2>1, <2>2, <3>1, <4>1, DocumentAssumption
    <3>2. CASE pdf.outline = <<>> /\ layout = "reflowable"
      <4>1. book.sections = Sections(pages) /\ book.outline = InferOutline(book.sections)
        BY <3>2 DEF ConversionInv, BookInv, Rebuild, Book
      <4>2. book.sections \in Seq(SectionRecord)
        <5>1. pages = LookedUpTo(N) /\ N \in 0..N
          BY <2>2, <3>2 DEF ConversionInv, ExtractionInv
        <5>2. Len(pages) = N /\ (\E P : pages \in Seq(P)) /\ \A p \in 1..N : IsPage(pages[p])
          BY <2>1, <5>1, PagesLookedAt
        <5>3. PICK P : pages \in Seq(P)
          BY <5>2
        <5>4. PICK ps \in Seq(P) : ps = pages
          BY <5>3
        <5>5. \A p \in 1..Len(ps) : IsPage(ps[p])
          BY <5>2, <5>4
        <5> QED  BY <4>1, <5>4, <5>5, RebuildRead, Zenon
      <4>3. \A k \in 1..Len(book.sections) : book.sections[k].page = k
        BY <2>3
      <4>4. i \in DOMAIN InferOutline(book.sections) /\ entry = InferOutline(book.sections)[i]
        BY <4>1
      <4>5. /\ entry.page \in 1..Len(book.sections)
            /\ entry.title # MainText => IsHeadingOf(book.sections[entry.page], entry.title)
        BY <4>2, <4>3, <4>4, InferredEntriesLead, Zenon
      <4> QED  BY <2>3, <4>5
    <3>3. CASE pdf.outline = <<>> /\ layout = "fixed"
      <4>1. book.outline = IF book.sections # <<>>
                           THEN <<[title |-> MainText, page |-> 1, level |-> 1]>> ELSE <<>>
        BY <3>3 DEF ConversionInv, BookInv, FixedLayoutBook, Book
      <4>2. book.sections # <<>> /\ entry.title = MainText /\ entry.page = 1
        BY <4>1
      <4>3. N # 0
        <5>1. ASSUME N = 0 PROVE book.sections = <<>>
          BY <3>3, <5>1, <2>2, <2>3 DEF ConversionInv, BookInv, FixedLayoutBook, Book
        <5> QED  BY <4>2, <5>1
      <4> QED  BY <2>2, <4>2, <4>3
    <3> QED  BY <2>1, <3>1, <3>2, <3>3
  <2> HIDE DEF N, entry
  <2>5. SectionIndexForPage(book.sections, entry.page) = entry.page
    BY <2>2, <2>3, <2>4, LeadsToPage, Zenon
  <2> QED  BY <2>3, <2>4, <2>5 DEF entry
<1> QED  BY <1>1, ConversionInvariant, PTL

LEMMA StageIndexes ==
    /\ StageIndex("preflight") = 1 /\ StageIndex("extracting") = 2 /\ StageIndex("rebuilding") = 3
    /\ StageIndex("packaging") = 4 /\ StageIndex("validating") = 5
<1>1. /\ DOMAIN StageOrder = 1..5 /\ StageOrder[1] = "preflight" /\ StageOrder[2] = "extracting"
      /\ StageOrder[3] = "rebuilding" /\ StageOrder[4] = "packaging" /\ StageOrder[5] = "validating"
  BY DEF StageOrder
<1>2. \A i \in 1..5 : i \in {1, 2, 3, 4, 5}
  OBVIOUS
<1>3. \A s : StageIndex(s) = CHOOSE i \in 1..5 : StageOrder[i] = s
  BY <1>1 DEF StageIndex
<1>4. \A i \in 1..5 : /\ StageOrder[i] = "preflight" <=> i = 1
                      /\ StageOrder[i] = "extracting" <=> i = 2
                      /\ StageOrder[i] = "rebuilding" <=> i = 3
                      /\ StageOrder[i] = "packaging" <=> i = 4
                      /\ StageOrder[i] = "validating" <=> i = 5
  BY <1>1, <1>2
<1> QED  BY <1>3, <1>4

\* The stage and the number of pages that a user sees never go back.
THEOREM ProgressOnlyGrows == ConversionSpec => ProgressMovesOn
<1>1. ConversionInv /\ [ConversionNext]_conversionVars =>
          [/\ StageIndex(reported.stage) <= StageIndex(reported'.stage)
           /\ reported.pages <= reported'.pages]_conversionVars
  <2> SUFFICES ASSUME ConversionInv, ConversionNext
               PROVE  /\ StageIndex(reported.stage) <= StageIndex(reported'.stage)
                      /\ reported.pages <= reported'.pages
    OBVIOUS
  <2>1. /\ reported \in [stage : {"preflight", "extracting", "rebuilding", "packaging", "validating"},
                          pages : Nat]
        /\ place = "preflight" => reported = [stage |-> "preflight", pages |-> 0]
        /\ place \in {"extracting", "page"} =>
              /\ reported.stage \in {"preflight", "extracting"}
              /\ reported.pages \in 0..Extracted
        /\ place = "rebuilt" => reported = [stage |-> "rebuilding", pages |-> Extracted]
        /\ place = "written" => reported = [stage |-> "packaging", pages |-> Extracted]
    BY DEF ConversionInv, ReportInv
  <2>2. Extracted \in Nat /\ Counted = Extracted
    BY ExtractedCount DEF ConversionInv, ExtractionInv
  <2>3. Built => Len(book.sections) = Extracted
    BY SectionsInOrder
  <2>4. CASE UNCHANGED reported
    BY <2>1, <2>4, StageIndexes
  <2>5. CASE BeginPage
    BY <2>1, <2>2, <2>5, StageIndexes DEF BeginPage, Remaining
  <2>6. CASE ExtractPage
    BY <2>1, <2>2, <2>6, StageIndexes DEF ExtractPage
  <2>7. CASE RenderFixedPage
    BY <2>1, <2>2, <2>7, StageIndexes DEF RenderFixedPage
  <2>8. CASE RebuildBook
    BY <2>1, <2>2, <2>8, StageIndexes DEF RebuildBook
  <2>9. CASE WriteFile
    BY <2>1, <2>2, <2>3, <2>9, StageIndexes DEF WriteFile, Built
  <2>10. CASE ValidateStructure /\ place' = "validating"
    BY <2>1, <2>2, <2>3, <2>10, StageIndexes DEF ValidateStructure, Built, Fail
  <2>11. ValidateStructure => place' = "validating" \/ UNCHANGED reported
    BY DEF ValidateStructure, Fail
  <2>12. CancelContext \/ Open \/ ValidateEPUB \/ Succeed \/ StatFails \/ Stop => UNCHANGED reported
    BY DEF CancelContext, Open, ValidateEPUB, Succeed, StatFails, Stop, Fail
  <2> QED
    BY <2>4, <2>5, <2>6, <2>7, <2>8, <2>9, <2>10, <2>11, <2>12 DEF ConversionNext
<1> QED  BY <1>1, ConversionInvariant, PTL DEF ConversionSpec, ProgressMovesOn

\* The lines of the PDF that the properties count on, told by the texts of its
\* pages.
LEMMA KeptTexts ==
    ASSUME pdf \in Documents, NEW p \in 1..Len(pdf.pages)
    PROVE  Kept(p) = CleanTexts(Words(pdf.pages[p]),
                                RepeatedTexts([q \in 1..Len(pdf.pages) |-> Words(pdf.pages[q])]))
<1> DEFINE Texted(page) == [lines |-> [i \in DOMAIN Words(page) |-> [text |-> Words(page)[i]]]]
           N == Len(pdf.pages)
           all == [q \in DOMAIN pdf.pages |-> Texted(pdf.pages[q])]
           words == [q \in 1..N |-> Words(pdf.pages[q])]
           running == RepeatedMargins(all)
           kept == CleanLines(Texted(pdf.pages[p]).lines, running)
<1>1. N \in Nat /\ DOMAIN pdf.pages = 1..N /\ \A q \in 1..N : pdf.pages[q].text \in Seq(Texts)
  BY DocumentPages
<1>2. ASSUME NEW q \in 1..N
      PROVE  /\ IsLines(Texted(pdf.pages[q]).lines)
             /\ Lettering(Texted(pdf.pages[q]).lines) = Words(pdf.pages[q])
  <2> DEFINE page == pdf.pages[q]
             w == Words(page)
             lines == [i \in DOMAIN w |-> [text |-> w[i]]]
             L == [text : Texts]
  <2>1. w \in Seq(Texts)
    <3> DEFINE s == [i \in DOMAIN page.text |-> IF page.text[i] = Blank THEN <<>> ELSE <<page.text[i]>>]
    <3>1. page.text \in Seq(Texts)
      BY <1>1
    <3>2. PICK text \in Seq(Texts) : text = page.text
      BY <3>1
    <3>3. s \in Seq(Seq(Texts))
      <4>1. ASSUME NEW i \in 1..Len(text)
            PROVE  (IF text[i] = Blank THEN <<>> ELSE <<text[i]>>) \in Seq(Texts)
        OBVIOUS
      <4>2. s = [i \in 1..Len(text) |-> IF text[i] = Blank THEN <<>> ELSE <<text[i]>>]
        BY <3>2
      <4>3. [i \in 1..Len(text) |-> IF text[i] = Blank THEN <<>> ELSE <<text[i]>>] \in Seq(Seq(Texts))
        <5>1. Len(text) \in Nat
          OBVIOUS
        <5> QED  BY <4>1, <5>1
      <4> QED  BY <4>2, <4>3, Zenon
    <3> HIDE DEF s
    <3>4. FlattenSeq(s) \in Seq(Texts)
      BY <3>3, FlattenType, Zenon
    <3> QED  BY <3>4 DEF s, Words
  <2> HIDE DEF w
  <2>2. PICK v \in Seq(Texts) : v = w
    BY <2>1
  <2>3. lines \in Seq(L) /\ \A l \in L : l.text \in Texts
    <3>1. lines = [i \in 1..Len(v) |-> [text |-> v[i]]]
      BY <2>2
    <3>2. \A i \in 1..Len(v) : [text |-> v[i]] \in L
      OBVIOUS
    <3>3. Len(v) \in Nat
      OBVIOUS
    <3> HIDE DEF L
    <3>4. [i \in 1..Len(v) |-> [text |-> v[i]]] \in Seq(L)
      BY <3>2, <3>3
    <3>5. lines \in Seq(L)
      BY <3>1, <3>4, Zenon
    <3> QED  BY <3>5 DEF L
  <2>4. Lettering(lines) = w
    BY <2>2 DEF Lettering
  <2>5. Texted(page).lines = lines
    BY DEF w
  <2> QED  BY <2>3, <2>4, <2>5 DEF IsLines, w
<1>3. all \in Seq([lines : {Texted(pdf.pages[q]).lines : q \in 1..N}]) /\ Len(all) = N
      /\ \A q \in 1..N : all[q].lines = Texted(pdf.pages[q]).lines
  BY <1>1
<1>4. Kept(p) = Lettering(kept)
  BY DEF Kept, Lettering
<1> HIDE DEF Texted
<1>5. running = RepeatedTexts(words)
  <2>1. PICK P : all \in Seq(P)
    BY <1>3
  <2> HIDE DEF all
  <2>2. \A q \in 1..Len(all) : IsLines(all[q].lines)
    BY <1>2, <1>3
  <2>3. running = RepeatedTexts([q \in 1..Len(all) |-> Lettering(all[q].lines)])
    BY <2>1, <2>2, RepeatedMarginsRead, Zenon
  <2>4. [q \in 1..Len(all) |-> Lettering(all[q].lines)] = words
    BY <1>2, <1>3
  <2> QED  BY <2>3, <2>4
<1> HIDE DEF running, all, words
<1>6. Lettering(kept) = CleanTexts(Lettering(Texted(pdf.pages[p]).lines), running)
  BY <1>2, CleanLinesRead, Zenon
<1> QED  BY <1>2, <1>4, <1>5, <1>6 DEF words

-----------------------------------------------------------------------------
(* The headings of a book and the letters of its pages. *)

\* What is left of a page, with the looks that are found for its words.
Left(p) == CleanLines(pages[p].lines, RepeatedMargins(pages))

LEMMA LinesLeft ==
    ASSUME ConversionInv, Built, layout = "reflowable", NEW p \in 1..Len(pdf.pages)
    PROVE  /\ pdf.pages[p].rects \in Seq(Rectangles)
           /\ IsLines(Left(p)) /\ Kept(p) = Lettering(Left(p))
           /\ \A l \in ToSet(Left(p)) : l.size = Looks(l.text, pdf.pages[p].rects).size
<1> DEFINE N == Len(pdf.pages)
           rects == pdf.pages[p].rects
           words == [q \in 1..N |-> Words(pdf.pages[q])]
<1>1. pdf \in Documents /\ pages = LookedUpTo(N)
  BY DEF ConversionInv, PlaceInv, ExtractionInv
<1>2. N \in Nat /\ DOMAIN pdf.pages = 1..N /\ N \in 0..N /\ pdf.pages[p].text \in Seq(Texts)
  BY <1>1, DocumentPages
<1>3. rects \in Seq(Rectangles)
  BY <1>1, <1>2, DocumentAssumption
<1>4. /\ \E P : pages \in Seq(P)
      /\ Len(pages) = N
      /\ \A q \in 1..N : IsPage(pages[q]) /\ Lettering(pages[q].lines) = Words(pdf.pages[q])
  BY <1>1, <1>2, PagesLookedAt
<1>5. PICK P : pages \in Seq(P)
  BY <1>4
<1>6. PICK ps \in Seq(P) : ps = pages
  BY <1>5
<1> DEFINE repeated == RepeatedMargins(ps)
           lines == ps[p].lines
           kept == CleanLines(lines, repeated)
<1>7. kept = Left(p)
  BY <1>6 DEF Left
<1>8. lines = PlainTextToLines(pdf.pages[p].text, rects)
  BY <1>1, <1>6 DEF LookedUpTo, LookedAt
<1>9. IsLines(lines) /\ \A l \in ToSet(lines) : l.size = Looks(l.text, rects).size
  BY <1>2, <1>8, PlainTextRead, Zenon
<1>10. Kept(p) = Lettering(kept) /\ IsLines(kept)
  <2>1. PageTexts(ps) = words
    BY <1>4, <1>6 DEF PageTexts
  <2>2. repeated = RepeatedTexts(PageTexts(ps))
    <3>1. \A q \in 1..Len(ps) : IsLines(ps[q].lines)
      BY <1>4, <1>6 DEF IsPage
    <3> QED  BY <3>1, RepeatedMarginsRead, Zenon DEF PageTexts
  <2>3. Kept(p) = CleanTexts(Words(pdf.pages[p]), RepeatedTexts(words))
    BY <1>1, KeptTexts
  <2>4. Lettering(lines) = Words(pdf.pages[p])
    BY <1>4, <1>6
  <2> HIDE DEF repeated, lines, words
  <2>5. Lettering(kept) = CleanTexts(Lettering(lines), repeated) /\ IsLines(kept)
    BY <1>9, CleanLinesRead, Zenon
  <2> QED  BY <2>1, <2>2, <2>3, <2>4, <2>5, Zenon
<1> HIDE DEF lines, repeated
<1>11. PICK L : (\A l \in L : l.text \in Texts) /\ lines \in Seq(L)
  BY <1>9 DEF IsLines
<1>12. ToSet(kept) \subseteq ToSet(lines)
  <2>1. PICK T : T = ToSet(lines)
    OBVIOUS
  <2>2. lines \in Seq(T) /\ \A l \in T : l.text \in Texts
    <3>1. /\ DOMAIN lines = 1..Len(lines) /\ Len(lines) \in Nat
          /\ \A i \in 1..Len(lines) : lines[i] \in T
      BY <1>11, <2>1 DEF ToSet
    <3>2. \A l \in T : l \in L
      BY <1>11, <2>1 DEF ToSet
    <3>3. lines = [i \in 1..Len(lines) |-> lines[i]]
      BY <1>11
    <3>4. [i \in 1..Len(lines) |-> lines[i]] \in Seq(T)
      BY <3>1
    <3> QED  BY <1>11, <3>2, <3>3, <3>4, Zenon
  <2>3. kept \in Seq(T)
    BY <2>2, CleanLinesKept, Zenon
  <2>4. PICK some \in Seq(T) : some = kept
    BY <2>3
  <2>5. ToSet(some) \subseteq T
    BY DEF ToSet
  <2> QED  BY <2>1, <2>4, <2>5, Zenon
<1> HIDE DEF kept
<1> QED  BY <1>3, <1>7, <1>9, <1>10, <1>12, Zenon

\* Whether a line is a heading, by the letters of the whole document.
LEMMA HeadingBySize ==
    ASSUME NEW l
    PROVE  IsHeading(l, MedianSize(pages)) <=>
               l.text \notin NeverHeadings /\ (l.text \in HeadingPrefixed \/ SetLarge(l.size))
BY DEF IsHeading, SetLarge

\* In a reflowable book, a line of a page is a heading by its words or the looks that
\* are found for them.
LEMMA HeadingsTold ==
    ASSUME ConversionInv, Built, layout = "reflowable", NEW p \in 1..Len(pdf.pages), NEW t
    PROVE  /\ pdf.pages[p].rects \in Seq(Rectangles)
           /\ IsHeadingOf(book.sections[p], t) <=>
                 /\ t \in ToSet(Kept(p)) /\ t \notin NeverHeadings
                 /\ t \in HeadingPrefixed \/ SetLarge(Looks(t, pdf.pages[p].rects).size)
<1> DEFINE N == Len(pdf.pages)
           rects == pdf.pages[p].rects
           median == MedianSize(pages)
           left == Left(p)
<1>1. pdf \in Documents /\ pages = LookedUpTo(N)
  BY DEF ConversionInv, PlaceInv, ExtractionInv
<1>2. N \in Nat /\ N \in 0..N
  BY <1>1, DocumentPages
<1>3. (\E P : pages \in Seq(P)) /\ Len(pages) = N /\ \A q \in 1..N : IsPage(pages[q])
  BY <1>1, <1>2, PagesLookedAt
<1>4. PICK P : pages \in Seq(P)
  BY <1>3
<1>5. PICK ps \in Seq(P) : ps = pages
  BY <1>4
<1>6. IsHeadingOf(book.sections[p], t) <=> \E l \in ToSet(left) : IsHeading(l, median) /\ l.text = t
  <2>1. (\A q \in 1..Len(ps) : IsPage(ps[q])) /\ p \in 1..Len(ps)
    BY <1>3, <1>5
  <2>2. IsHeadingOf(Sections(ps)[p], t) <=>
            \E l \in ToSet(CleanLines(ps[p].lines, RepeatedMargins(ps))) :
                IsHeading(l, MedianSize(ps)) /\ l.text = t
    BY <2>1, HeadingsOfPage, Zenon
  <2>3. book.sections = Sections(pages)
    BY DEF ConversionInv, BookInv, Rebuild, Book
  <2> QED  BY <1>5, <2>2, <2>3, Zenon DEF Left
<1>7. /\ rects \in Seq(Rectangles) /\ IsLines(left) /\ Kept(p) = Lettering(left)
      /\ \A l \in ToSet(left) : l.size = Looks(l.text, rects).size
  BY LinesLeft
<1>8. \A l : IsHeading(l, median) <=>
                 l.text \notin NeverHeadings /\ (l.text \in HeadingPrefixed \/ SetLarge(l.size))
  BY HeadingBySize
<1> HIDE DEF median, left
<1>9. t \in ToSet(Kept(p)) <=> \E l \in ToSet(left) : l.text = t
  BY <1>7 DEF Lettering, ToSet
<1>10. (\E l \in ToSet(left) : IsHeading(l, median) /\ l.text = t) <=>
           /\ t \in ToSet(Kept(p)) /\ t \notin NeverHeadings
           /\ t \in HeadingPrefixed \/ SetLarge(Looks(t, rects).size)
  BY <1>7, <1>8, <1>9, Zenon
<1> QED  BY <1>6, <1>7, <1>10, Zenon

\* What the blocks say of a page is what is delivered of it.
LEMMA PageDelivered ==
    ASSUME ConversionInv, Built, layout = "reflowable", NEW p \in 1..Len(pdf.pages)
    PROVE  Wordings(Left(p), MedianSize(pages)) = Delivered(p)
<1> DEFINE rects == pdf.pages[p].rects
           median == MedianSize(pages)
           Item(t) == t \in ListPrefixed /\ ~IsHeadingOf(book.sections[p], t)
           Told(t) == IF Item(t) THEN ItemText[t] ELSE t
<1>1. PICK left : left = Left(p)
  OBVIOUS
<1>2. /\ IsLines(left) /\ Kept(p) = Lettering(left)
      /\ \A l \in ToSet(left) : l.size = Looks(l.text, rects).size
  BY <1>1, LinesLeft
<1>3. DOMAIN Kept(p) = DOMAIN left /\ \A i \in DOMAIN left : Kept(p)[i] = left[i].text
  BY <1>2 DEF Lettering
<1>4. ASSUME NEW i \in DOMAIN left
      PROVE  Wording(left[i], median) = Told(left[i].text)
  <2>1. PICK l : l = left[i]
    OBVIOUS
  <2>2. l.size = Looks(l.text, rects).size
    BY <1>2, <2>1 DEF ToSet
  <2>3. l.text \in ToSet(Kept(p))
    BY <1>3, <2>1 DEF ToSet
  <2>4. IsHeading(l, median) <=> IsHeadingOf(book.sections[p], l.text)
    BY <2>2, <2>3, HeadingBySize, HeadingsTold, Zenon
  <2>5. KindOf(l, median) = "list_item" <=> ~IsHeading(l, median) /\ l.text \in ListPrefixed
    BY DEF KindOf
  <2>6. Wording(l, median) = IF KindOf(l, median) = "list_item" THEN ItemText[l.text] ELSE l.text
    BY DEF Wording
  <2> HIDE DEF median
  <2>7. KindOf(l, median) = "list_item" <=> Item(l.text)
    BY <2>4, <2>5, Zenon
  <2> QED  BY <2>1, <2>6, <2>7
<1> HIDE DEF Told, median
<1>5. Wordings(left, median) = [i \in DOMAIN left |-> Told(left[i].text)]
  BY <1>4 DEF Wordings
<1>6. Delivered(p) = [i \in DOMAIN Kept(p) |-> Told(Kept(p)[i])]
  BY DEF Delivered, Told
<1>7. [i \in DOMAIN Kept(p) |-> Told(Kept(p)[i])] = [i \in DOMAIN left |-> Told(left[i].text)]
  BY <1>3
<1> QED  BY <1>1, <1>5, <1>6, <1>7, Zenon DEF median

\* No line is dropped, repeated or swapped on its way from the PDF into a
\* reflowable book, however the pages are put together and joined, and a list item
\* loses its marker and no more.
THEOREM NothingLost == ConversionSpec => []NothingIsLost
<1>1. ConversionInv => NothingIsLost
  <2> SUFFICES ASSUME ConversionInv, Built, layout = "reflowable"
               PROVE  FlattenSeq([k \in DOMAIN book.sections |-> TextOf(book.sections[k])])
                          = FlattenSeq([p \in DOMAIN pdf.pages |-> Delivered(p)])
    BY DEF NothingIsLost
  <2> DEFINE N == Len(pdf.pages)
  <2>1. pdf \in Documents /\ pages = LookedUpTo(N)
    BY DEF ConversionInv, PlaceInv, ExtractionInv
  <2>2. N \in Nat /\ DOMAIN pdf.pages = 1..N /\ N \in 0..N
    BY <2>1, DocumentPages
  <2>3. (\E P : pages \in Seq(P)) /\ Len(pages) = N /\ \A p \in 1..N : IsPage(pages[p])
    BY <2>1, <2>2, PagesLookedAt
  <2>4. book.sections = Sections(pages)
    BY DEF ConversionInv, BookInv, Rebuild, Book
  <2>5. PICK P : pages \in Seq(P)
    BY <2>3
  <2>6. PICK ps \in Seq(P) : ps = pages
    BY <2>5
  <2>7. ReadAll(Sections(ps))
          = FlattenSeq([p \in 1..Len(ps) |->
                Wordings(CleanLines(ps[p].lines, RepeatedMargins(ps)), MedianSize(ps))])
    <3>1. \A p \in 1..Len(ps) : IsPage(ps[p])
      BY <2>3, <2>6
    <3> QED  BY <3>1, RebuildRead, Zenon
  <2>8. \A p \in 1..N : Wordings(CleanLines(pages[p].lines, RepeatedMargins(pages)), MedianSize(pages))
                            = Delivered(p)
    BY PageDelivered DEF Left
  <2> HIDE DEF N
  <2>9. [p \in 1..Len(ps) |-> Wordings(CleanLines(ps[p].lines, RepeatedMargins(ps)), MedianSize(ps))]
            = [p \in DOMAIN pdf.pages |-> Delivered(p)]
    BY <2>2, <2>3, <2>6, <2>8
  <2> QED  BY <2>4, <2>6, <2>7, <2>9 DEF ReadAll
<1> QED  BY <1>1, ConversionInvariant, PTL

-----------------------------------------------------------------------------
(* What a row says and how large it is. *)

LEMMA WiderSequence ==
    ASSUME NEW S, NEW W, S \subseteq W, NEW s \in Seq(S)
    PROVE  s \in Seq(W)
<1>1. Len(s) \in Nat /\ s = [i \in 1..Len(s) |-> s[i]] /\ \A i \in 1..Len(s) : s[i] \in W
  OBVIOUS
<1>2. [i \in 1..Len(s) |-> s[i]] \in Seq(W)
  BY <1>1
<1> QED  BY <1>1, <1>2, Zenon

LEMMA ConcatHolds ==
    ASSUME NEW S, NEW a \in Seq(S), NEW b \in Seq(S)
    PROVE  a \o b \in Seq(S) /\ ToSet(b) \subseteq ToSet(a \o b)
<1>1. /\ a \o b \in Seq(S) /\ Len(a) \in Nat /\ DOMAIN b = 1..Len(b) /\ Len(b) \in Nat
      /\ DOMAIN (a \o b) = 1..(Len(a) + Len(b))
      /\ \A i \in 1..Len(b) : (a \o b)[Len(a) + i] = b[i]
  OBVIOUS
<1>2. PICK c : c = a \o b
  OBVIOUS
<1>3. DOMAIN c = 1..(Len(a) + Len(b)) /\ \A i \in 1..Len(b) : c[Len(a) + i] = b[i]
  BY <1>1, <1>2, Zenon
<1>4. ASSUME NEW i \in DOMAIN b PROVE Len(a) + i \in DOMAIN c /\ c[Len(a) + i] = b[i]
  BY <1>1, <1>3
<1>5. ToSet(b) \subseteq ToSet(c)
  BY <1>4 DEF ToSet
<1> QED  BY <1>1, <1>2, <1>5, Zenon

\* A row says all that its rectangles say.
LEMMA RowWordsHold ==
    ASSUME NEW R, \A r \in R : r.words \in Seq(STRING), NEW rects \in Seq(R), NEW r \in ToSet(rects)
    PROVE  ToSet(r.words) \subseteq ToSet(RowWords(rects))
<1> DEFINE N == Len(rects)
           s == [k \in DOMAIN rects |->
                    IF k > 1 /\ NeedsSpace(rects[k - 1], rects[k]) THEN <<" ">> \o rects[k].words
                    ELSE rects[k].words]
<1>1. N \in Nat /\ DOMAIN rects = 1..N /\ \A k \in 1..N : rects[k].words \in Seq(STRING)
  OBVIOUS
<1> DEFINE W == STRING \cup {" "}
<1>2. ASSUME NEW k \in 1..N
      PROVE  s[k] \in Seq(W) /\ ToSet(rects[k].words) \subseteq ToSet(s[k])
  <2>1. PICK words \in Seq(W) : words = rects[k].words
    <3>1. STRING \subseteq W
      OBVIOUS
    <3> HIDE DEF W
    <3> QED  BY <1>1, <3>1, WiderSequence, Zenon
  <2>2. PICK space \in W : space = " "
    OBVIOUS
  <2> HIDE DEF W
  <2>3. PICK spaced : spaced = <<space>> \o words
    OBVIOUS
  <2>4. spaced \in Seq(W) /\ ToSet(words) \subseteq ToSet(spaced)
    <3>1. <<space>> \in Seq(W)
      OBVIOUS
    <3> QED  BY <2>3, <3>1, ConcatHolds, Zenon
  <2>5. s[k] = spaced \/ s[k] = words
    BY <1>1, <2>1, <2>2, <2>3
  <2> HIDE DEF s
  <2> QED  BY <2>1, <2>4, <2>5, Zenon
<1> HIDE DEF W
<1>3. RowWords(rects) = FlattenSeq(s)
  BY DEF RowWords
<1>4. s \in Seq(Seq(W)) /\ Len(s) = N
  <2>1. \A k \in 1..N : s[k] \in Seq(W)
    BY <1>2
  <2>2. DOMAIN s = 1..N
    BY <1>1
  <2> HIDE DEF s
  <2>3. s = [k \in 1..N |-> s[k]]
    BY <1>1, <2>2 DEF s
  <2>4. [k \in 1..N |-> s[k]] \in Seq(Seq(W)) /\ Len([k \in 1..N |-> s[k]]) = N
    BY <1>1, <2>1
  <2> QED  BY <2>3, <2>4, Zenon
<1>5. PICK k \in 1..N : r = rects[k]
  BY <1>1 DEF ToSet
<1> HIDE DEF s
<1>6. \A e : e \in ToSet(FlattenSeq(s)) <=> \E i \in 1..Len(s) : e \in ToSet(s[i])
  BY <1>4, FlattenElements, Zenon
<1>7. ToSet(s[k]) \subseteq ToSet(FlattenSeq(s))
  BY <1>4, <1>6, Zenon
<1> QED  BY <1>2, <1>3, <1>5, <1>7, Zenon

\* A row is one or more of the visible rectangles.
LEMMA RowsHold ==
    ASSUME NEW rects \in Seq(Rectangles)
    PROVE  /\ Rows(rects) \in Seq(RowsOf(ToSet(Visible(rects))))
           /\ \A r \in ToSet(Visible(rects)) :
                 r \in Rectangles /\ r.left \in Int /\ r.size \in Nat /\ r.words \in Seq(STRING)
<1>1. PICK v \in Seq(Rectangles) : v = Visible(rects)
  BY ThoseAre DEF Visible
<1>2. PICK R : R = ToSet(v)
  OBVIOUS
<1>3. \A r \in R : r \in Rectangles
  BY <1>2 DEF ToSet
<1>4. \A r \in R : Placeable(r) /\ r.left \in Int /\ r.size \in Nat /\ r.words \in Seq(STRING)
  BY <1>3 DEF Rectangles, Placeable
<1>5. v \in Seq(R)
  <2>1. Len(v) \in Nat /\ v = [i \in 1..Len(v) |-> v[i]] /\ \A i \in 1..Len(v) : v[i] \in R
    BY <1>2 DEF ToSet
  <2>2. [i \in 1..Len(v) |-> v[i]] \in Seq(R)
    BY <2>1
  <2> QED  BY <2>1, <2>2, Zenon
<1>6. Rows(rects) \in Seq(RowsOf(R))
  <2>1. PICK f \in [0..Len(Visible(rects)) -> Seq(RowsOf(R))] : Rows(rects) = f[Len(Visible(rects))]
    <3>1. Visible(rects) \in Seq(R)
      BY <1>1, <1>5
    <3> QED  BY <1>4, <3>1, RowsSteps, Zenon
  <2>2. Len(Visible(rects)) \in Nat
    BY <1>1
  <2> QED  BY <2>1, <2>2
<1> QED  BY <1>1, <1>2, <1>3, <1>4, <1>6, Zenon

\* A line of a row.
LEMMA StructuredLine ==
    ASSUME NEW rects \in Seq(Rectangles)
    PROVE  /\ DOMAIN StructuredLines(rects) = DOMAIN Rows(rects)
           /\ \A k \in DOMAIN Rows(rects) :
                 /\ StructuredLines(rects)[k].words = RowWords(FromLeft(Rows(rects)[k].rects))
                 /\ StructuredLines(rects)[k].size = RowSize(Rows(rects)[k].rects)
BY DEF StructuredLines

\* The row of a line has the words and the size of some rectangle that is visible,
\* and no rectangle in it is larger.
LEMMA RowReads ==
    ASSUME NEW rects \in Seq(Rectangles), NEW k \in DOMAIN Rows(rects)
    PROVE  LET row == Rows(rects)[k].rects IN
           /\ row # <<>>
           /\ \A r \in ToSet(row) : /\ r \in ToSet(Visible(rects))
                                    /\ ToSet(r.words) \subseteq ToSet(RowWords(FromLeft(row)))
                                    /\ r.size <= RowSize(row) /\ r.size \in Nat
           /\ \E r \in ToSet(row) : r.size = RowSize(row)
           /\ RowSize(row) \in Nat
<1>1. PICK R : R = ToSet(Visible(rects))
  OBVIOUS
<1>2. /\ Rows(rects) \in Seq(RowsOf(R))
      /\ \A r \in R : r.left \in Int /\ r.size \in Nat /\ r.words \in Seq(STRING)
  BY <1>1, RowsHold, Zenon
<1>3. PICK row \in Seq(R) : row = Rows(rects)[k].rects /\ row # <<>>
  <2>1. Rows(rects)[k] \in RowsOf(R)
    BY <1>2
  <2> QED  BY <2>1 DEF RowsOf
<1>4. /\ FromLeft(row) \in Seq(R)
      /\ \A e : e \in ToSet(FromLeft(row)) <=> e \in ToSet(row)
  BY <1>2, FromLeftSorts, Zenon
<1>5. /\ \E r \in ToSet(row) : r.size = RowSize(row)
      /\ \A r \in ToSet(row) : r.size <= RowSize(row)
      /\ RowSize(row) \in Nat
  BY <1>2, <1>3, RowSizeOf, Zenon
<1>6. ASSUME NEW r \in ToSet(row) PROVE ToSet(r.words) \subseteq ToSet(RowWords(FromLeft(row)))
  <2>1. r \in ToSet(FromLeft(row))
    BY <1>4
  <2> QED  BY <1>2, <1>4, <2>1, RowWordsHold, Zenon
<1>7. \A r \in ToSet(row) : r \in R
  BY DEF ToSet
<1> QED  BY <1>1, <1>2, <1>3, <1>5, <1>6, <1>7, Zenon

\* The looks of a text are those of a row that reads the same, or of its page.
LEMMA LooksOf ==
    ASSUME NEW rects \in Seq(Rectangles), NEW t
    PROVE  \/ /\ \A k \in DOMAIN StructuredLines(rects) : StructuredLines(rects)[k].words # Spelling[t]
              /\ Looks(t, rects).size = MedianRectFontSize(rects)
           \/ \E k \in DOMAIN Rows(rects) :
                 /\ RowWords(FromLeft(Rows(rects)[k].rects)) = Spelling[t]
                 /\ Looks(t, rects).size = RowSize(Rows(rects)[k].rects)
<1> DEFINE structured == StructuredLines(rects)
           same == {k \in DOMAIN structured : structured[k].words = Spelling[t]}
<1>1. CASE same = {}
  <2>1. Looks(t, rects).size = MedianRectFontSize(rects)
    BY <1>1 DEF Looks
  <2> QED  BY <1>1, <2>1
<1>2. CASE same # {}
  <2>1. Looks(t, rects).size = structured[Max(same)].size
    BY <1>2 DEF Looks
  <2>2. PICK N \in Nat : DOMAIN structured = 1..N /\ DOMAIN Rows(rects) = 1..N
    <3>1. Rows(rects) \in Seq(RowsOf(ToSet(Visible(rects))))
      BY RowsHold
    <3>2. Len(Rows(rects)) \in Nat /\ DOMAIN Rows(rects) = 1..Len(Rows(rects))
      BY <3>1
    <3> QED  BY <3>2, StructuredLine
  <2>3. same \in SUBSET Nat /\ \A k \in same : k <= N
    BY <2>2
  <2>4. Max(same) \in same
    <3> HIDE DEF same
    <3> QED  BY <1>2, <2>3, LargestOf
  <2>5. PICK k \in same : k = Max(same)
    BY <2>4
  <2>6. k \in DOMAIN Rows(rects) /\ structured[k].words = Spelling[t]
    BY <2>2
  <2>7. /\ RowWords(FromLeft(Rows(rects)[k].rects)) = Spelling[t]
        /\ Looks(t, rects).size = RowSize(Rows(rects)[k].rects)
    BY <2>1, <2>5, <2>6, StructuredLine
  <2> QED  BY <2>6, <2>7
<1> QED  BY <1>1, <1>2

\* The size of its looks is a number.
LEMMA LooksSize ==
    ASSUME NEW rects \in Seq(Rectangles), NEW t
    PROVE  Looks(t, rects).size \in Nat
<1>1. CASE Looks(t, rects).size = MedianRectFontSize(rects)
  BY <1>1, PageMedianType, Zenon
<1>2. CASE \E k \in DOMAIN Rows(rects) : Looks(t, rects).size = RowSize(Rows(rects)[k].rects)
  <2>1. PICK k \in DOMAIN Rows(rects) : Looks(t, rects).size = RowSize(Rows(rects)[k].rects)
    BY <1>2
  <2> QED  BY <2>1, RowReads, Zenon
<1> QED  BY <1>1, <1>2, LooksOf, Zenon

\* And so is the size in the middle of the document.
LEMMA MedianKnown ==
    ASSUME ConversionInv, Built, layout = "reflowable"
    PROVE  MedianSize(pages) \in Nat
<1> DEFINE N == Len(pdf.pages)
<1>1. pdf \in Documents /\ pages = LookedUpTo(N)
  BY DEF ConversionInv, PlaceInv, ExtractionInv
<1>2. N \in Nat /\ DOMAIN pdf.pages = 1..N
  BY <1>1, DocumentPages
<1>3. DOMAIN pages = 1..N /\ Len(pages) = N /\ \A p \in 1..N : pages[p] = LookedAt(pdf.pages[p])
  BY <1>1, <1>2 DEF LookedUpTo
<1>4. ASSUME NEW p \in 1..N
      PROVE  [i \in DOMAIN pages[p].lines |-> pages[p].lines[i].size] \in Seq(Nat)
  <2>1. PICK text \in Seq(Texts), rects \in Seq(Rectangles) :
            text = pdf.pages[p].text /\ rects = pdf.pages[p].rects
    BY <1>1, <1>2, DocumentAssumption
  <2>2. PICK lines : lines = PlainTextToLines(text, rects)
    OBVIOUS
  <2>3. pages[p].lines = lines
    <3>1. LookedAt(pdf.pages[p]).lines = PlainTextToLines(pdf.pages[p].text, pdf.pages[p].rects)
      BY DEF LookedAt
    <3> QED  BY <1>3, <2>1, <2>2, <3>1, Zenon
  <2>4. IsLines(lines) /\ \A l \in ToSet(lines) : l.size = Looks(l.text, rects).size
    BY <2>2, PlainTextRead, Zenon
  <2>5. Len(lines) \in Nat /\ DOMAIN lines = 1..Len(lines)
    BY <2>4 DEF IsLines
  <2>6. \A i \in DOMAIN lines : lines[i].size \in Nat
    <3>1. ASSUME NEW i \in DOMAIN lines PROVE lines[i].size \in Nat
      <4>1. lines[i] \in ToSet(lines)
        BY Zenon DEF ToSet
      <4> QED  BY <2>4, <4>1, LooksSize, Zenon
    <3> QED  BY <3>1
  <2>7. [i \in DOMAIN lines |-> lines[i].size] \in Seq(Nat)
    BY <2>5, <2>6
  <2> QED  BY <2>3, <2>7, Zenon
<1> HIDE DEF N
<1> QED  BY <1>2, <1>3, <1>4, MedianType

LEMMA SetLargeFrom ==
    ASSUME NEW a \in Nat, NEW b \in Nat, a <= b, MedianSize(pages) \in Nat, SetLarge(a)
    PROVE  SetLarge(b)
<1>1. PICK m \in Nat : m = MedianSize(pages)
  OBVIOUS
<1>2. m > 0 /\ a * 100 >= m * 128
  BY <1>1 DEF SetLarge
<1>3. b * 100 >= m * 128
  BY <1>2
<1> QED  BY <1>1, <1>2, <1>3 DEF SetLarge

\* What is set large is a heading, and a heading stands out from the text, by its
\* words or its looks.
LEMMA StandOut ==
    ASSUME ConversionInv, Built, layout = "reflowable"
    PROVE  HeadingsStandOut
<1> SUFFICES ASSUME NEW p \in DOMAIN pdf.pages, NEW t \in ToSet(Kept(p))
             PROVE  LET rects == pdf.pages[p].rects
                        visible == ToSet(Visible(rects))
                        Reads == {r \in visible : RowWords(FromLeft(OnLine(rects, r))) = Spelling[t]}
                    IN /\ IsHeadingOf(book.sections[p], t) =>
                             \/ t \in HeadingPrefixed
                             \/ \E r \in visible : SetLarge(r.size) /\ ToSet(r.words) \subseteq ToSet(Spelling[t])
                             \/ /\ SetLarge(MedianRectFontSize(rects))
                                /\ \A line \in ToSet(StructuredLines(rects)) : line.words # Spelling[t]
                       /\ /\ t \notin NeverHeadings /\ Clear(rects) /\ Reads # {}
                          /\ \A r \in Reads : \E s \in ToSet(OnLine(rects, r)) : SetLarge(s.size)
                          => IsHeadingOf(book.sections[p], t)
  BY DEF HeadingsStandOut
<1> DEFINE visible(rects) == ToSet(Visible(rects))
           Reads(rects) == {r \in visible(rects) : RowWords(FromLeft(OnLine(rects, r))) = Spelling[t]}
           heading == IsHeadingOf(book.sections[p], t)
<1>1. p \in 1..Len(pdf.pages)
  <2>1. pdf \in Documents
    BY DEF ConversionInv, PlaceInv
  <2> QED  BY <2>1, DocumentPages
<1>2. PICK rects \in Seq(Rectangles) : rects = pdf.pages[p].rects
  BY <1>1, HeadingsTold
<1>3. heading <=> /\ t \notin NeverHeadings
                  /\ t \in HeadingPrefixed \/ SetLarge(Looks(t, rects).size)
  <2>1. heading <=> /\ t \in ToSet(Kept(p)) /\ t \notin NeverHeadings
                    /\ t \in HeadingPrefixed \/ SetLarge(Looks(t, pdf.pages[p].rects).size)
    BY <1>1, HeadingsTold, Zenon
  <2> QED  BY <1>2, <2>1, Zenon
<1>4. \/ /\ \A k \in DOMAIN StructuredLines(rects) : StructuredLines(rects)[k].words # Spelling[t]
         /\ Looks(t, rects).size = MedianRectFontSize(rects)
      \/ \E k \in DOMAIN Rows(rects) :
            /\ RowWords(FromLeft(Rows(rects)[k].rects)) = Spelling[t]
            /\ Looks(t, rects).size = RowSize(Rows(rects)[k].rects)
  BY LooksOf
<1>5. ASSUME heading, t \notin HeadingPrefixed
      PROVE  \/ \E r \in visible(rects) : SetLarge(r.size) /\ ToSet(r.words) \subseteq ToSet(Spelling[t])
             \/ /\ SetLarge(MedianRectFontSize(rects))
                /\ \A line \in ToSet(StructuredLines(rects)) : line.words # Spelling[t]
  <2>1. SetLarge(Looks(t, rects).size)
    BY <1>3, <1>5
  <2>2. CASE /\ \A k \in DOMAIN StructuredLines(rects) : StructuredLines(rects)[k].words # Spelling[t]
             /\ Looks(t, rects).size = MedianRectFontSize(rects)
    <3>1. ASSUME NEW line \in ToSet(StructuredLines(rects)) PROVE line.words # Spelling[t]
      <4>1. PICK k \in DOMAIN StructuredLines(rects) : line = StructuredLines(rects)[k]
        BY Zenon DEF ToSet
      <4> QED  BY <2>2, <4>1, Zenon
    <3> QED  BY <2>1, <2>2, <3>1
  <2>3. CASE \E k \in DOMAIN Rows(rects) :
                /\ RowWords(FromLeft(Rows(rects)[k].rects)) = Spelling[t]
                /\ Looks(t, rects).size = RowSize(Rows(rects)[k].rects)
    <3>1. PICK k \in DOMAIN Rows(rects) :
              /\ RowWords(FromLeft(Rows(rects)[k].rects)) = Spelling[t]
              /\ Looks(t, rects).size = RowSize(Rows(rects)[k].rects)
      BY <2>3
    <3> DEFINE row == Rows(rects)[k].rects
    <3>2. /\ \A r \in ToSet(row) : /\ r \in ToSet(Visible(rects))
                                   /\ ToSet(r.words) \subseteq ToSet(RowWords(FromLeft(row)))
          /\ \E r \in ToSet(row) : r.size = RowSize(row)
      BY RowReads, Zenon
    <3>3. PICK r \in ToSet(row) : r.size = RowSize(row)
      BY <3>2
    <3>4. SetLarge(r.size)
      BY <2>1, <3>1, <3>3, Zenon
    <3>5. ToSet(r.words) \subseteq ToSet(Spelling[t]) /\ r \in visible(rects)
      BY <3>1, <3>2, Zenon
    <3> QED  BY <3>4, <3>5
  <2> QED  BY <1>4, <2>2, <2>3
<1>6. ASSUME t \notin NeverHeadings, Clear(rects), Reads(rects) # {},
             \A r \in Reads(rects) : \E s \in ToSet(OnLine(rects, r)) : SetLarge(s.size)
      PROVE  heading
  <2>1. /\ \A r \in ToSet(Visible(rects)) : \E k \in DOMAIN Rows(rects) : r \in ToSet(Rows(rects)[k].rects)
        /\ \A k \in DOMAIN Rows(rects) : \A r \in ToSet(Rows(rects)[k].rects) :
              Rows(rects)[k].rects = OnLine(rects, r)
    BY <1>6, RowsAreLines, Zenon
  <2>2. PICK r \in Reads(rects) : TRUE
    BY <1>6
  <2>3. PICK k \in DOMAIN Rows(rects) : r \in ToSet(Rows(rects)[k].rects)
    BY <2>1, <2>2
  <2>4. RowWords(FromLeft(Rows(rects)[k].rects)) = Spelling[t]
    <3>1. Rows(rects)[k].rects = OnLine(rects, r)
      BY <2>1, <2>3
    <3> QED  BY <2>2, <3>1
  <2>5. k \in DOMAIN StructuredLines(rects) /\ StructuredLines(rects)[k].words = Spelling[t]
    BY <2>4, StructuredLine
  <2>6. PICK m \in DOMAIN Rows(rects) :
            /\ RowWords(FromLeft(Rows(rects)[m].rects)) = Spelling[t]
            /\ Looks(t, rects).size = RowSize(Rows(rects)[m].rects)
    BY <1>4, <2>5, Zenon
  <2> DEFINE row == Rows(rects)[m].rects
  <2>7. /\ \A s \in ToSet(row) : /\ s \in ToSet(Visible(rects))
                                 /\ s.size <= RowSize(row) /\ s.size \in Nat
        /\ \E s \in ToSet(row) : s.size = RowSize(row)
        /\ RowSize(row) \in Nat
    BY RowReads, Zenon
  <2>8. PICK q \in ToSet(row) : TRUE
    BY <2>7
  <2>9. row = OnLine(rects, q)
    BY <2>1
  <2> HIDE DEF row
  <2>10. q \in Reads(rects)
    BY <2>6, <2>7, <2>9, Zenon DEF row
  <2>11. PICK s \in ToSet(row) : SetLarge(s.size)
    BY <1>6, <2>9, <2>10, Zenon
  <2>12. SetLarge(RowSize(row))
    BY <2>7, <2>11, MedianKnown, SetLargeFrom
  <2>13. SetLarge(Looks(t, rects).size)
    BY <2>6, <2>12, Zenon DEF row
  <2> QED  BY <1>3, <1>6, <2>13
<1> QED  BY <1>2, <1>5, <1>6, Zenon

\* For any document, the headings of a reflowable book are the lines that isHeading
\* and the sizes of the PDF say to be ones, and every entry of the outline leads to the
\* section of its page, an inferred one to the section that begins with its heading.
THEOREM HeadingsLead == ConversionSpec => []OutlineLeadsToHeading
<1>1. ConversionInv => HeadingsStandOut
  <2>1. CASE Built /\ layout = "reflowable"
    BY <2>1, StandOut
  <2>2. CASE ~(Built /\ layout = "reflowable")
    BY <2>2, Zenon DEF HeadingsStandOut
  <2> QED  BY <2>1, <2>2
<1>2. EntriesLeadToHeadings /\ HeadingsStandOut => OutlineLeadsToHeading
  BY DEF OutlineLeadsToHeading
<1> QED  BY <1>1, <1>2, ConversionInvariant, OutlineLeads, PTL
===============================================================================
