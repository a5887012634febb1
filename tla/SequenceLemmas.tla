---------------------------- MODULE SequenceLemmas ----------------------------
(****************************************************************************)
(* What the proofs about recursively defined operators rest on: induction   *)
(* over the naturals and over sequences, for a set T of those of which the  *)
(* claim holds; that a recursive function over 0 .. n exists; and what      *)
(* FlattenSeq does with one sequence more.                                  *)
(****************************************************************************)
EXTENDS Integers, SequencesExt, SequenceTheorems, FiniteSetTheorems,
        WellFoundedInduction, TLAPS

(* A nonempty set of naturals has a least member.                           *)
LEMMA LeastMember ==
  ASSUME NEW T \in SUBSET Nat, T # {}
  PROVE  \E x \in T : \A y \in T : x <= y
  <1>1. \E x \in T : \A y \in T : ~(<<y, x>> \in OpToRel(<, Nat))
    BY WFMin, NatLessThanWellFounded
  <1>2. \A x, y \in Nat : x < y => <<x, y>> \in OpToRel(<, Nat)
    BY DEF OpToRel
  <1>3. PICK x \in T : \A y \in T : ~(<<y, x>> \in OpToRel(<, Nat))
    BY <1>1
  <1>4. \A y \in T : ~(y < x)
    BY <1>2, <1>3
  <1>5. QED
    BY <1>4

(* What holds of zero and passes from n to n + 1 holds of every natural.    *)
LEMMA Induction ==
  ASSUME NEW T, 0 \in T, \A n \in Nat : n \in T => n + 1 \in T
  PROVE  \A n \in Nat : n \in T
  <1> DEFINE U == Nat \ T
  <1> SUFFICES ASSUME U # {} PROVE FALSE
    OBVIOUS
  <1>1. PICK x \in U : \A y \in U : x <= y
    BY LeastMember
  <1>2. x - 1 \in Nat /\ x - 1 \in T
    BY <1>1
  <1>3. QED
    BY <1>1, <1>2

(* What holds of the empty sequence and passes to a sequence with one       *)
(* element more holds of every sequence.                                    *)
LEMMA SequenceInduction ==
  ASSUME NEW S, NEW T, <<>> \in T,
         \A s \in Seq(S), x \in S : s \in T => Append(s, x) \in T
  PROVE  \A s \in Seq(S) : s \in T
  <1> DEFINE U == {n \in Nat : \A s \in Seq(S) : Len(s) = n => s \in T}
  <1>1. 0 \in U
    BY EmptySeq
  <1>2. ASSUME NEW n \in Nat, n \in U
        PROVE  n + 1 \in U
    <2> SUFFICES ASSUME NEW s \in Seq(S), Len(s) = n + 1 PROVE s \in T
      OBVIOUS
    <2>1. s # <<>>
      BY EmptySeq
    <2>2. PICK t \in Seq(S), x \in S : s = Append(t, x)
      BY <2>1, SequenceEmptyOrAppend
    <2>3. Len(t) = n
      BY <2>2, AppendProperties, LenProperties
    <2>4. t \in T
      BY <1>2, <2>3
    <2>5. QED
      BY <2>2, <2>4
  <1> HIDE DEF U
  <1>3. \A n \in Nat : n \in U
    BY <1>1, <1>2, Induction
  <1>4. QED
    BY <1>3, LenProperties DEF U

-----------------------------------------------------------------------------
(* Recursive functions *)

(* f counts up from base, one step at a time.                               *)
CountsUp(f, n, base, step) ==
  /\ f[0] = base
  /\ \A i \in 1 .. n : f[i] = step[<<i, f[i - 1]>>]

(* There is a function that counts up to n.                                 *)
LEMMA RecursionExists ==
  ASSUME NEW X, NEW base \in X, NEW n \in Nat, NEW step \in [(1 .. n) \X X -> X]
  PROVE  \E f \in [0 .. n -> X] : CountsUp(f, n, base, step)
  <1> DEFINE T == {m \in Nat : m <= n =>
                     \E f \in [0 .. m -> X] : CountsUp(f, m, base, step)}
  <1>1. 0 \in T
    <2>1. [i \in 0 .. 0 |-> base] \in [0 .. 0 -> X]
      OBVIOUS
    <2>2. CountsUp([i \in 0 .. 0 |-> base], 0, base, step)
      BY DEF CountsUp
    <2>3. QED
      BY <2>1, <2>2
  <1>2. ASSUME NEW m \in Nat, m \in T
        PROVE  m + 1 \in T
    <2> SUFFICES ASSUME m + 1 <= n
                 PROVE  \E f \in [0 .. m + 1 -> X] : CountsUp(f, m + 1, base, step)
      OBVIOUS
    <2>1. PICK f \in [0 .. m -> X] : CountsUp(f, m, base, step)
      BY <1>2
    <2>2. step[<<m + 1, f[m]>>] \in X
      <3>1. <<m + 1, f[m]>> \in (1 .. n) \X X
        OBVIOUS
      <3>2. QED
        BY <3>1
    <2> DEFINE g == [i \in 0 .. m + 1 |-> IF i = m + 1 THEN step[<<m + 1, f[m]>>] ELSE f[i]]
    <2>3. g \in [0 .. m + 1 -> X]
      BY <2>2
    <2>4. /\ g[m + 1] = step[<<m + 1, f[m]>>]
          /\ \A i \in 0 .. m : g[i] = f[i]
      OBVIOUS
    <2> HIDE DEF g
    <2>5. CountsUp(g, m + 1, base, step)
      <3>1. g[0] = base
        BY <2>1, <2>4 DEF CountsUp
      <3>2. ASSUME NEW i \in 1 .. m + 1
            PROVE  g[i] = step[<<i, g[i - 1]>>]
        <4>1. CASE i = m + 1
          <5>1. g[i - 1] = f[m]
            BY <2>4, <4>1
          <5>2. QED
            BY <2>4, <4>1, <5>1
        <4>2. CASE i # m + 1
          <5>1. i \in 1 .. m /\ g[i] = f[i] /\ g[i - 1] = f[i - 1]
            BY <2>4, <4>2
          <5>2. QED
            BY <2>1, <5>1 DEF CountsUp
        <4>3. QED
          BY <4>1, <4>2
      <3>3. QED
        BY <3>1, <3>2 DEF CountsUp
    <2>6. QED
      BY <2>3, <2>5
  <1> HIDE DEF T
  <1>3. n \in T
    BY <1>1, <1>2, Induction
  <1>4. QED
    BY <1>3 DEF T

(* What counts up as long as it stays in X stays in X, and counts up.       *)
LEMMA RecursionStays ==
  ASSUME NEW X, NEW base \in X, NEW n \in Nat, NEW step \in [(1 .. n) \X X -> X],
         NEW f, f[0] = base,
         \A i \in 1 .. n : f[i - 1] \in X => f[i] = step[<<i, f[i - 1]>>]
  PROVE  CountsUp(f, n, base, step) /\ \A i \in 0 .. n : f[i] \in X
  <1> DEFINE T == {m \in Nat : m <= n => f[m] \in X}
  <1>1. 0 \in T
    OBVIOUS
  <1>2. ASSUME NEW m \in Nat, m \in T
        PROVE  m + 1 \in T
    <2> SUFFICES ASSUME m + 1 <= n PROVE f[m + 1] \in X
      OBVIOUS
    <2>1. m + 1 \in 1 .. n /\ (m + 1) - 1 = m /\ f[m] \in X
      BY <1>2
    <2>2. f[m + 1] = step[<<m + 1, f[m]>>] /\ <<m + 1, f[m]>> \in (1 .. n) \X X
      BY <2>1
    <2>3. QED
      BY <2>2
  <1> HIDE DEF T
  <1>3. \A m \in Nat : m \in T
    BY <1>1, <1>2, Induction
  <1>4. \A i \in 0 .. n : f[i] \in X
    BY <1>3 DEF T
  <1>5. \A i \in 1 .. n : f[i - 1] \in X
    <2>1. \A i \in 1 .. n : i - 1 \in 0 .. n
      OBVIOUS
    <2>2. QED
      BY <1>4, <2>1
  <1>6. QED
    BY <1>4, <1>5 DEF CountsUp

-----------------------------------------------------------------------------
(* FlattenSeq *)

(* g[i] is what the first i sequences of ss make when they are joined.      *)
Joins(g, ss) ==
  /\ g[0] = <<>>
  /\ \A i \in 1 .. Len(ss) : g[i] = g[i - 1] \o ss[i]

(* FlattenSeq joins the sequences from the first to the last.               *)
LEMMA FlattenJoins ==
  ASSUME NEW S, NEW ss \in Seq(Seq(S))
  PROVE  \E g \in [0 .. Len(ss) -> Seq(S)] : Joins(g, ss) /\ FlattenSeq(ss) = g[Len(ss)]
  <1> DEFINE n == Len(ss)
             step == [p \in (1 .. n) \X Seq(S) |-> p[2] \o ss[p[1]]]
  <1>1. n \in Nat /\ \A i \in 1 .. n : ss[i] \in Seq(S)
    BY LenProperties
  <1> HIDE DEF n
  <1>2. step \in [(1 .. n) \X Seq(S) -> Seq(S)]
    BY <1>1, ConcatProperties
  <1>3. \A i \in 1 .. n, x \in Seq(S) : step[<<i, x>>] = x \o ss[i]
    OBVIOUS
  <1> HIDE DEF step
  <1>4. <<>> \in Seq(S)
    OBVIOUS
  <1>5. PICK g \in [0 .. n -> Seq(S)] : CountsUp(g, n, <<>>, step)
    BY <1>1, <1>2, <1>4, RecursionExists
  <1>6. g[0] = <<>> /\ \A i \in 1 .. n : g[i] = g[i - 1] \o ss[i]
    <2>1. \A i \in 1 .. n : g[i - 1] \in Seq(S)
      <3>1. \A i \in 1 .. n : i - 1 \in 0 .. n
        BY <1>1
      <3>2. QED
        BY <3>1
    <2>2. QED
      BY <1>3, <1>5, <2>1 DEF CountsUp
  <1>7. Joins(g, ss)
    BY <1>6 DEF Joins, n
  <1>8. FlattenSeq(ss) = g[n]
    <2>1. CASE n = 0
      <3>1. ss = <<>>
        BY <2>1, EmptySeq DEF n
      <3>2. FlattenSeq(ss) = ss
        BY <2>1 DEF FlattenSeq, n
      <3>3. QED
        BY <1>6, <2>1, <3>1, <3>2
    <2>2. CASE n # 0
      <3> DEFINE Solves(f) == f = [i \in 1 .. n |-> IF i = 1 THEN ss[i] ELSE f[i - 1] \o ss[i]]
                 h == CHOOSE f : Solves(f)
                 r == [i \in 1 .. n |-> g[i]]
      <3>0. g[1] = ss[1]
        <4>1. 1 \in 1 .. n /\ 1 - 1 = 0
          BY <1>1, <2>2
        <4>2. ss[1] \in Seq(S) /\ g[1] = <<>> \o ss[1]
          BY <1>1, <1>6, <4>1
        <4>3. QED
          BY <4>2, ConcatEmptySeq
      <3>1. Solves(r)
        <4>2. ASSUME NEW i \in 1 .. n
              PROVE  g[i] = IF i = 1 THEN ss[i] ELSE r[i - 1] \o ss[i]
          <5>1. CASE i = 1
            BY <3>0, <5>1
          <5>2. CASE i # 1
            <6>1. i - 1 \in 1 .. n
              BY <1>1, <5>2
            <6>2. r[i - 1] = g[i - 1]
              BY <6>1
            <6>3. QED
              BY <1>6, <5>2, <6>2
          <5>3. QED
            BY <5>1, <5>2
        <4>3. QED
          BY <4>2
      <3>2. Solves(h)
        BY <3>1
      <3>3. FlattenSeq(ss) = h[n]
        BY <2>2 DEF FlattenSeq, n
      <3> DEFINE T == {m \in Nat : m + 1 <= n => h[m + 1] = g[m + 1]}
      <3>4. \A i \in 1 .. n : h[i] = IF i = 1 THEN ss[i] ELSE h[i - 1] \o ss[i]
        BY <3>2
      <3> HIDE DEF h, r, Solves
      <3>5. 0 \in T
        BY <3>0, <3>4
      <3>6. ASSUME NEW m \in Nat, m \in T
            PROVE  m + 1 \in T
        <4> SUFFICES ASSUME m + 2 <= n PROVE h[m + 2] = g[m + 2]
          OBVIOUS
        <4>1. m + 2 \in 1 .. n /\ (m + 2) - 1 = m + 1 /\ m + 2 # 1
          BY <1>1
        <4>2. h[m + 1] = g[m + 1]
          BY <1>1, <3>6
        <4>3. h[m + 2] = h[(m + 2) - 1] \o ss[m + 2]
          BY <3>4, <4>1
        <4>4. g[m + 2] = g[(m + 2) - 1] \o ss[m + 2]
          BY <1>6, <4>1
        <4>5. QED
          BY <4>1, <4>2, <4>3, <4>4
      <3> HIDE DEF T
      <3>7. n - 1 \in T
        <4>1. \A m \in Nat : m \in T
          BY <3>5, <3>6, Induction
        <4>2. n - 1 \in Nat
          BY <1>1, <2>2
        <4>3. QED
          BY <4>1, <4>2
      <3>8. QED
        BY <1>1, <2>2, <3>3, <3>7 DEF T
    <2>3. QED
      BY <2>1, <2>2
  <1>9. QED
    BY <1>5, <1>7, <1>8 DEF n

(* Of nothing it makes nothing.                                             *)
LEMMA FlattenEmpty == FlattenSeq(<<>>) = <<>>
  BY DEF FlattenSeq

LEMMA FlattenType ==
  ASSUME NEW S, NEW ss \in Seq(Seq(S))
  PROVE  FlattenSeq(ss) \in Seq(S)
  <1>1. Len(ss) \in 0 .. Len(ss)
    BY LenProperties
  <1>2. QED
    BY <1>1, FlattenJoins

(* One sequence more is joined to the others.                               *)
LEMMA FlattenAppend ==
  ASSUME NEW S, NEW ss \in Seq(Seq(S)), NEW s \in Seq(S)
  PROVE  FlattenSeq(Append(ss, s)) = FlattenSeq(ss) \o s
  <1> DEFINE n == Len(ss)
             longer == Append(ss, s)
  <1>1. /\ longer \in Seq(Seq(S)) /\ Len(longer) = n + 1 /\ longer[n + 1] = s
        /\ n \in Nat /\ \A i \in 1 .. n : longer[i] = ss[i]
    BY AppendProperties, LenProperties
  <1> HIDE DEF longer, n
  <1>2. PICK g \in [0 .. n -> Seq(S)] : Joins(g, ss) /\ FlattenSeq(ss) = g[n]
    BY FlattenJoins DEF n
  <1>3. PICK h \in [0 .. n + 1 -> Seq(S)] : Joins(h, longer) /\ FlattenSeq(longer) = h[n + 1]
    BY <1>1, FlattenJoins
  <1> DEFINE T == {m \in Nat : m <= n => h[m] = g[m]}
  <1>4. 0 \in T
    BY <1>2, <1>3 DEF Joins
  <1>5. ASSUME NEW m \in Nat, m \in T
        PROVE  m + 1 \in T
    <2> SUFFICES ASSUME m + 1 <= n PROVE h[m + 1] = g[m + 1]
      OBVIOUS
    <2>1. m + 1 \in 1 .. n /\ m + 1 \in 1 .. n + 1 /\ (m + 1) - 1 = m /\ h[m] = g[m]
      BY <1>1, <1>5
    <2>2. h[m + 1] = h[m] \o longer[m + 1] /\ g[m + 1] = g[m] \o ss[m + 1]
      BY <1>1, <1>2, <1>3, <2>1 DEF Joins, n
    <2>3. QED
      BY <1>1, <2>1, <2>2
  <1> HIDE DEF T
  <1>6. h[n] = g[n]
    <2>1. n \in T
      BY <1>1, <1>4, <1>5, Induction
    <2>2. QED
      BY <1>1, <2>1 DEF T
  <1>7. h[n + 1] = h[n] \o s
    <2>1. n + 1 \in 1 .. n + 1 /\ (n + 1) - 1 = n
      BY <1>1
    <2>2. QED
      BY <1>1, <1>3, <2>1 DEF Joins
  <1>8. QED
    BY <1>2, <1>3, <1>6, <1>7 DEF longer

(* The joined sequence has the elements of all of them.                     *)
LEMMA FlattenRange ==
  ASSUME NEW S, NEW ss \in Seq(Seq(S))
  PROVE  Range(FlattenSeq(ss)) = UNION {Range(ss[i]) : i \in 1 .. Len(ss)}
  <1> DEFINE All(tt) == UNION {Range(tt[i]) : i \in 1 .. Len(tt)}
             T == {tt \in Seq(Seq(S)) : Range(FlattenSeq(tt)) = All(tt)}
  <1>1. <<>> \in T
    <2>1. Range(FlattenSeq(<<>>)) = {} /\ All(<<>>) = {}
      BY FlattenEmpty DEF Range
    <2>2. QED
      BY <2>1
  <1>2. ASSUME NEW tt \in Seq(Seq(S)), NEW s \in Seq(S), tt \in T
        PROVE  Append(tt, s) \in T
    <2> DEFINE longer == Append(tt, s)
    <2>1. /\ longer \in Seq(Seq(S)) /\ Len(longer) = Len(tt) + 1
          /\ longer[Len(tt) + 1] = s /\ Len(tt) \in Nat
          /\ \A i \in 1 .. Len(tt) : longer[i] = tt[i]
      BY AppendProperties, LenProperties
    <2>2. Range(FlattenSeq(longer)) = Range(FlattenSeq(tt)) \cup Range(s)
      <3>1. FlattenSeq(longer) = FlattenSeq(tt) \o s
        BY FlattenAppend
      <3>2. FlattenSeq(tt) \in Seq(S)
        BY FlattenType
      <3> HIDE DEF longer
      <3>3. QED
        BY <3>1, <3>2, RangeConcatenation
    <2> HIDE DEF longer
    <2>3. 1 .. Len(longer) = (1 .. Len(tt)) \cup {Len(tt) + 1}
      BY <2>1
    <2>4. All(longer) = All(tt) \cup Range(s)
      BY <2>1, <2>3
    <2>5. Range(FlattenSeq(longer)) = All(longer)
      BY <1>2, <2>2, <2>4
    <2>6. QED
      BY <2>1, <2>5 DEF longer
  <1> HIDE DEF T
  <1>3. ss \in T
    BY <1>1, <1>2, SequenceInduction
  <1>4. QED
    BY <1>3 DEF T

(* Short sequences are their members.                                       *)
LEMMA ShortSequences ==
  ASSUME NEW S, NEW s \in Seq(S)
  PROVE  /\ Len(s) = 1 => s[1] \in S /\ s = <<s[1]>>
         /\ Len(s) = 2 => s[1] \in S /\ s[2] \in S /\ s = <<s[1], s[2]>>
         /\ Len(s) = 4 => /\ s[1] \in S /\ s[2] \in S /\ s[3] \in S /\ s[4] \in S
                          /\ s = <<s[1], s[2], s[3], s[4]>>
  <1>1. DOMAIN s = 1 .. Len(s) /\ s = [i \in 1 .. Len(s) |-> s[i]]
        /\ \A i \in 1 .. Len(s) : s[i] \in S
    BY LenProperties
  <1>2. ASSUME Len(s) = 1
        PROVE  s[1] \in S /\ s = <<s[1]>>
    BY <1>1, <1>2
  <1>3. ASSUME Len(s) = 2
        PROVE  s[1] \in S /\ s[2] \in S /\ s = <<s[1], s[2]>>
    BY <1>1, <1>3
  <1>4. ASSUME Len(s) = 4
        PROVE  /\ s[1] \in S /\ s[2] \in S /\ s[3] \in S /\ s[4] \in S
               /\ s = <<s[1], s[2], s[3], s[4]>>
    BY <1>1, <1>4
  <1>5. QED
    BY <1>2, <1>3, <1>4
=============================================================================
