-------------------------- MODULE OrderedKeysProofs --------------------------
(***************************************************************************)
(* What the queue operators of OrderedKeys return, for every queue, and    *)
(* what the other proofs need of numbers.  The induction principle is      *)
(* stated over sets of numbers, and obtained from the well-foundedness of  *)
(* <.                                                                      *)
(***************************************************************************)
EXTENDS OrderedKeys, PowersOfTwo, WellFoundedInduction, FiniteSetTheorems,
        SequenceTheorems, TLAPS

\* A sequence of one, next to the empty one.
LEMMA ConcatOne ==
    ASSUME NEW q
    PROVE  << >> \o <<q>> = <<q>> /\ <<q>> \o << >> = <<q>>
<1>1. <<q>> \in Seq({q})
    OBVIOUS
<1>2. QED
    BY <1>1, ConcatEmptySeq

\* Every nonempty set of naturals has a least element.
LEMMA LeastNat ==
    ASSUME NEW T \in SUBSET Nat, T # {}
    PROVE  \E x \in T : \A y \in T : x <= y
<1> DEFINE R == OpToRel(<, Nat)
<1>1. IsWellFoundedOn(R, Nat)
    BY NatLessThanWellFounded
<1>2. \A x, y \in Nat : y < x => <<y, x>> \in R
    BY DEF OpToRel
<1> HIDE DEF R
<1>3. PICK x \in T : \A y \in T : ~ (<<y, x>> \in R)
    BY <1>1, WFMin
<1>4. \A y \in T : ~ (y < x)
    BY <1>2, <1>3
<1>5. QED
    BY <1>4

\* Induction over the naturals, for a set that holds 0 and is closed under + 1.
LEMMA NatSetInduction ==
    ASSUME NEW S, 0 \in S, \A n \in Nat : n \in S => n + 1 \in S
    PROVE  Nat \subseteq S
<1>1. SUFFICES ASSUME Nat \ S # {} PROVE FALSE
    OBVIOUS
<1>2. PICK m \in Nat \ S : \A y \in Nat \ S : m <= y
    BY <1>1, LeastNat
<1>3. m - 1 \in Nat /\ m - 1 \in S
    BY <1>2
<1>4. QED
    BY <1>2, <1>3

KeepStep(q, S, f, i) ==
    IF i = 0 THEN << >>
    ELSE IF q[i] \in S THEN Append(f[i - 1], q[i])
    ELSE f[i - 1]

\* kept solves, up to n, the recursion that defines Keep.
KeepSolved(q, S, n, kept) == kept = [i \in 0 .. n |-> KeepStep(q, S, kept, i)]

\* The recursion has a solution.
LEMMA KeepRecursionExists ==
    ASSUME NEW q, NEW S, NEW n \in Nat
    PROVE  \E f : KeepSolved(q, S, n, f)
<1> DEFINE X == {m \in Nat : \E f : KeepSolved(q, S, m, f)}
<1>1. 0 \in X
  <2>1. KeepSolved(q, S, 0, [i \in 0 .. 0 |-> << >>])
      BY DEF KeepStep, KeepSolved
  <2>2. QED
      BY <2>1
<1>2. ASSUME NEW m \in Nat, m \in X PROVE m + 1 \in X
  <2>1. PICK f : KeepSolved(q, S, m, f)
      BY <1>2
  <2> DEFINE g == [i \in 0 .. m + 1 |-> IF i <= m THEN f[i]
                                        ELSE KeepStep(q, S, f, i)]
  <2>2. \A i \in 0 .. m : f[i] = KeepStep(q, S, f, i)
      BY <2>1 DEF KeepSolved
  <2>3. \A i \in 0 .. m + 1 : KeepStep(q, S, f, i) = KeepStep(q, S, g, i)
      BY DEF KeepStep
  <2>4. \A i \in 0 .. m + 1 : g[i] = KeepStep(q, S, g, i)
      BY <2>2, <2>3
  <2>5. g = [i \in 0 .. m + 1 |-> g[i]]
      OBVIOUS
  <2> HIDE DEF g
  <2>6. KeepSolved(q, S, m + 1, g)
      BY <2>4, <2>5 DEF KeepSolved
  <2>7. QED
      BY <2>6
<1> HIDE DEF X
<1>3. n \in X
    BY <1>1, <1>2, NatSetInduction
<1>4. QED
    BY <1>3 DEF X

Seen(q, i) == {q[j] : j \in 1 .. i}

KeptRight(T, q, S, kept, i) ==
    /\ kept[i] \in Seq(T)
    /\ ToSet(kept[i]) = Seen(q, i) \cap S
    /\ IsInjective(q) => IsInjective(kept[i])

\* Appending an element that a sequence of distinct elements does not have.
LEMMA AppendDistinct ==
    ASSUME NEW T, NEW s \in Seq(T), NEW e \in T
    PROVE  /\ ToSet(Append(s, e)) = ToSet(s) \cup {e}
           /\ IsInjective(s) /\ e \notin ToSet(s) => IsInjective(Append(s, e))
<1> DEFINE t == Append(s, e)
<1>1. /\ DOMAIN t = 1 .. Len(s) + 1
      /\ \A i \in 1 .. Len(s) : t[i] = s[i]
      /\ t[Len(s) + 1] = e
      /\ DOMAIN s = 1 .. Len(s)
      /\ Len(s) \in Nat
    OBVIOUS
<1> HIDE DEF t
<1>2. ToSet(t) = ToSet(s) \cup {e}
    BY <1>1 DEF ToSet
<1>3. ASSUME IsInjective(s), e \notin ToSet(s) PROVE IsInjective(t)
    BY <1>1, <1>3 DEF ToSet, IsInjective
<1>4. QED
    BY <1>2, <1>3 DEF t

\* One step of the recursion adds q[i + 1] when it is in S.
LEMMA KeptRightStep ==
    ASSUME NEW T, NEW q \in Seq(T), NEW S, NEW kept,
           KeepSolved(q, S, Len(q), kept),
           NEW i \in Nat, i + 1 <= Len(q), KeptRight(T, q, S, kept, i)
    PROVE  KeptRight(T, q, S, kept, i + 1)
<1> DEFINE e == q[i + 1]
<1>1. kept[i + 1] = KeepStep(q, S, kept, i + 1)
    BY DEF KeepSolved
<1>2. kept[i + 1] = IF e \in S THEN Append(kept[i], e) ELSE kept[i]
    BY <1>1 DEF KeepStep
<1>3. Seen(q, i + 1) = Seen(q, i) \cup {e} /\ e \in T
    BY DEF Seen
<1>4. IsInjective(q) => e \notin Seen(q, i)
    BY DEF Seen, IsInjective
<1> HIDE DEF e
<1>5. CASE e \notin S
    BY <1>2, <1>3, <1>5 DEF KeptRight
<1>6. CASE e \in S
    BY <1>2, <1>3, <1>4, <1>6, AppendDistinct DEF KeptRight
<1>7. QED
    BY <1>5, <1>6

\* Keep is the last value of the recursion.
LEMMA KeepUnfolds ==
    ASSUME NEW T, NEW q \in Seq(T), NEW S
    PROVE  \E kept : KeepSolved(q, S, Len(q), kept) /\ Keep(q, S) = kept[Len(q)]
<1> DEFINE kept == CHOOSE f : KeepSolved(q, S, Len(q), f)
<1>1. KeepSolved(q, S, Len(q), kept)
    BY KeepRecursionExists
<1>2. Keep(q, S) = kept[Len(q)]
    BY DEF Keep, KeepStep, KeepSolved
<1> HIDE DEF kept
<1>3. QED
    BY <1>1, <1>2

\* Keep(q, S) is made of the members of q that are in S, and repeats none when
\* q repeats none: what removing keys from an ordered dictionary leaves.
LEMMA KeepProperties ==
    ASSUME NEW T, NEW q \in Seq(T), NEW S
    PROVE  /\ Keep(q, S) \in Seq(T)
           /\ ToSet(Keep(q, S)) = ToSet(q) \cap S
           /\ IsInjective(q) => IsInjective(Keep(q, S))
<1> DEFINE N == Len(q)
<1>1. PICK kept : /\ KeepSolved(q, S, N, kept)
                  /\ Keep(q, S) = kept[N]
    BY KeepUnfolds
<1> DEFINE X == {i \in Nat : i <= N => KeptRight(T, q, S, kept, i)}
<1>2. 0 \in X
  <2>1. kept[0] = << >>
      BY <1>1 DEF KeepSolved, KeepStep
  <2>2. Seen(q, 0) = {} /\ ToSet(<< >>) = {}
      BY DEF Seen, ToSet
  <2>3. IsInjective(<< >>) /\ << >> \in Seq(T)
      BY DEF IsInjective
  <2>4. KeptRight(T, q, S, kept, 0)
      BY <2>1, <2>2, <2>3 DEF KeptRight
  <2>5. QED
      BY <2>4
<1>3. ASSUME NEW i \in Nat, i \in X PROVE i + 1 \in X
    BY <1>1, <1>3, KeptRightStep
<1>4. N \in X
  <2> HIDE DEF X
  <2>1. QED
      BY <1>2, <1>3, NatSetInduction
<1>5. Seen(q, N) = ToSet(q)
    BY DEF Seen, ToSet
<1>6. QED
    BY <1>1, <1>4, <1>5 DEF KeptRight

\* The recursion, step by step.
LEMMA KeptSteps ==
    ASSUME NEW q, NEW S, NEW n \in Nat, NEW kept, KeepSolved(q, S, n, kept)
    PROVE  /\ kept[0] = << >>
           /\ \A i \in 0 .. n - 1 :
                  kept[i + 1] = IF q[i + 1] \in S THEN Append(kept[i], q[i + 1])
                                ELSE kept[i]
<1>1. \A i \in 0 .. n : kept[i] = KeepStep(q, S, kept, i)
    BY DEF KeepSolved
<1>2. KeepStep(q, S, kept, 0) = << >>
    BY DEF KeepStep
<1>3. ASSUME NEW i \in 0 .. n - 1
      PROVE  KeepStep(q, S, kept, i + 1) =
                 IF q[i + 1] \in S THEN Append(kept[i], q[i + 1]) ELSE kept[i]
  <2>1. i + 1 # 0 /\ (i + 1) - 1 = i
      OBVIOUS
  <2>2. QED
      BY <2>1 DEF KeepStep
<1>4. 0 \in 0 .. n /\ \A i \in 0 .. n - 1 : i + 1 \in 0 .. n
    OBVIOUS
<1>5. QED
    BY <1>1, <1>2, <1>3, <1>4

\* While every key is in S, all are kept.
LEMMA KeepsPrefix ==
    ASSUME NEW T, NEW q \in Seq(T), NEW S, NEW kept,
           KeepSolved(q, S, Len(q), kept),
           NEW n \in 0 .. Len(q), \A i \in 1 .. n : q[i] \in S
    PROVE  kept[n] = SubSeq(q, 1, n)
<1> DEFINE X == {i \in Nat : i <= n => kept[i] = SubSeq(q, 1, i)}
<1>0. /\ kept[0] = << >>
      /\ \A i \in 0 .. Len(q) - 1 :
             kept[i + 1] = IF q[i + 1] \in S THEN Append(kept[i], q[i + 1]) ELSE kept[i]
  <2>1. Len(q) \in Nat
      OBVIOUS
  <2>2. QED
      BY <2>1, KeptSteps
<1>1. 0 \in X
  <2>1. kept[0] = << >> /\ SubSeq(q, 1, 0) = << >>
      BY <1>0
  <2>2. QED
      BY <2>1
<1>2. ASSUME NEW i \in Nat, i \in X PROVE i + 1 \in X
  <2>1. SUFFICES ASSUME i + 1 <= n PROVE kept[i + 1] = SubSeq(q, 1, i + 1)
      OBVIOUS
  <2>2. kept[i + 1] = Append(SubSeq(q, 1, i), q[i + 1])
    <3>1. i \in 0 .. Len(q) - 1 /\ i + 1 \in 1 .. n
        BY <2>1
    <3>2. QED
      <4>1. kept[i] = SubSeq(q, 1, i) /\ q[i + 1] \in S
          BY <1>2, <2>1, <3>1
      <4>2. QED
          BY <1>0, <3>1, <4>1
  <2>3. SubSeq(q, 1, i + 1) = Append(SubSeq(q, 1, i), q[i + 1])
    <3>1. /\ SubSeq(q, 1, i + 1) \in Seq(T) /\ SubSeq(q, 1, i) \in Seq(T)
          /\ Len(SubSeq(q, 1, i + 1)) = i + 1 /\ Len(SubSeq(q, 1, i)) = i
          /\ q[i + 1] \in T
        BY <2>1
    <3>2. \A j \in 1 .. i + 1 :
              SubSeq(q, 1, i + 1)[j] = Append(SubSeq(q, 1, i), q[i + 1])[j]
        BY <2>1, <3>1
    <3>3. QED
        BY <3>1, <3>2
  <2>4. QED
      BY <2>2, <2>3
<1> HIDE DEF X
<1>3. n \in X
    BY <1>1, <1>2, NatSetInduction
<1>4. QED
    BY <1>3 DEF X

\* Keys of Keep(q, S) stand in the order they have in q.
LEMMA KeepsOrder ==
    ASSUME NEW T, NEW q \in Seq(T), NEW S,
           NEW x \in DOMAIN Keep(q, S), NEW y \in DOMAIN Keep(q, S), x < y
    PROVE  \E i, j \in DOMAIN q : i < j /\ q[i] = Keep(q, S)[x] /\ q[j] = Keep(q, S)[y]
<1>1. PICK kept : KeepSolved(q, S, Len(q), kept) /\ Keep(q, S) = kept[Len(q)]
    BY KeepUnfolds
<1>2. /\ kept[0] = << >>
      /\ \A i \in 0 .. Len(q) - 1 :
             kept[i + 1] = IF q[i + 1] \in S THEN Append(kept[i], q[i + 1]) ELSE kept[i]
  <2>1. Len(q) \in Nat
      OBVIOUS
  <2>2. KeepSolved(q, S, Len(q), kept)
      BY <1>1
  <2> DEFINE n == Len(q)
  <2> HIDE DEF n
  <2>3. n \in Nat /\ KeepSolved(q, S, n, kept)
      BY <2>1, <2>2 DEF n
  <2>4. /\ kept[0] = << >>
        /\ \A i \in 0 .. n - 1 :
               kept[i + 1] = IF q[i + 1] \in S THEN Append(kept[i], q[i + 1])
                             ELSE kept[i]
      BY <2>3, KeptSteps
  <2>5. QED
      BY <2>4 DEF n
<1> DEFINE Ordered(n) ==
        /\ kept[n] \in Seq(T)
        /\ \A v \in DOMAIN kept[n] : \E i \in 1 .. n : q[i] = kept[n][v]
        /\ \A v, w \in DOMAIN kept[n] : v < w =>
               \E i, j \in 1 .. n : i < j /\ q[i] = kept[n][v] /\ q[j] = kept[n][w]
           X == {n \in Nat : n <= Len(q) => Ordered(n)}
<1>3. 0 \in X
  <2>1. kept[0] = << >>
      BY <1>2
  <2>2. Ordered(0)
      BY <2>1
  <2>3. QED
      BY <2>2
<1>4. ASSUME NEW n \in Nat, n \in X PROVE n + 1 \in X
  <2>1. SUFFICES ASSUME n + 1 <= Len(q) PROVE Ordered(n + 1)
      OBVIOUS
  <2>2. Ordered(n)
      BY <1>4, <2>1
  <2>3. kept[n + 1] = IF q[n + 1] \in S THEN Append(kept[n], q[n + 1]) ELSE kept[n]
    <3>1. n \in 0 .. Len(q) - 1
        BY <2>1
    <3>2. QED
        BY <1>2, <3>1
  <2>4. q[n + 1] \in T
      BY <2>1
  <2>5. CASE q[n + 1] \notin S
      BY <2>2, <2>3, <2>5
  <2>6. CASE q[n + 1] \in S
    <3> DEFINE before == kept[n]
               after == kept[n + 1]
    <3>1. /\ after \in Seq(T)
          /\ DOMAIN before = 1 .. Len(before) /\ Len(before) \in Nat
          /\ DOMAIN after = 1 .. Len(before) + 1
          /\ \A v \in 1 .. Len(before) : after[v] = before[v]
          /\ after[Len(before) + 1] = q[n + 1]
        BY <2>2, <2>3, <2>4, <2>6
    <3>2. /\ \A v \in DOMAIN before : \E i \in 1 .. n : q[i] = before[v]
          /\ \A v, w \in DOMAIN before : v < w =>
                 \E i, j \in 1 .. n : i < j /\ q[i] = before[v] /\ q[j] = before[w]
        BY <2>2
    <3> HIDE DEF before, after
    <3>3. /\ \A v \in DOMAIN after : \E i \in 1 .. n + 1 : q[i] = after[v]
          /\ \A v, w \in DOMAIN after : v < w =>
                 \E i, j \in 1 .. n + 1 : i < j /\ q[i] = after[v] /\ q[j] = after[w]
      <4>1. ASSUME NEW v \in DOMAIN after
            PROVE  \E i \in 1 .. n + 1 : q[i] = after[v]
        <5>1. CASE v \in DOMAIN before
          <6>1. PICK i \in 1 .. n : q[i] = before[v]
              BY <3>2, <5>1
          <6>2. i \in 1 .. n + 1 /\ q[i] = after[v]
              BY <3>1, <5>1, <6>1
          <6>3. QED
              BY <6>2
        <5>2. CASE v = Len(before) + 1
            BY <3>1, <5>2
        <5>3. QED
            BY <3>1, <5>1, <5>2
      <4>2. ASSUME NEW v \in DOMAIN after, NEW w \in DOMAIN after, v < w
            PROVE  \E i, j \in 1 .. n + 1 : i < j /\ q[i] = after[v] /\ q[j] = after[w]
        <5>1. v \in DOMAIN before /\ v \in Nat /\ w \in Nat
            BY <3>1, <4>2
        <5>2. CASE w \in DOMAIN before
          <6>1. PICK i \in 1 .. n, j \in 1 .. n :
                    i < j /\ q[i] = before[v] /\ q[j] = before[w]
              BY <3>2, <4>2, <5>1, <5>2
          <6>2. i \in 1 .. n + 1 /\ j \in 1 .. n + 1
              OBVIOUS
          <6>3. q[i] = after[v] /\ q[j] = after[w]
              BY <3>1, <5>1, <5>2, <6>1
          <6>4. QED
              BY <6>1, <6>2, <6>3
        <5>3. CASE w = Len(before) + 1
          <6>1. PICK i \in 1 .. n : q[i] = before[v]
              BY <3>2, <5>1
          <6>2. i \in 1 .. n + 1 /\ n + 1 \in 1 .. n + 1 /\ i < n + 1
              OBVIOUS
          <6>3. q[i] = after[v] /\ q[n + 1] = after[w]
              BY <3>1, <5>1, <5>3, <6>1
          <6>4. QED
              BY <6>2, <6>3
        <5>4. QED
            BY <3>1, <5>2, <5>3
      <4>3. QED
          BY <4>1, <4>2
    <3>4. QED
        BY <3>1, <3>3 DEF after
  <2>7. QED
      BY <2>5, <2>6
<1>5. Len(q) \in X
  <2> HIDE DEF X
  <2>1. QED
      BY <1>3, <1>4, NatSetInduction
<1>6. QED
    BY <1>1, <1>5

\* What deleting one key leaves: the other keys, in their order.  Deleting an
\* absent key changes nothing, deleting the last one leaves the front.
LEMMA DeleteProperties ==
    ASSUME NEW T, NEW q \in Seq(T), NEW s
    PROVE  LET d == Delete(q, {s})
           IN  /\ d \in Seq(T)
               /\ ToSet(d) = ToSet(q) \ {s}
               /\ IsInjective(q) => IsInjective(d)
               /\ s \notin ToSet(q) => d = q
               /\ IsInjective(q) /\ q # << >> /\ s = q[Len(q)] =>
                      d = SubSeq(q, 1, Len(q) - 1)
               /\ \A x, y \in DOMAIN d : x < y =>
                      \E i, j \in DOMAIN q : i < j /\ q[i] = d[x] /\ q[j] = d[y]
<1> DEFINE S == ToSet(q) \ {s}
           d == Delete(q, {s})
<1>1. d = Keep(q, S)
    BY DEF Delete
<1>2. PICK kept : KeepSolved(q, S, Len(q), kept) /\ Keep(q, S) = kept[Len(q)]
    BY KeepUnfolds
<1>3. \A i \in 1 .. Len(q) : q[i] \in ToSet(q)
    BY DEF ToSet
<1>4. s \notin ToSet(q) => d = q
  <2>1. SUFFICES ASSUME s \notin ToSet(q) PROVE d = q
      OBVIOUS
  <2>2. Len(q) \in 0 .. Len(q) /\ \A i \in 1 .. Len(q) : q[i] \in S
      BY <1>3, <2>1
  <2> HIDE DEF S, d
  <2>3. d = SubSeq(q, 1, Len(q))
      BY <1>1, <1>2, <2>2, KeepsPrefix
  <2>4. QED
      BY <2>3
<1>5. IsInjective(q) /\ q # << >> /\ s = q[Len(q)] => d = SubSeq(q, 1, Len(q) - 1)
  <2>1. SUFFICES ASSUME IsInjective(q), q # << >>, s = q[Len(q)]
                 PROVE  d = SubSeq(q, 1, Len(q) - 1)
      OBVIOUS
  <2>2. Len(q) - 1 \in 0 .. Len(q) /\ Len(q) \in DOMAIN q
      BY <2>1
  <2>3. \A i \in 1 .. Len(q) - 1 : q[i] \in S
      BY <1>3, <2>1, <2>2 DEF IsInjective
  <2>4. q[Len(q)] \notin S
      BY <2>1
  <2> HIDE DEF S, d
  <2>5. kept[Len(q) - 1] = SubSeq(q, 1, Len(q) - 1)
      BY <1>2, <2>2, <2>3, KeepsPrefix
  <2>6. kept[Len(q)] = kept[Len(q) - 1]
    <3>1. Len(q) - 1 \in 0 .. Len(q) - 1 /\ Len(q) - 1 + 1 = Len(q) /\ Len(q) \in Nat
        BY <2>2
    <3>2. kept[Len(q) - 1 + 1] = IF q[Len(q) - 1 + 1] \in S
                                 THEN Append(kept[Len(q) - 1], q[Len(q) - 1 + 1])
                                 ELSE kept[Len(q) - 1]
      <4>1. \A i \in 0 .. Len(q) - 1 :
                kept[i + 1] = IF q[i + 1] \in S THEN Append(kept[i], q[i + 1]) ELSE kept[i]
          BY <1>2, <3>1, KeptSteps
      <4>2. QED
          BY <3>1, <4>1
    <3>3. QED
        BY <2>4, <3>1, <3>2
  <2>7. QED
      BY <1>1, <1>2, <2>5, <2>6
<1> HIDE DEF S
<1>6. \A x, y \in DOMAIN d : x < y =>
          \E i, j \in DOMAIN q : i < j /\ q[i] = d[x] /\ q[j] = d[y]
    BY <1>1, KeepsOrder
<1> HIDE DEF d
<1>7. d \in Seq(T) /\ ToSet(d) = ToSet(q) \cap S /\ (IsInjective(q) => IsInjective(d))
    BY <1>1, KeepProperties
<1>8. ToSet(d) = ToSet(q) \ {s}
    BY <1>7 DEF S
<1>9. QED
    BY <1>4, <1>5, <1>6, <1>7, <1>8 DEF d

\* The concatenation of two queues without a common key.
LEMMA ConcatDistinct ==
    ASSUME NEW T, NEW s \in Seq(T), NEW t \in Seq(T)
    PROVE  /\ s \o t \in Seq(T)
           /\ Len(s \o t) = Len(s) + Len(t)
           /\ ToSet(s \o t) = ToSet(s) \cup ToSet(t)
           /\ IsInjective(s) /\ IsInjective(t) /\ ToSet(s) \cap ToSet(t) = {}
                => IsInjective(s \o t)
<1> DEFINE u == s \o t
<1>1. /\ u \in Seq(T)
      /\ Len(u) = Len(s) + Len(t)
      /\ DOMAIN u = 1 .. Len(s) + Len(t)
      /\ DOMAIN s = 1 .. Len(s) /\ DOMAIN t = 1 .. Len(t)
      /\ Len(s) \in Nat /\ Len(t) \in Nat
      /\ \A i \in 1 .. Len(s) : u[i] = s[i]
      /\ \A i \in Len(s) + 1 .. Len(s) + Len(t) : u[i] = t[i - Len(s)]
    OBVIOUS
<1>2. \A i \in 1 .. Len(t) : u[i + Len(s)] = t[i]
    BY <1>1
<1> HIDE DEF u
<1>3. ToSet(u) = ToSet(s) \cup ToSet(t)
  <2>1. \A x \in ToSet(u) : x \in ToSet(s) \cup ToSet(t)
    <3>1. SUFFICES ASSUME NEW i \in 1 .. Len(s) + Len(t)
                   PROVE  u[i] \in ToSet(s) \cup ToSet(t)
        BY <1>1 DEF ToSet
    <3>2. CASE i \in 1 .. Len(s)
        BY <1>1, <3>2 DEF ToSet
    <3>3. CASE i \in Len(s) + 1 .. Len(s) + Len(t)
      <4>1. i - Len(s) \in DOMAIN t /\ u[i] = t[i - Len(s)]
          BY <1>1, <3>3
      <4>2. QED
          BY <4>1 DEF ToSet
    <3>4. QED
        BY <1>1, <3>2, <3>3
  <2>2. \A x \in ToSet(s) : x \in ToSet(u)
      BY <1>1 DEF ToSet
  <2>3. \A x \in ToSet(t) : x \in ToSet(u)
    <3>1. TAKE x \in ToSet(t)
    <3>2. PICK i \in DOMAIN t : x = t[i]
        BY DEF ToSet
    <3>3. i + Len(s) \in DOMAIN u /\ x = u[i + Len(s)]
        BY <1>1, <1>2, <3>2
    <3>4. QED
        BY <3>3 DEF ToSet
  <2>4. QED
      BY <2>1, <2>2, <2>3
<1>4. ASSUME IsInjective(s), IsInjective(t), ToSet(s) \cap ToSet(t) = {}
      PROVE  IsInjective(u)
  <2>1. SUFFICES ASSUME NEW i \in DOMAIN u, NEW j \in DOMAIN u, u[i] = u[j]
                 PROVE  i = j
      BY DEF IsInjective
  <2>2. CASE i <= Len(s) /\ j <= Len(s)
      BY <1>1, <1>4, <2>1, <2>2 DEF IsInjective
  <2>3. CASE i > Len(s) /\ j > Len(s)
    <3>1. i - Len(s) \in DOMAIN t /\ j - Len(s) \in DOMAIN t
        BY <1>1, <2>3
    <3>2. i - Len(s) = j - Len(s)
        BY <1>1, <1>4, <2>1, <2>3, <3>1 DEF IsInjective
    <3>3. QED
        BY <1>1, <3>2
  <2>4. \A m \in 1 .. Len(s), n \in Len(s) + 1 .. Len(s) + Len(t) : u[m] # u[n]
    <3>1. \A m \in 1 .. Len(s) : u[m] \in ToSet(s)
        BY <1>1 DEF ToSet
    <3>2. ASSUME NEW n \in Len(s) + 1 .. Len(s) + Len(t) PROVE u[n] \in ToSet(t)
      <4>1. n - Len(s) \in DOMAIN t /\ u[n] = t[n - Len(s)]
          BY <1>1
      <4>2. QED
          BY <4>1 DEF ToSet
    <3>3. QED
        BY <3>1, <3>2, <1>4
  <2>5. QED
      BY <1>1, <2>1, <2>2, <2>3, <2>4
<1>5. QED
    BY <1>1, <1>3, <1>4 DEF u

\* A reversed queue has the same keys.
LEMMA ReverseDistinct ==
    ASSUME NEW T, NEW s \in Seq(T)
    PROVE  /\ Reverse(s) \in Seq(T)
           /\ ToSet(Reverse(s)) = ToSet(s)
           /\ IsInjective(s) => IsInjective(Reverse(s))
<1> DEFINE r == Reverse(s)
           N == Len(s)
<1>1. /\ r \in Seq(T) /\ N \in Nat
      /\ DOMAIN r = 1 .. N /\ DOMAIN s = 1 .. N
      /\ \A i \in 1 .. N : N - i + 1 \in 1 .. N /\ r[i] = s[N - i + 1]
    BY DEF Reverse
<1>2. \A i \in 1 .. N : r[N - i + 1] = s[i]
  <2>1. TAKE i \in 1 .. N
  <2>2. N - (N - i + 1) + 1 = i
      BY <1>1
  <2>3. r[N - i + 1] = s[N - (N - i + 1) + 1]
      BY <1>1
  <2>4. QED
      BY <2>2, <2>3
<1> HIDE DEF r, N
<1>3. ToSet(r) = ToSet(s)
  <2>1. \A x \in ToSet(r) : x \in ToSet(s)
    <3>1. TAKE x \in ToSet(r)
    <3>2. PICK i \in 1 .. N : x = r[i]
        BY <1>1 DEF ToSet
    <3>3. N - i + 1 \in DOMAIN s /\ x = s[N - i + 1]
        BY <1>1, <3>2
    <3>4. QED
        BY <3>3 DEF ToSet
  <2>2. \A x \in ToSet(s) : x \in ToSet(r)
    <3>1. TAKE x \in ToSet(s)
    <3>2. PICK i \in 1 .. N : x = s[i]
        BY <1>1 DEF ToSet
    <3>3. N - i + 1 \in DOMAIN r /\ x = r[N - i + 1]
        BY <1>1, <1>2, <3>2
    <3>4. QED
        BY <3>3 DEF ToSet
  <2>3. QED
      BY <2>1, <2>2
<1>4. ASSUME IsInjective(s) PROVE IsInjective(r)
  <2>1. SUFFICES ASSUME NEW i \in DOMAIN r, NEW j \in DOMAIN r, r[i] = r[j]
                 PROVE  i = j
      BY DEF IsInjective
  <2>2. N - i + 1 = N - j + 1
      BY <1>1, <1>4, <2>1 DEF IsInjective
  <2>3. QED
      BY <1>1, <2>2
<1>5. QED
    BY <1>1, <1>3, <1>4 DEF r

\* A queue cut in two.
LEMMA SplitDistinct ==
    ASSUME NEW T, NEW q \in Seq(T), NEW n \in 0 .. Len(q)
    PROVE  LET front == SubSeq(q, 1, n)
               back  == SubSeq(q, n + 1, Len(q))
           IN  /\ front \in Seq(T) /\ back \in Seq(T)
               /\ Len(front) = n
               /\ ToSet(front) \cup ToSet(back) = ToSet(q)
               /\ IsInjective(q) => /\ IsInjective(front) /\ IsInjective(back)
                                    /\ ToSet(front) \cap ToSet(back) = {}
<1> DEFINE front == SubSeq(q, 1, n)
           back  == SubSeq(q, n + 1, Len(q))
<1>1. /\ front \in Seq(T) /\ back \in Seq(T)
      /\ Len(front) = n /\ n \in Nat /\ Len(q) \in Nat
      /\ DOMAIN front = 1 .. n /\ DOMAIN q = 1 .. Len(q)
      /\ DOMAIN back = 1 .. Len(q) - n
      /\ \A i \in 1 .. n : front[i] = q[i]
      /\ \A i \in 1 .. Len(q) - n : back[i] = q[n + i]
    OBVIOUS
<1>2. \A i \in n + 1 .. Len(q) : i - n \in 1 .. Len(q) - n /\ back[i - n] = q[i]
    BY <1>1
<1> HIDE DEF front, back
<1>3. ToSet(front) \cup ToSet(back) = ToSet(q)
  <2>1. \A x \in ToSet(q) : x \in ToSet(front) \cup ToSet(back)
    <3>1. TAKE x \in ToSet(q)
    <3>2. PICK i \in 1 .. Len(q) : x = q[i]
        BY <1>1 DEF ToSet
    <3>3. CASE i <= n
        BY <1>1, <3>2, <3>3 DEF ToSet
    <3>4. CASE i > n
      <4>1. i - n \in DOMAIN back /\ back[i - n] = x
          BY <1>1, <1>2, <3>2, <3>4
      <4>2. QED
          BY <4>1 DEF ToSet
    <3>5. QED
        BY <1>1, <3>3, <3>4
  <2>2. \A x \in ToSet(front) : x \in ToSet(q)
      BY <1>1 DEF ToSet
  <2>3. \A x \in ToSet(back) : x \in ToSet(q)
    <3>1. TAKE x \in ToSet(back)
    <3>2. PICK i \in 1 .. Len(q) - n : x = back[i]
        BY <1>1 DEF ToSet
    <3>3. n + i \in DOMAIN q /\ x = q[n + i]
        BY <1>1, <3>2
    <3>4. QED
        BY <3>3 DEF ToSet
  <2>4. QED
      BY <2>1, <2>2, <2>3
<1>4. ASSUME IsInjective(q)
      PROVE  /\ IsInjective(front) /\ IsInjective(back)
             /\ ToSet(front) \cap ToSet(back) = {}
  <2>1. IsInjective(front)
      BY <1>1, <1>4 DEF IsInjective
  <2>2. IsInjective(back)
    <3>1. SUFFICES ASSUME NEW i \in 1 .. Len(q) - n, NEW j \in 1 .. Len(q) - n,
                          back[i] = back[j]
                   PROVE  i = j
        BY <1>1 DEF IsInjective
    <3>2. n + i \in DOMAIN q /\ n + j \in DOMAIN q /\ q[n + i] = q[n + j]
        BY <1>1, <3>1
    <3>3. n + i = n + j
        BY <1>4, <3>2 DEF IsInjective
    <3>4. QED
        BY <1>1, <3>3
  <2>3. \A i \in 1 .. n, j \in 1 .. Len(q) - n : front[i] # back[j]
    <3>1. TAKE i \in 1 .. n, j \in 1 .. Len(q) - n
    <3>2. i \in DOMAIN q /\ n + j \in DOMAIN q /\ i # n + j
        BY <1>1
    <3>3. q[i] # q[n + j]
        BY <1>4, <3>2 DEF IsInjective
    <3>4. QED
        BY <1>1, <3>3
  <2>4. ToSet(front) \cap ToSet(back) = {}
      BY <1>1, <2>3 DEF ToSet
  <2>5. QED
      BY <2>1, <2>2, <2>4
<1>5. QED
    BY <1>1, <1>3, <1>4 DEF front, back

\* A queue of distinct keys has as many places as keys.
LEMMA LenIsCardinality ==
    ASSUME NEW T, NEW q \in Seq(T), IsInjective(q)
    PROVE  IsFiniteSet(ToSet(q)) /\ Cardinality(ToSet(q)) = Len(q)
<1>1. Len(q) \in Nat /\ q \in [1 .. Len(q) -> ToSet(q)]
    BY DEF ToSet
<1>2. q \in Bijection(1 .. Len(q), ToSet(q))
    BY <1>1 DEF ToSet, IsInjective, Bijection, Injection, Surjection
<1>3. IsFiniteSet(1 .. Len(q)) /\ Cardinality(1 .. Len(q)) = Len(q)
    BY <1>1, FS_Interval
<1>4. ExistsBijection(1 .. Len(q), ToSet(q))
    BY <1>2 DEF ExistsBijection
<1>5. QED
    BY <1>3, <1>4, FS_Bijection
-----------------------------------------------------------------------------
(* Numbers.                                                                *)

\* A quotient is the number of whole divisors in a number.
LEMMA DivTimes ==
    ASSUME NEW n \in Nat, NEW d \in Nat \ {0}
    PROVE  /\ n \div d \in Nat
           /\ (n \div d) * d <= n
           /\ n < (n \div d + 1) * d
BY SMT

\* More of them are no less.
LEMMA TimesMonotone ==
    ASSUME NEW a \in Nat, NEW b \in Nat, NEW d \in Nat, a <= b
    PROVE  a * d <= b * d
<1>1. PICK c \in Nat : b = a + c
    BY b = a + (b - a)
<1>2. b * d = a * d + c * d /\ c * d \in Nat /\ a * d \in Nat
    BY <1>1
<1>3. QED
    BY <1>2

\* A product has one quotient.
LEMMA TimesCancel ==
    ASSUME NEW a \in Nat, NEW b \in Nat, NEW d \in Nat \ {0}, a * d = b * d
    PROVE  a = b
BY SMT

RoundedUp(n, d) == (n + d - 1) \div d

\* It is the least number of times d that reaches n.
LEMMA QuotientRoundedUp ==
    ASSUME NEW n \in Nat, NEW d \in Nat \ {0}
    PROVE  /\ RoundedUp(n, d) \in Nat
           /\ n <= RoundedUp(n, d) * d
           /\ \A m \in Nat : n <= m * d => RoundedUp(n, d) <= m
           /\ \A m \in Nat : n <= m => RoundedUp(n, d) <= RoundedUp(m, d)
<1> DEFINE c == RoundedUp(n, d)
<1>1. ASSUME NEW x \in Nat
      PROVE  /\ RoundedUp(x, d) \in Nat /\ RoundedUp(x, d) * d \in Nat
             /\ x <= RoundedUp(x, d) * d
             /\ RoundedUp(x, d) * d <= x + d - 1
  <2> DEFINE e == RoundedUp(x, d)
  <2>1. x + d - 1 \in Nat
      OBVIOUS
  <2>2. e \in Nat /\ e * d <= x + d - 1 /\ x + d - 1 < (e + 1) * d
      BY <2>1, DivTimes DEF RoundedUp
  <2> HIDE DEF e
  <2>3. (e + 1) * d = e * d + d /\ e * d \in Nat
      BY <2>2
  <2>4. QED
      BY <2>2, <2>3 DEF e
<1>2. c \in Nat /\ c * d \in Nat /\ n <= c * d /\ c * d <= n + d - 1
    BY <1>1
<1> HIDE DEF c
<1>3. ASSUME NEW m \in Nat, n <= m * d PROVE c <= m
  <2>1. SUFFICES ASSUME m + 1 <= c PROVE FALSE
      BY <1>2
  <2>2. (m + 1) * d <= c * d
      BY <1>2, <2>1, TimesMonotone
  <2>3. (m + 1) * d = m * d + d /\ m * d \in Nat
      OBVIOUS
  <2>4. QED
      BY <1>2, <1>3, <2>2, <2>3
<1>4. ASSUME NEW m \in Nat, n <= m PROVE c <= RoundedUp(m, d)
  <2>1. RoundedUp(m, d) \in Nat /\ RoundedUp(m, d) * d \in Nat /\ m <= RoundedUp(m, d) * d
      BY <1>1
  <2>2. n <= RoundedUp(m, d) * d
      BY <1>4, <2>1
  <2>3. QED
      BY <1>3, <2>1, <2>2
<1>5. QED
    BY <1>2, <1>3, <1>4 DEF c

\* A nonempty set of numbers up to M has a greatest member.
LEMMA MaxOfBounded ==
    ASSUME NEW M \in Nat, NEW S \in SUBSET (0 .. M), S # {}
    PROVE  Max(S) \in S /\ \A y \in S : y <= Max(S)
<1> DEFINE D == {M - x : x \in S}
<1>1. D \in SUBSET Nat /\ D # {}
  <2>1. \A x \in S : M - x \in Nat /\ M - x \in D
      OBVIOUS
  <2>2. QED
      BY <2>1
<1>2. PICK d \in D : \A y \in D : d <= y
    BY <1>1, LeastNat
<1>3. PICK x \in S : d = M - x
    BY <1>2
<1>4. \A y \in S : M - x <= M - y
    BY <1>2, <1>3
<1>5. \A y \in S : x >= y
    BY <1>4
<1>6. Max(S) \in S /\ \A y \in S : Max(S) >= y
    BY <1>5 DEF Max
<1>7. QED
    BY <1>6

\* A nonempty set of naturals has its minimum.
LEMMA MinOfNats ==
    ASSUME NEW S \in SUBSET Nat, S # {}
    PROVE  Min(S) \in S /\ \A y \in S : Min(S) <= y
BY LeastNat DEF Min

\* A finite set of naturals has a bound.
LEMMA FiniteSetsAreBounded ==
    ASSUME NEW S \in SUBSET Nat, IsFiniteSet(S)
    PROVE  \E m \in Nat : \A y \in S : y <= m
<1> DEFINE X == {n \in Nat : \A T \in SUBSET Nat : IsFiniteSet(T) /\ Cardinality(T) = n =>
                                 \E m \in Nat : \A y \in T : y <= m}
<1>1. 0 \in X
  <2>1. \A T : IsFiniteSet(T) /\ Cardinality(T) = 0 => T = {}
      BY FS_EmptySet
  <2>2. QED
      BY <2>1
<1>2. ASSUME NEW n \in Nat, n \in X PROVE n + 1 \in X
  <2>1. SUFFICES ASSUME NEW T \in SUBSET Nat, IsFiniteSet(T), Cardinality(T) = n + 1
                 PROVE  \E m \in Nat : \A y \in T : y <= m
      OBVIOUS
  <2>2. PICK x : x \in T
    <3>1. T # {}
        BY <2>1, FS_EmptySet
    <3>2. QED
        BY <3>1
  <2>3. IsFiniteSet(T \ {x}) /\ Cardinality(T \ {x}) = n
    <3>1. IsFiniteSet(T \ {x}) /\ Cardinality(T \ {x}) = Cardinality(T) - 1
        BY <2>1, <2>2, FS_RemoveElement
    <3>2. QED
        BY <2>1, <3>1
  <2>4. PICK m \in Nat : \A y \in T \ {x} : y <= m
      BY <1>2, <2>3
  <2>5. x \in Nat /\ m + x \in Nat /\ \A y \in T : y <= m + x
      BY <2>1, <2>2, <2>4
  <2>6. QED
      BY <2>5
<1> HIDE DEF X
<1>3. Nat \subseteq X
    BY <1>1, <1>2, NatSetInduction
<1>4. Cardinality(S) \in X
    BY <1>3, FS_CardinalityType
<1>5. QED
    BY <1>4 DEF X

\* A nonempty finite set of naturals has its maximum.
LEMMA MaxOfFinite ==
    ASSUME NEW S \in SUBSET Nat, S # {}, IsFiniteSet(S)
    PROVE  Max(S) \in S /\ \A y \in S : y <= Max(S)
<1>1. PICK m \in Nat : \A y \in S : y <= m
    BY FiniteSetsAreBounded
<1>2. S \in SUBSET (0 .. m)
    BY <1>1
<1>3. QED
    BY <1>2, MaxOfBounded

\* So do the values of a function on 1 .. n.
LEMMA MaxOfValues ==
    ASSUME NEW n \in Nat \ {0}, NEW f, DOMAIN f = 1 .. n, \A i \in 1 .. n : f[i] \in Nat
    PROVE  LET S == {f[i] : i \in DOMAIN f}
           IN  Max(S) \in S /\ Max(S) \in Nat /\ \A i \in 1 .. n : f[i] <= Max(S)
<1> DEFINE S == {f[i] : i \in DOMAIN f}
           g == [i \in 1 .. n |-> f[i]]
<1>1. S \in SUBSET Nat /\ f[1] \in S
    OBVIOUS
<1>2. g \in Surjection(1 .. n, S)
    BY DEF Surjection
<1>3. IsFiniteSet(S)
  <2>1. IsFiniteSet(1 .. n)
      BY FS_Interval
  <2> HIDE DEF S, g
  <2>2. QED
      BY <1>2, <2>1, FS_Surjection
<1>4. Max(S) \in S /\ \A y \in S : y <= Max(S)
    BY <1>1, <1>3, MaxOfFinite
<1>5. QED
    BY <1>1, <1>4

\* f[i] is the sum of the first i of n numbers.
SumsUpTo(n, w, f) == f = [i \in 0 .. n |-> IF i = 0 THEN 0 ELSE f[i - 1] + w[i]]

\* Running sums exist.
LEMMA SumsExist == ASSUME NEW n \in Nat, NEW w PROVE \E f : SumsUpTo(n, w, f)
<1> DEFINE X == {m \in Nat : \E f : SumsUpTo(m, w, f)}
<1>1. 0 \in X
  <2>1. SumsUpTo(0, w, [i \in 0 .. 0 |-> 0])
      BY DEF SumsUpTo
  <2>2. QED
      BY <2>1
<1>2. ASSUME NEW m \in Nat, m \in X PROVE m + 1 \in X
  <2>1. PICK f : SumsUpTo(m, w, f)
      BY <1>2
  <2> DEFINE g == [i \in 0 .. m + 1 |-> IF i <= m THEN f[i] ELSE f[m] + w[m + 1]]
  <2>2. \A i \in 0 .. m : f[i] = IF i = 0 THEN 0 ELSE f[i - 1] + w[i]
      BY <2>1 DEF SumsUpTo
  <2>3. \A i \in 0 .. m + 1 : g[i] = IF i = 0 THEN 0 ELSE g[i - 1] + w[i]
    <3>1. TAKE i \in 0 .. m + 1
    <3>2. CASE i = m + 1
      <4>1. g[i] = f[m] + w[i] /\ g[i - 1] = f[m] /\ i # 0
          BY <3>2
      <4>2. QED
          BY <4>1
    <3>3. CASE i = 0
        BY <2>2, <3>3
    <3>4. CASE i \in 1 .. m
      <4>1. g[i] = f[i] /\ g[i - 1] = f[i - 1] /\ i \in 0 .. m /\ i # 0
          BY <3>4
      <4>2. QED
          BY <2>2, <4>1
    <3>5. QED
        BY <3>2, <3>3, <3>4
  <2>4. g = [i \in 0 .. m + 1 |-> g[i]]
      OBVIOUS
  <2> HIDE DEF g
  <2>5. SumsUpTo(m + 1, w, g)
      BY <2>3, <2>4 DEF SumsUpTo
  <2>6. QED
      BY <2>5
<1> HIDE DEF X
<1>3. n \in X
    BY <1>1, <1>2, NatSetInduction
<1>4. QED
    BY <1>3 DEF X

\* They are numbers, and lay the terms end to end.
LEMMA SumsInOrder ==
    ASSUME NEW n \in Nat, NEW w, \A i \in 1 .. n : w[i] \in Nat, NEW f, SumsUpTo(n, w, f)
    PROVE  /\ \A i \in 0 .. n : f[i] \in Nat
           /\ f[0] = 0
           /\ \A i \in 1 .. n : f[i] = f[i - 1] + w[i]
           /\ \A i, j \in 1 .. n : i < j => f[i - 1] + w[i] <= f[j - 1]
           /\ \A i \in 1 .. n : f[i - 1] + w[i] <= f[n]
<1>1. /\ f[0] = 0
      /\ \A i \in 1 .. n : f[i] = f[i - 1] + w[i]
    BY DEF SumsUpTo
<1> DEFINE X == {j \in Nat : j <= n => /\ \A i \in 0 .. j : f[i] \in Nat
                                       /\ \A i \in 1 .. j : f[i - 1] + w[i] <= f[j]}
<1>2. 0 \in X
    BY <1>1
<1>3. ASSUME NEW j \in Nat, j \in X PROVE j + 1 \in X
  <2>1. SUFFICES ASSUME j + 1 <= n
                 PROVE  /\ \A i \in 0 .. j + 1 : f[i] \in Nat
                        /\ \A i \in 1 .. j + 1 : f[i - 1] + w[i] <= f[j + 1]
      OBVIOUS
  <2>2. /\ \A i \in 0 .. j : f[i] \in Nat
        /\ f[j] \in Nat /\ \A i \in 1 .. j : f[i - 1] + w[i] <= f[j]
      BY <1>3, <2>1
  <2>3. j + 1 \in 1 .. n /\ (j + 1) - 1 = j
      BY <2>1
  <2>4. f[j + 1] = f[j] + w[j + 1] /\ w[j + 1] \in Nat
      BY <1>1, <2>3
  <2>5. f[j + 1] \in Nat /\ f[j] <= f[j + 1]
      BY <2>2, <2>4
  <2>6. ASSUME NEW i \in 1 .. j + 1 PROVE f[i - 1] + w[i] <= f[j + 1]
    <3>1. CASE i = j + 1
        BY <2>3, <2>4, <2>5, <3>1
    <3>2. CASE i # j + 1
      <4>1. i \in 1 .. j /\ i \in 1 .. n
          BY <2>1, <3>2
      <4>2. f[i - 1] + w[i] = f[i] /\ f[i - 1] + w[i] <= f[j]
          BY <1>1, <2>2, <4>1
      <4>3. f[i] \in Nat
          BY <2>2, <4>1
      <4>4. QED
          BY <2>2, <2>5, <4>2, <4>3
    <3>3. QED
        BY <3>1, <3>2
  <2>7. ASSUME NEW i \in 0 .. j + 1 PROVE f[i] \in Nat
    <3>1. i \in 0 .. j \/ i = j + 1
        OBVIOUS
    <3>2. QED
        BY <2>2, <2>5, <3>1
  <2>8. QED
      BY <2>6, <2>7
<1> HIDE DEF X
<1>4. \A j \in 0 .. n : j \in X
    BY <1>2, <1>3, NatSetInduction
<1>5. \A j \in 0 .. n : f[j] \in Nat /\ \A i \in 1 .. j : f[i - 1] + w[i] <= f[j]
    BY <1>4 DEF X
<1>6. ASSUME NEW i \in 1 .. n, NEW j \in 1 .. n, i < j PROVE f[i - 1] + w[i] <= f[j - 1]
  <2>1. j - 1 \in 0 .. n /\ i \in 1 .. j - 1
      BY <1>6
  <2>2. QED
      BY <1>5, <2>1
<1>7. QED
    BY <1>1, <1>5, <1>6

\* The greater and the lesser of two numbers.
LEMMA OfTwo ==
    ASSUME NEW a \in Nat, NEW b \in Nat
    PROVE  /\ Max({a, b}) \in Nat /\ a <= Max({a, b}) /\ b <= Max({a, b})
           /\ Max({a, b}) = a \/ Max({a, b}) = b
           /\ Min({a, b}) \in Nat /\ Min({a, b}) <= a /\ Min({a, b}) <= b
           /\ Min({a, b}) = a \/ Min({a, b}) = b
<1> DEFINE S == {a, b}
<1>1. S \in SUBSET Nat /\ S # {} /\ S \in SUBSET (0 .. a + b) /\ a + b \in Nat
    OBVIOUS
<1>2. Max(S) \in S /\ \A y \in S : y <= Max(S)
    BY <1>1, MaxOfBounded
<1>3. Min(S) \in S /\ \A y \in S : Min(S) <= y
    BY <1>1, MinOfNats
<1>4. QED
    BY <1>2, <1>3

-----------------------------------------------------------------------------
(* Powers of two.                                                          *)

\* f solves, up to n, the recursion that defines Pow2.
PowersUpTo(n, f) == f = [k \in 0 .. n |-> IF k = 0 THEN 1 ELSE 2 * f[k - 1]]

\* The recursion has a solution up to every number.
LEMMA PowersExist == ASSUME NEW n \in Nat PROVE \E f : PowersUpTo(n, f)
<1> DEFINE X == {m \in Nat : \E f : PowersUpTo(m, f)}
<1>1. 0 \in X
  <2>1. PowersUpTo(0, [k \in 0 .. 0 |-> 1])
      BY DEF PowersUpTo
  <2>2. QED
      BY <2>1
<1>2. ASSUME NEW m \in Nat, m \in X PROVE m + 1 \in X
  <2>1. PICK f : PowersUpTo(m, f)
      BY <1>2
  <2> DEFINE g == [k \in 0 .. m + 1 |-> IF k <= m THEN f[k] ELSE 2 * f[m]]
  <2>2. \A k \in 0 .. m : f[k] = IF k = 0 THEN 1 ELSE 2 * f[k - 1]
      BY <2>1 DEF PowersUpTo
  <2>3. \A k \in 0 .. m + 1 : g[k] = IF k = 0 THEN 1 ELSE 2 * g[k - 1]
    <3>1. TAKE k \in 0 .. m + 1
    <3>2. CASE k = m + 1
      <4>1. g[k] = 2 * f[m] /\ g[k - 1] = f[m] /\ k # 0
          BY <3>2
      <4>2. QED
          BY <4>1
    <3>3. CASE k = 0
        BY <2>2, <3>3
    <3>4. CASE k \in 1 .. m
      <4>1. g[k] = f[k] /\ g[k - 1] = f[k - 1] /\ k \in 0 .. m /\ k # 0
          BY <3>4
      <4>2. QED
          BY <2>2, <4>1
    <3>5. QED
        BY <3>2, <3>3, <3>4
  <2>4. g = [k \in 0 .. m + 1 |-> g[k]]
      OBVIOUS
  <2> HIDE DEF g
  <2>5. PowersUpTo(m + 1, g)
      BY <2>3, <2>4 DEF PowersUpTo
  <2>6. QED
      BY <2>5
<1> HIDE DEF X
<1>3. n \in X
    BY <1>1, <1>2, NatSetInduction
<1>4. QED
    BY <1>3 DEF X

\* Two solutions agree where both are defined.
LEMMA PowersAgree ==
    ASSUME NEW m \in Nat, NEW n \in Nat, NEW f, NEW g, PowersUpTo(m, f), PowersUpTo(n, g),
           NEW k \in Nat, k <= m, k <= n
    PROVE  f[k] = g[k]
<1> DEFINE X == {i \in Nat : i <= m /\ i <= n => f[i] = g[i]}
<1>1. /\ \A i \in 0 .. m : f[i] = IF i = 0 THEN 1 ELSE 2 * f[i - 1]
      /\ \A i \in 0 .. n : g[i] = IF i = 0 THEN 1 ELSE 2 * g[i - 1]
    BY DEF PowersUpTo
<1>2. 0 \in X
    BY <1>1
<1>3. ASSUME NEW i \in Nat, i \in X PROVE i + 1 \in X
  <2>1. SUFFICES ASSUME i + 1 <= m, i + 1 <= n PROVE f[i + 1] = g[i + 1]
      OBVIOUS
  <2>2. f[i] = g[i]
      BY <1>3, <2>1
  <2>3. i + 1 \in 0 .. m /\ i + 1 \in 0 .. n /\ (i + 1) - 1 = i /\ i + 1 # 0
      BY <2>1
  <2>4. f[i + 1] = 2 * f[i] /\ g[i + 1] = 2 * g[i]
      BY <1>1, <2>3
  <2>5. QED
      BY <2>2, <2>4
<1> HIDE DEF X
<1>4. k \in X
    BY <1>2, <1>3, NatSetInduction
<1>5. QED
    BY <1>4 DEF X

\* Pow2 satisfies its recursion.
LEMMA Pow2Unfolds ==
    /\ Pow2[0] = 1
    /\ \A k \in Nat : Pow2[k + 1] = 2 * Pow2[k]
<1> DEFINE Solves(f) == f = [k \in Nat |-> IF k = 0 THEN 1 ELSE 2 * f[k - 1]]
           at(n) == CHOOSE f : PowersUpTo(n, f)
           h == [n \in Nat |-> at(n)[n]]
<1>1. \A n \in Nat : PowersUpTo(n, at(n))
    BY PowersExist
<1> HIDE DEF at
<1>2. \A n \in Nat : h[n] = IF n = 0 THEN 1 ELSE 2 * h[n - 1]
  <2>1. TAKE n \in Nat
  <2>2. at(n)[n] = IF n = 0 THEN 1 ELSE 2 * at(n)[n - 1]
      BY <1>1 DEF PowersUpTo
  <2>3. CASE n = 0
      BY <2>2, <2>3
  <2>4. CASE n # 0
    <3>1. n - 1 \in Nat /\ n - 1 <= n
        BY <2>4
    <3>2. at(n)[n - 1] = at(n - 1)[n - 1]
        BY <1>1, <3>1, PowersAgree
    <3>3. QED
        BY <2>2, <2>4, <3>1, <3>2
  <2>5. QED
      BY <2>3, <2>4
<1>3. h = [k \in Nat |-> h[k]]
    OBVIOUS
<1> HIDE DEF h
<1>4. Solves(h)
    BY <1>2, <1>3
<1>5. Pow2 = CHOOSE f : Solves(f)
    BY DEF Pow2
<1> HIDE DEF Solves
<1>6. Solves(Pow2)
    BY <1>4, <1>5
<1>7. \A k \in Nat : Pow2[k] = IF k = 0 THEN 1 ELSE 2 * Pow2[k - 1]
    BY <1>6 DEF Solves
<1>8. ASSUME NEW k \in Nat PROVE Pow2[k + 1] = 2 * Pow2[k]
  <2>1. k + 1 \in Nat /\ (k + 1) - 1 = k /\ k + 1 # 0
      OBVIOUS
  <2>2. QED
      BY <1>7, <2>1
<1>9. QED
    BY <1>7, <1>8

\* Powers of two are numbers greater than their exponents, and grow with them.
LEMMA Pow2Grows ==
    /\ \A k \in Nat : Pow2[k] \in Nat /\ k < Pow2[k]
    /\ \A j, k \in Nat : j < k => Pow2[j] < Pow2[k]
<1> DEFINE X == {k \in Nat : /\ Pow2[k] \in Nat /\ k < Pow2[k]
                             /\ \A j \in Nat : j < k => Pow2[j] \in Nat /\ Pow2[j] < Pow2[k]}
<1>1. 0 \in X
    BY Pow2Unfolds
<1>2. ASSUME NEW k \in Nat, k \in X PROVE k + 1 \in X
  <2>1. Pow2[k + 1] = 2 * Pow2[k] /\ Pow2[k] \in Nat /\ k < Pow2[k]
      BY <1>2, Pow2Unfolds
  <2>2. /\ Pow2[k + 1] \in Nat /\ k + 1 < Pow2[k + 1] /\ Pow2[k] < Pow2[k + 1]
      BY <2>1
  <2>3. ASSUME NEW j \in Nat, j < k + 1 PROVE Pow2[j] \in Nat /\ Pow2[j] < Pow2[k + 1]
    <3>1. CASE j = k
        BY <2>1, <2>2, <3>1
    <3>2. CASE j < k
      <4>1. Pow2[j] \in Nat /\ Pow2[j] < Pow2[k]
          BY <1>2, <3>2
      <4>2. QED
          BY <2>1, <2>2, <4>1
    <3>3. QED
        BY <2>3, <3>1, <3>2
  <2>4. QED
      BY <2>2, <2>3
<1> HIDE DEF X
<1>3. Nat \subseteq X
    BY <1>1, <1>2, NatSetInduction
<1>4. QED
    BY <1>3 DEF X

\* NextPow2 is the least power of two that is no less.
LEMMA NextPow2IsLeast ==
    ASSUME NEW n \in Nat
    PROVE  /\ NextPow2(n) \in Nat /\ n <= NextPow2(n)
           /\ \E k \in Nat : NextPow2(n) = Pow2[k]
           /\ \A k \in Nat : n <= Pow2[k] => NextPow2(n) <= Pow2[k]
<1> DEFINE J == {j \in 0 .. n : Pow2[j] >= n}
           S == {Pow2[k] : k \in J}
<1>1. n \in J
    BY Pow2Grows
<1>2. S \in SUBSET Nat /\ S # {}
  <2>1. \A k \in J : k \in Nat /\ Pow2[k] \in Nat
      BY Pow2Grows
  <2>2. Pow2[n] \in S
      BY <1>1
  <2> HIDE DEF J
  <2>3. QED
      BY <2>1, <2>2
<1>3. NextPow2(n) = Min(S)
    BY DEF NextPow2
<1>4. Min(S) \in S /\ \A y \in S : Min(S) <= y
    BY <1>2, MinOfNats
<1>5. PICK i \in J : Min(S) = Pow2[i]
    BY <1>4
<1>6. i \in Nat /\ Pow2[i] \in Nat /\ n <= Pow2[i]
    BY <1>5, Pow2Grows
<1>7. ASSUME NEW k \in Nat, n <= Pow2[k] PROVE Min(S) <= Pow2[k]
  <2>1. CASE k <= n
    <3>1. Pow2[k] \in S
        BY <1>7, <2>1
    <3>2. QED
        BY <1>4, <3>1
  <2>2. CASE n < k
    <3>1. Pow2[n] < Pow2[k] /\ Pow2[n] \in Nat /\ Pow2[k] \in Nat
        BY <2>2, Pow2Grows
    <3>2. Min(S) <= Pow2[n]
        BY <1>1, <1>4
    <3>3. QED
        BY <1>5, <1>6, <3>1, <3>2
  <2>3. QED
      BY <2>1, <2>2
<1>8. QED
    BY <1>3, <1>5, <1>6, <1>7

-----------------------------------------------------------------------------
(* Queues one element at a time.                                           *)

\* Induction over the sequences of members of T, for a set of sequences.
LEMMA SeqSetInduction ==
    ASSUME NEW T, NEW X, << >> \in X,
           \A u \in Seq(T), e \in T : u \in X => Append(u, e) \in X
    PROVE  Seq(T) \subseteq X
<1> DEFINE Y == {n \in Nat : \A u \in Seq(T) : Len(u) = n => u \in X}
<1>1. 0 \in Y
  <2>1. \A u \in Seq(T) : Len(u) = 0 => u = << >>
      OBVIOUS
  <2>2. QED
      BY <2>1
<1>2. ASSUME NEW n \in Nat, n \in Y PROVE n + 1 \in Y
  <2>1. SUFFICES ASSUME NEW u \in Seq(T), Len(u) = n + 1 PROVE u \in X
      OBVIOUS
  <2> DEFINE front == SubSeq(u, 1, n)
  <2>2. front \in Seq(T) /\ Len(front) = n /\ u[n + 1] \in T
      BY <2>1
  <2>3. u = Append(front, u[n + 1])
    <3>1. /\ Append(front, u[n + 1]) \in Seq(T)
          /\ Len(Append(front, u[n + 1])) = n + 1
          /\ \A i \in 1 .. n + 1 : Append(front, u[n + 1])[i] = u[i]
        BY <2>1, <2>2
    <3> HIDE DEF front
    <3>2. QED
        BY <2>1, <3>1, SeqEqual
  <2>4. front \in X
      BY <1>2, <2>2
  <2> HIDE DEF front
  <2>5. QED
      BY <2>2, <2>3, <2>4
<1> HIDE DEF Y
<1>3. Nat \subseteq Y
    BY <1>1, <1>2, NatSetInduction
<1>4. \A u \in Seq(T) : Len(u) \in Y
    BY <1>3
<1>5. QED
    BY <1>4 DEF Y

LEMMA KeepNothing == ASSUME NEW S PROVE Keep(<< >>, S) = << >>
<1>1. << >> \in Seq({}) /\ Len(<< >>) = 0
    OBVIOUS
<1>2. PICK kept : KeepSolved(<< >>, S, 0, kept) /\ Keep(<< >>, S) = kept[0]
    BY <1>1, KeepUnfolds
<1>3. kept = [i \in 0 .. 0 |-> KeepStep(<< >>, S, kept, i)]
    BY <1>2 DEF KeepSolved
<1>4. kept[0] = KeepStep(<< >>, S, kept, 0)
    BY <1>3
<1>5. QED
    BY <1>2, <1>4 DEF KeepStep

\* What the function of KeepSolved does from one index to the next.
KeptRecursion(q, S, n, kept) ==
    /\ kept[0] = << >>
    /\ \A i \in 0 .. n - 1 :
           kept[i + 1] = IF q[i + 1] \in S THEN Append(kept[i], q[i + 1]) ELSE kept[i]

LEMMA KeptRecursive ==
    ASSUME NEW q, NEW S, NEW n \in Nat, NEW kept, KeepSolved(q, S, n, kept)
    PROVE  KeptRecursion(q, S, n, kept)
<1>1. \A i \in 0 .. n : kept[i] = KeepStep(q, S, kept, i)
    BY DEF KeepSolved
<1>2. 0 \in 0 .. n /\ \A i \in 0 .. n - 1 : i + 1 \in 0 .. n
    OBVIOUS
<1>3. kept[0] = << >>
    BY <1>1, <1>2 DEF KeepStep
<1>4. ASSUME NEW i \in 0 .. n - 1
      PROVE  kept[i + 1] = IF q[i + 1] \in S THEN Append(kept[i], q[i + 1]) ELSE kept[i]
  <2>1. i + 1 # 0 /\ (i + 1) - 1 = i
      OBVIOUS
  <2>2. kept[i + 1] = KeepStep(q, S, kept, i + 1)
      BY <1>1, <1>2
  <2>3. QED
      BY <2>1, <2>2 DEF KeepStep
<1>5. QED
    BY <1>3, <1>4, Zenon DEF KeptRecursion

LEMMA KeepAppend ==
    ASSUME NEW T, NEW q \in Seq(T), NEW e \in T, NEW S
    PROVE  Keep(Append(q, e), S) = IF e \in S THEN Append(Keep(q, S), e) ELSE Keep(q, S)
<1> DEFINE r == Append(q, e)
           n == Len(q)
<1>1. /\ r \in Seq(T) /\ Len(r) = n + 1 /\ n \in Nat
      /\ r[n + 1] = e /\ \A i \in 1 .. n : r[i] = q[i]
    OBVIOUS
<1> HIDE DEF r
<1>2. PICK f : KeepSolved(q, S, n, f) /\ Keep(q, S) = f[n]
    BY KeepUnfolds
<1>3. PICK g : KeepSolved(r, S, n + 1, g) /\ Keep(r, S) = g[n + 1]
    BY <1>1, KeepUnfolds
<1> HIDE DEF n
<1>4. /\ f[0] = << >>
      /\ \A i \in 0 .. n - 1 :
             f[i + 1] = IF q[i + 1] \in S THEN Append(f[i], q[i + 1]) ELSE f[i]
  <2>1. KeptRecursion(q, S, n, f)
      BY <1>1, <1>2, KeptRecursive, Zenon
  <2>2. QED
      BY <2>1, Zenon DEF KeptRecursion
<1>5. /\ g[0] = << >>
      /\ \A i \in 0 .. (n + 1) - 1 :
             g[i + 1] = IF r[i + 1] \in S THEN Append(g[i], r[i + 1]) ELSE g[i]
  <2>1. n + 1 \in Nat
      BY <1>1
  <2>2. KeptRecursion(r, S, n + 1, g)
      BY <1>3, <2>1, KeptRecursive, Zenon
  <2>3. QED
      BY <2>2, Zenon DEF KeptRecursion
<1> DEFINE X == {i \in Nat : i <= n => f[i] = g[i]}
<1>6. 0 \in X
    BY <1>4, <1>5
<1>7. ASSUME NEW i \in Nat, i \in X PROVE i + 1 \in X
  <2>1. SUFFICES ASSUME i + 1 <= n PROVE f[i + 1] = g[i + 1]
      OBVIOUS
  <2>2. i \in 0 .. n - 1 /\ i \in 0 .. (n + 1) - 1 /\ i + 1 \in 1 .. n /\ f[i] = g[i]
      BY <1>1, <1>7, <2>1
  <2>3. r[i + 1] = q[i + 1]
      BY <1>1, <2>2
  <2>4. QED
      BY <1>4, <1>5, <2>2, <2>3
<1> HIDE DEF X
<1>8. n \in X
    BY <1>1, <1>6, <1>7, NatSetInduction
<1>9. f[n] = g[n] /\ n \in 0 .. (n + 1) - 1
    BY <1>1, <1>8 DEF X
<1>10. g[n + 1] = IF e \in S THEN Append(g[n], e) ELSE g[n]
    BY <1>1, <1>5, <1>9
<1>11. QED
    BY <1>2, <1>3, <1>9, <1>10 DEF r

\* To put e after a queue is to put it after the queue's second part.
AppendsAtTheEnd(T) ==
    \A a, b \in Seq(T) : \A e \in T : Append(a \o b, e) = a \o Append(b, e)

LEMMA ConcatAppend ==
    ASSUME NEW T
    PROVE  AppendsAtTheEnd(T)
<1> SUFFICES ASSUME NEW a \in Seq(T), NEW b \in Seq(T), NEW e \in T
             PROVE  Append(a \o b, e) = a \o Append(b, e)
    BY DEF AppendsAtTheEnd
<1>1. a \o b \in Seq(T) /\ <<e>> \in Seq(T)
    OBVIOUS
<1>2. Append(a \o b, e) = (a \o b) \o <<e>>
    BY <1>1, AppendIsConcat
<1>3. Append(b, e) = b \o <<e>>
    BY AppendIsConcat
<1>4. ASSUME NEW c \in Seq(T) PROVE (a \o b) \o c = a \o (b \o c)
    BY ConcatAssociative
<1>5. QED
    BY <1>1, <1>2, <1>3, <1>4, Zenon

LEMMA KeepConcat ==
    ASSUME NEW T, NEW u \in Seq(T), NEW v \in Seq(T), NEW S
    PROVE  Keep(u \o v, S) = Keep(u, S) \o Keep(v, S)
<1> DEFINE X == {w \in Seq(T) : Keep(u \o w, S) = Keep(u, S) \o Keep(w, S)}
<1>0. Keep(u, S) \in Seq(T)
    BY KeepProperties
<1>1. << >> \in X
  <2>1. u \o << >> = u /\ << >> \in Seq(T)
      OBVIOUS
  <2>2. Keep(u, S) \o << >> = Keep(u, S)
      BY <1>0, ConcatEmptySeq
  <2>3. QED
      BY <2>1, <2>2, KeepNothing
<1>2. ASSUME NEW w \in Seq(T), NEW e \in T, w \in X PROVE Append(w, e) \in X
  <2>1. /\ u \o w \in Seq(T) /\ Append(w, e) \in Seq(T)
        /\ u \o Append(w, e) = Append(u \o w, e)
      OBVIOUS
  <2>2. Keep(w, S) \in Seq(T)
      BY KeepProperties
  <2>3. /\ Keep(Append(w, e), S) = IF e \in S THEN Append(Keep(w, S), e) ELSE Keep(w, S)
        /\ Keep(Append(u \o w, e), S) =
               IF e \in S THEN Append(Keep(u \o w, S), e) ELSE Keep(u \o w, S)
      BY <2>1, KeepAppend
  <2>4. Keep(u \o w, S) = Keep(u, S) \o Keep(w, S)
      BY <1>2
  <2>5. Append(Keep(u, S) \o Keep(w, S), e) = Keep(u, S) \o Append(Keep(w, S), e)
    <3> HIDE DEF X
    <3>1. AppendsAtTheEnd(T)
        BY ConcatAppend, Zenon
    <3>2. QED
        BY <1>0, <1>2, <2>2, <3>1, Zenon DEF AppendsAtTheEnd
  <2>6. QED
      BY <2>1, <2>3, <2>4, <2>5
<1> HIDE DEF X
<1>3. Seq(T) \subseteq X
    BY <1>1, <1>2, SeqSetInduction
<1>4. QED
    BY <1>3 DEF X

\* What is kept depends on the members of the queue only.
LEMMA KeepSame ==
    ASSUME NEW T, NEW q \in Seq(T), NEW S, NEW R, ToSet(q) \cap S = ToSet(q) \cap R
    PROVE  Keep(q, S) = Keep(q, R)
<1> DEFINE X == {w \in Seq(T) : ToSet(w) \cap S = ToSet(w) \cap R => Keep(w, S) = Keep(w, R)}
<1>1. << >> \in X
    BY KeepNothing
<1>2. ASSUME NEW w \in Seq(T), NEW e \in T, w \in X PROVE Append(w, e) \in X
  <2>1. SUFFICES ASSUME ToSet(Append(w, e)) \cap S = ToSet(Append(w, e)) \cap R
                 PROVE  Keep(Append(w, e), S) = Keep(Append(w, e), R)
      OBVIOUS
  <2>2. ToSet(Append(w, e)) = ToSet(w) \cup {e}
      BY AppendDistinct
  <2>3. ToSet(w) \cap S = ToSet(w) \cap R /\ (e \in S <=> e \in R)
    <3> HIDE DEF X
    <3>1. QED
        BY <2>1, <2>2
  <2>4. Keep(w, S) = Keep(w, R)
      BY <1>2, <2>3
  <2>5. /\ Keep(Append(w, e), S) = IF e \in S THEN Append(Keep(w, S), e) ELSE Keep(w, S)
        /\ Keep(Append(w, e), R) = IF e \in R THEN Append(Keep(w, R), e) ELSE Keep(w, R)
      BY KeepAppend
  <2> HIDE DEF X
  <2>6. QED
      BY <2>3, <2>4, <2>5
<1> HIDE DEF X
<1>3. Seq(T) \subseteq X
    BY <1>1, <1>2, SeqSetInduction
<1>4. QED
    BY <1>3 DEF X

LEMMA KeepNone ==
    ASSUME NEW T, NEW q \in Seq(T), NEW S, ToSet(q) \cap S = {}
    PROVE  Keep(q, S) = << >>
<1>1. Keep(q, S) \in Seq(T) /\ ToSet(Keep(q, S)) = {}
    BY KeepProperties
<1>2. ASSUME NEW k \in Seq(T), ToSet(k) = {} PROVE k = << >>
  <2>1. Len(k) \in Nat /\ (Len(k) # 0 => k[1] \in ToSet(k))
      BY DEF ToSet
  <2>2. QED
      BY <1>2, <2>1
<1>3. QED
    BY <1>1, <1>2

\* Deleting what is not kept anyway.
LEMMA KeepOfDelete ==
    ASSUME NEW T, NEW q \in Seq(T), NEW D, NEW S, D \cap S = {}
    PROVE  Keep(Delete(q, D), S) = Keep(q, S)
<1> DEFINE E == ToSet(q) \ D
           X == {w \in Seq(T) : Keep(Keep(w, E), S) = Keep(w, S \cap E)}
<1>1. << >> \in X
    BY KeepNothing
<1>2. ASSUME NEW w \in Seq(T), NEW e \in T, w \in X PROVE Append(w, e) \in X
  <2> HIDE DEF E
  <2>1. Keep(w, E) \in Seq(T)
      BY KeepProperties
  <2>2. Keep(Append(w, e), E) = IF e \in E THEN Append(Keep(w, E), e) ELSE Keep(w, E)
      BY KeepAppend
  <2>3. Keep(Append(w, e), S \cap E) =
            IF e \in S \cap E THEN Append(Keep(w, S \cap E), e) ELSE Keep(w, S \cap E)
      BY KeepAppend
  <2>4. Keep(Append(Keep(w, E), e), S) =
            IF e \in S THEN Append(Keep(Keep(w, E), S), e) ELSE Keep(Keep(w, E), S)
      BY <2>1, KeepAppend
  <2>5. Append(w, e) \in Seq(T) /\ Keep(Keep(w, E), S) = Keep(w, S \cap E)
      BY <1>2
  <2> HIDE DEF X
  <2>6. Keep(Keep(Append(w, e), E), S) = Keep(Append(w, e), S \cap E)
    <3>1. CASE e \in E
      <4>1. /\ Keep(Append(w, e), E) = Append(Keep(w, E), e)
            /\ e \in S \cap E <=> e \in S
          BY <2>2, <3>1
      <4>2. CASE e \in S
          BY <2>3, <2>4, <2>5, <4>1, <4>2
      <4>3. CASE e \notin S
          BY <2>3, <2>4, <2>5, <4>1, <4>3
      <4>4. QED
          BY <4>2, <4>3
    <3>2. CASE e \notin E
        BY <2>2, <2>3, <2>5, <3>2
    <3>3. QED
        BY <3>1, <3>2
  <2>7. QED
      BY <2>5, <2>6 DEF X
<1>3. Seq(T) \subseteq X
  <2> HIDE DEF X
  <2>1. QED
      BY <1>1, <1>2, SeqSetInduction
<1>4. Keep(Keep(q, E), S) = Keep(q, S \cap E)
    BY <1>3
<1>5. ToSet(q) \cap S = ToSet(q) \cap (S \cap E)
    OBVIOUS
<1> HIDE DEF E, X
<1>6. Keep(q, S) = Keep(q, S \cap E)
    BY <1>5, KeepSame
<1>7. QED
    BY <1>4, <1>6 DEF Delete, E
=============================================================================
