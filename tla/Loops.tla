-------------------------------- MODULE Loops --------------------------------
(***************************************************************************)
(* Induction and loops for proofs: what the modules write as a fold over a *)
(* list or as a recursive function is a choice among functions, so it has  *)
(* to be shown that there is one before anything can be said of it.        *)
(* All of that follows from the order of the naturals.  At the end, a      *)
(* slice of a slice.                                                       *)
(***************************************************************************)
EXTENDS Integers, Sequences, SequencesExt, FiniteSets, FiniteSetTheorems, SequenceTheorems,
        WellFoundedInduction, TLAPS

(* A set of naturals has a least one.                                      *)
LEMMA LeastNumber ==
  ASSUME NEW S \in SUBSET Nat, S # {}
  PROVE  \E n \in S : \A m \in S : n <= m
<1>1. IsWellFoundedOn(OpToRel(<, Nat), Nat)
  BY NatLessThanWellFounded, Zenon
<1>2. PICK n \in S : \A m \in S : ~ (<<m, n>> \in OpToRel(<, Nat))
  BY <1>1, WFMin
<1>3. \A m \in S : ~ (m < n)
  BY <1>2 DEF OpToRel
<1>. QED  BY <1>3

(* A set of naturals with zero and all successors has them all.            *)
THEOREM Induction ==
  ASSUME NEW S \in SUBSET Nat, 0 \in S, \A n \in S : n + 1 \in S
  PROVE  S = Nat
<1>. SUFFICES ASSUME Nat \ S # {} PROVE FALSE
  OBVIOUS
<1>1. PICK n \in Nat \ S : \A m \in Nat \ S : n <= m
  BY LeastNumber
<1>2. n # 0 /\ n - 1 \in Nat /\ ~ (n <= n - 1)
  OBVIOUS
<1>3. n - 1 \in S
  BY <1>1, <1>2
<1>. QED  BY <1>1, <1>2, <1>3

(* The maximum of a set of positions is one of them, and none is greater.  *)
LEMMA MaxProperties ==
  ASSUME NEW n \in Nat, NEW S \in SUBSET (1..n), S # {}
  PROVE  Max(S) \in S /\ \A x \in S : Max(S) >= x
<1>. DEFINE D == {m \in Nat : \E x \in S : m = n - x}
<1>1. D \in SUBSET Nat /\ \A x \in S : n - x \in D
  BY \A x \in S : x \in 1..n
<1>2. \A m \in D : \E x \in S : m = n - x
  OBVIOUS
<1>. HIDE DEF D
<1>3. PICK d \in D : \A e \in D : d <= e
  BY <1>1, LeastNumber
<1>4. PICK x \in S : d = n - x
  BY <1>2, <1>3
<1>5. ASSUME NEW y \in S PROVE x >= y
  <2>1. n - x <= n - y
    BY <1>1, <1>3, <1>4
  <2>2. x \in 1..n /\ y \in 1..n
    OBVIOUS
  <2>. QED  BY <2>1, <2>2
<1>. QED  BY <1>5 DEF Max

(* The maximum of the first k positions, and what is left without it.      *)
LEMMA MaxOfPrefix ==
  ASSUME NEW k \in Nat \ {0}
  PROVE  Max(1..k) = k /\ (1..k) \ {k} = 1..(k - 1)
<1>1. Max(1..k) \in 1..k /\ \A x \in 1..k : Max(1..k) >= x
  BY MaxProperties, (1..k) # {}
<1>. QED  BY <1>1

(* g gives for every set of the first n positions what folding them gives. *)
Folds(g, n, base, step) ==
  g = [s \in SUBSET (1..n) |->
         IF s = {} THEN base ELSE step[<<Max(s), g[s \ {Max(s)}]>>]]

(* There is such a g, of values in V, if no step leaves V.                 *)
LEMMA FoldExists ==
  ASSUME NEW n \in Nat, NEW V, NEW base \in V,
         NEW step \in [(1..n) \X V -> V]
  PROVE  \E g \in [SUBSET (1..n) -> V] : Folds(g, n, base, step)
<1>. DEFINE Good(k) == \E g \in [SUBSET (1..k) -> V] : Folds(g, k, base, step)
            S == {k \in Nat : k <= n => Good(k)}
<1>1. 0 \in S
  <2>. DEFINE g == [s \in SUBSET (1..0) |-> base]
  <2>1. SUBSET (1..0) = {{}}
    OBVIOUS
  <2>2. g \in [SUBSET (1..0) -> V] /\ Folds(g, 0, base, step)
    BY <2>1 DEF Folds
  <2>. QED  BY <2>2
<1>2. ASSUME NEW k \in S PROVE k + 1 \in S
  <2>. SUFFICES ASSUME k + 1 <= n
                PROVE  Good(k + 1)
    <3>. HIDE DEF Good
    <3>. QED  OBVIOUS
  <2>1. k \in Nat /\ Good(k)
    <3>. HIDE DEF Good
    <3>. QED  OBVIOUS
  <2>0. PICK g \in [SUBSET (1..k) -> V] : Folds(g, k, base, step)
    BY <2>1
  <2>. DEFINE h == [s \in SUBSET (1..(k + 1)) |->
                      IF k + 1 \in s THEN step[<<k + 1, g[s \ {k + 1}]>>] ELSE g[s]]
  <2>2. ASSUME NEW s \in SUBSET (1..(k + 1)), k + 1 \in s
        PROVE  /\ s \ {k + 1} \in SUBSET (1..k) /\ Max(s) = k + 1
               /\ h[s] = step[<<Max(s), h[s \ {Max(s)}]>>]
               /\ h[s] \in V
    <3>1. s \ {k + 1} \in SUBSET (1..k)
      OBVIOUS
    <3>2. Max(s) = k + 1
      <4>1. Max(s) \in s /\ \A x \in s : Max(s) >= x
        <5>1. k + 1 \in Nat /\ s # {}
          BY <2>1, <2>2
        <5>. HIDE DEF S
        <5>. QED  BY <5>1, MaxProperties
      <4>2. Max(s) \in 1..(k + 1) /\ Max(s) >= k + 1
        BY <2>2, <4>1
      <4>. QED  BY <2>1, <4>2
    <3>3. h[s] = step[<<k + 1, g[s \ {k + 1}]>>]
      BY <2>2
    <3>4. h[s \ {k + 1}] = g[s \ {k + 1}]
      OBVIOUS
    <3>5. g[s \ {k + 1}] \in V
      BY <3>1
    <3>6. <<k + 1, g[s \ {k + 1}]>> \in (1..n) \X V
      BY <3>5
    <3>. HIDE DEF h
    <3>. QED  BY <3>1, <3>2, <3>3, <3>4, <3>6
  <2>3. ASSUME NEW s \in SUBSET (1..(k + 1)), k + 1 \notin s
        PROVE  /\ s \in SUBSET (1..k)
               /\ h[s] = IF s = {} THEN base ELSE step[<<Max(s), h[s \ {Max(s)}]>>]
               /\ h[s] \in V
    <3>1. s \in SUBSET (1..k)
      BY <2>3
    <3>2. h[s] = g[s] /\ g[s] \in V
      BY <2>3, <3>1
    <3>3. g[s] = IF s = {} THEN base ELSE step[<<Max(s), g[s \ {Max(s)}]>>]
      BY <2>0, <3>1 DEF Folds
    <3>4. h[s \ {Max(s)}] = g[s \ {Max(s)}]
      BY <2>3, <3>1
    <3>. QED  BY <3>1, <3>2, <3>3, <3>4
  <2>4. h \in [SUBSET (1..(k + 1)) -> V]
    BY <2>2, <2>3
  <2>5. Folds(h, k + 1, base, step)
    <3>1. \A s \in SUBSET (1..(k + 1)) :
            h[s] = IF s = {} THEN base ELSE step[<<Max(s), h[s \ {Max(s)}]>>]
      BY <2>2, <2>3
    <3>2. h = [s \in SUBSET (1..(k + 1)) |-> h[s]]
      OBVIOUS
    <3>. HIDE DEF h
    <3>. QED  BY <3>1, <3>2 DEF Folds
  <2>. QED  BY <2>4, <2>5
<1>3. S = Nat
  <2>. HIDE DEF S
  <2>1. S \in SUBSET Nat
    BY DEF S
  <2>. QED  BY <1>1, <1>2, <2>1, Induction
<1>4. Good(n)
  <2>. HIDE DEF Good
  <2>. QED  BY <1>3
<1>. QED  BY <1>4

(* Two functions that begin alike and go on alike agree: h on the first k  *)
(* positions, and t on k.                                                  *)
LEMMA SameToTheEnd ==
  ASSUME NEW n \in Nat, NEW h, NEW t, h[1..0] = t[0],
         \A k \in 1..n : h[1..(k - 1)] = t[k - 1] => h[1..k] = t[k]
  PROVE  h[1..n] = t[n]
<1>. DEFINE S == {k \in Nat : k <= n => h[1..k] = t[k]}
<1>1. 0 \in S
  OBVIOUS
<1>2. ASSUME NEW k \in S PROVE k + 1 \in S
  <2>. SUFFICES ASSUME k + 1 <= n PROVE h[1..(k + 1)] = t[k + 1]
    OBVIOUS
  <2>1. k \in Nat /\ h[1..k] = t[k]
    OBVIOUS
  <2>2. k + 1 \in 1..n /\ (k + 1) - 1 = k
    BY <2>1
  <2>. QED  BY <2>1, <2>2
<1>3. S = Nat
  <2>1. S \in SUBSET Nat
    OBVIOUS
  <2>. HIDE DEF S
  <2>. QED  BY <1>1, <1>2, <2>1, Induction
<1>. QED  BY <1>3

(* What is left of a sequence after its first k entries.                   *)
LEMMA RestOfSequence ==
  ASSUME NEW S, NEW s \in Seq(S), NEW k \in 0..Len(s),
         NEW rest, rest = SubSeq(s, k + 1, Len(s))
  PROVE  /\ rest = <<>> => k = Len(s)
         /\ rest # <<>> => /\ k + 1 \in 1..Len(s) /\ Head(rest) = s[k + 1]
                           /\ Tail(rest) = SubSeq(s, (k + 1) + 1, Len(s))
<1>1. k + 1 \in 1..(Len(s) + 1) /\ Len(s) \in Nat
  OBVIOUS
<1>2. /\ rest \in Seq(S) /\ Len(rest) = Len(s) - k
      /\ \A i \in 1..(Len(s) - k) : rest[i] = s[k + i]
  <2>1. CASE k = Len(s)
    BY <1>1, <2>1
  <2>2. CASE k + 1 <= Len(s)
    BY <1>1, <2>2
  <2>. QED  BY <1>1, <2>1, <2>2
<1>3. ASSUME rest # <<>> PROVE k + 1 \in 1..Len(s)
  BY <1>1, <1>2, <1>3
<1>4. ASSUME rest # <<>> PROVE Tail(rest) = SubSeq(s, (k + 1) + 1, Len(s))
  <2>. DEFINE more == SubSeq(s, (k + 1) + 1, Len(s))
  <2>1. k + 1 \in 1..Len(s)
    BY <1>3, <1>4
  <2>2. /\ more \in Seq(S) /\ Len(more) = Len(s) - (k + 1)
        /\ \A i \in 1..(Len(s) - (k + 1)) : more[i] = s[(k + 1) + i]
    <3>1. CASE k + 1 = Len(s)
      BY <1>1, <3>1
    <3>2. CASE (k + 1) + 1 <= Len(s)
      BY <1>1, <3>2
    <3>. QED  BY <1>1, <2>1, <3>1, <3>2
  <2>3. /\ Tail(rest) \in Seq(S) /\ Len(Tail(rest)) = Len(rest) - 1
        /\ \A i \in 1..(Len(rest) - 1) : Tail(rest)[i] = rest[i + 1]
    BY <1>2, <1>4, HeadTailProperties
  <2>. HIDE DEF more
  <2>4. \A i \in 1..Len(more) : Tail(rest)[i] = more[i]
    BY <1>1, <1>2, <2>1, <2>2, <2>3
  <2>5. Len(Tail(rest)) = Len(more)
    BY <1>1, <1>2, <2>2, <2>3
  <2>6. Tail(rest) = more
    BY <2>2, <2>3, <2>4, <2>5, SeqEqual
  <2>. QED  BY <2>6 DEF more
<1>5. ASSUME rest # <<>> PROVE Head(rest) = s[k + 1]
  BY <1>1, <1>2, <1>3, <1>5
<1>6. ASSUME rest = <<>> PROVE k = Len(s)
  <2>1. \A empty \in Seq(S) : empty = <<>> => Len(empty) = 0
    OBVIOUS
  <2>2. Len(rest) = 0
    BY <1>2, <1>6, <2>1
  <2>. QED  BY <1>1, <1>2, <2>2
<1>. QED  BY <1>3, <1>4, <1>5, <1>6

-----------------------------------------------------------------------------
(* A step that is taken until some set is reached: the values r goes        *)
(* through from s to its end e.                                            *)
ComesTo(s, e, S, Done, step) ==
  \E n \in Nat : \E r \in [0..n -> S] :
    /\ r[0] = s /\ r[n] = e /\ e \in Done
    /\ \A i \in 0..(n - 1) : r[i] \notin Done /\ r[i + 1] = step[r[i]]

(* f is defined as what it is of the next value, until a value is reached  *)
(* where the loop ends.                                                    *)
Loop(f, S, Done, step, out) == f = [s \in S |-> IF s \in Done THEN out[s] ELSE f[step[s]]]

(* There is such a function, whether the loop ends or not.                 *)
LEMMA LoopExists ==
  ASSUME NEW S, NEW Done \in SUBSET S, NEW step \in [S -> S], NEW out
  PROVE  \E f : Loop(f, S, Done, step, out)
<1>. DEFINE End(s) == CHOOSE e : ComesTo(s, e, S, Done, step)
            f == [s \in S |-> out[End(s)]]
<1>1. ASSUME NEW s \in Done PROVE End(s) = s
  <2>1. ComesTo(s, s, S, Done, step)
    <3>1. PICK r : r = [i \in 0..0 |-> s]
      OBVIOUS
    <3>2. r \in [0..0 -> S] /\ r[0] = s
      BY <3>1
    <3>3. 0..(0 - 1) = {}
      OBVIOUS
    <3>. QED  BY <3>2, <3>3 DEF ComesTo
  <2>2. ASSUME NEW e, ComesTo(s, e, S, Done, step) PROVE e = s
    <3>1. PICK n \in Nat : \E r \in [0..n -> S] :
            /\ r[0] = s /\ r[n] = e /\ e \in Done
            /\ \A i \in 0..(n - 1) : r[i] \notin Done /\ r[i + 1] = step[r[i]]
      BY <2>2 DEF ComesTo
    <3>2. PICK r \in [0..n -> S] :
            /\ r[0] = s /\ r[n] = e /\ e \in Done
            /\ \A i \in 0..(n - 1) : r[i] \notin Done /\ r[i + 1] = step[r[i]]
      BY <3>1
    <3>3. CASE n = 0
      BY <3>2, <3>3
    <3>4. CASE n # 0
      <4>1. 0 \in 0..(n - 1)
        BY <3>4
      <4>. QED  BY <3>2, <4>1
    <3>. QED  BY <3>3, <3>4
  <2>. QED  BY <2>1, <2>2
<1>2. ASSUME NEW s \in S \ Done, NEW e
      PROVE  ComesTo(s, e, S, Done, step) <=> ComesTo(step[s], e, S, Done, step)
  <2>1. ASSUME ComesTo(s, e, S, Done, step) PROVE ComesTo(step[s], e, S, Done, step)
    <3>1. PICK n \in Nat : \E r \in [0..n -> S] :
            /\ r[0] = s /\ r[n] = e /\ e \in Done
            /\ \A i \in 0..(n - 1) : r[i] \notin Done /\ r[i + 1] = step[r[i]]
      BY <2>1 DEF ComesTo
    <3>2. PICK r \in [0..n -> S] :
            /\ r[0] = s /\ r[n] = e /\ e \in Done
            /\ \A i \in 0..(n - 1) : r[i] \notin Done /\ r[i + 1] = step[r[i]]
      BY <3>1
    <3>3. n # 0
      BY <3>2
    <3>4. PICK m \in Nat : n = m + 1
      <4>1. n - 1 \in Nat /\ n = (n - 1) + 1
        BY <3>3
      <4>. QED  BY <4>1
    <3>5. PICK q : q = [i \in 0..m |-> r[i + 1]]
      OBVIOUS
    <3>6. \A i \in 0..m : i + 1 \in 0..n /\ q[i] = r[i + 1]
      BY <3>4, <3>5
    <3>7. q \in [0..m -> S] /\ q[0] = r[1] /\ q[m] = e
      BY <3>2, <3>4, <3>5, <3>6
    <3>8. r[1] = step[s]
      <4>1. 0 \in 0..(n - 1)
        BY <3>4
      <4>. QED  BY <3>2, <4>1
    <3>9. ASSUME NEW i \in 0..(m - 1) PROVE q[i] \notin Done /\ q[i + 1] = step[q[i]]
      <4>1. i \in 0..m /\ i + 1 \in 0..m /\ i + 1 \in 0..(n - 1)
        BY <3>4
      <4>. QED  BY <3>2, <3>6, <4>1
    <3>. QED  BY <3>2, <3>7, <3>8, <3>9 DEF ComesTo
  <2>2. ASSUME ComesTo(step[s], e, S, Done, step) PROVE ComesTo(s, e, S, Done, step)
    <3>1. PICK n \in Nat : \E r \in [0..n -> S] :
            /\ r[0] = step[s] /\ r[n] = e /\ e \in Done
            /\ \A i \in 0..(n - 1) : r[i] \notin Done /\ r[i + 1] = step[r[i]]
      BY <2>2 DEF ComesTo
    <3>2. PICK r \in [0..n -> S] :
            /\ r[0] = step[s] /\ r[n] = e /\ e \in Done
            /\ \A i \in 0..(n - 1) : r[i] \notin Done /\ r[i + 1] = step[r[i]]
      BY <3>1
    <3>3. PICK q : q = [i \in 0..(n + 1) |-> IF i = 0 THEN s ELSE r[i - 1]]
      OBVIOUS
    <3>4. /\ q[0] = s /\ \A i \in 1..(n + 1) : q[i] = r[i - 1] /\ i - 1 \in 0..n
      BY <3>3
    <3>5. q \in [0..(n + 1) -> S] /\ q[n + 1] = e
      BY <3>2, <3>3, <3>4
    <3>6. ASSUME NEW i \in 0..((n + 1) - 1) PROVE q[i] \notin Done /\ q[i + 1] = step[q[i]]
      <4>1. CASE i = 0
        <5>1. q[1] = r[0]
          BY <3>4
        <5>. QED  BY <3>2, <3>4, <4>1, <5>1
      <4>2. CASE i # 0
        <5>1. PICK j \in 0..(n - 1) : i = j + 1
          <6>1. i - 1 \in 0..(n - 1) /\ i = (i - 1) + 1
            BY <4>2
          <6>. QED  BY <6>1
        <5>2. i \in 1..(n + 1) /\ i + 1 \in 1..(n + 1) /\ i - 1 = j /\ (i + 1) - 1 = j + 1
          BY <5>1
        <5>3. q[i] = r[j] /\ q[i + 1] = r[j + 1]
          BY <3>4, <5>2
        <5>. QED  BY <3>2, <5>1, <5>3
      <4>. QED  BY <4>1, <4>2
    <3>7. n + 1 \in Nat
      OBVIOUS
    <3>. QED  BY <3>2, <3>4, <3>5, <3>6, <3>7 DEF ComesTo
  <2>. QED  BY <2>1, <2>2
<1>3. ASSUME NEW s \in S \ Done PROVE End(s) = End(step[s])
  BY <1>2
<1>. HIDE DEF End
<1>4. Loop(f, S, Done, step, out)
  BY <1>1, <1>3 DEF Loop
<1>. QED  BY <1>4

(* P holds of a value if it holds of all smaller ones.                     *)
GoesDown(S, P, size) ==
  \A s \in S : (\A t \in S : size[t] < size[s] => t \in P) => s \in P

(* Then it holds of all.                                                   *)
LEMMA SizeInduction ==
  ASSUME NEW S, NEW P \in SUBSET S, NEW size \in [S -> Nat], GoesDown(S, P, size)
  PROVE  P = S
<1>. SUFFICES ASSUME S \ P # {} PROVE FALSE
  OBVIOUS
<1>. DEFINE sizes == {size[s] : s \in S \ P}
<1>1. sizes \in SUBSET Nat /\ sizes # {}
  OBVIOUS
<1>2. PICK n \in sizes : \A m \in sizes : n <= m
  <2>. HIDE DEF sizes
  <2>. QED  BY <1>1, LeastNumber
<1>3. PICK s \in S \ P : n = size[s]
  BY <1>2
<1>4. \A t \in S : size[t] < size[s] => t \in P
  BY <1>2, <1>3
<1>. QED  BY <1>3, <1>4 DEF GoesDown

(* Each number is given a value from that of the number before it.         *)
Iteration(f, base, step) == f = [n \in Nat |-> IF n = 0 THEN base ELSE step[f[n - 1]]]

(* There are such values.                                                  *)
LEMMA IterationExists ==
  ASSUME NEW V, NEW base \in V, NEW step \in [V -> V]
  PROVE  \E f \in [Nat -> V] : Iteration(f, base, step)
<1>. DEFINE Is(n, r) == /\ r \in [0..n -> V] /\ r[0] = base
                        /\ \A i \in 1..n : r[i] = step[r[i - 1]]
            Ends(n, v) == \E r : Is(n, r) /\ v = r[n]
            S == {n \in Nat : \E v \in V : \A w : Ends(n, w) <=> w = v}
<1>1. 0 \in S
  <2>1. Ends(0, base)
    <3>1. PICK r : r = [i \in 0..0 |-> base]
      OBVIOUS
    <3>2. Is(0, r) /\ r[0] = base
      BY <3>1
    <3>. QED  BY <3>2
  <2>2. \A w : Ends(0, w) => w = base
    OBVIOUS
  <2>. HIDE DEF Ends
  <2>. QED  BY <2>1, <2>2
<1>2. ASSUME NEW n \in Nat, NEW v \in V, \A w : Ends(n, w) <=> w = v
      PROVE  \A w : Ends(n + 1, w) <=> w = step[v]
  <2>1. Ends(n + 1, step[v])
    <3>1. Ends(n, v)
      BY <1>2
    <3>2. PICK r : Is(n, r) /\ v = r[n]
      BY <3>1
    <3>3. PICK q : q = [i \in 0..(n + 1) |-> IF i = n + 1 THEN step[v] ELSE r[i]]
      OBVIOUS
    <3>4. /\ q[n + 1] = step[v] /\ \A i \in 0..n : q[i] = r[i]
          /\ q \in [0..(n + 1) -> V]
      BY <3>2, <3>3
    <3>5. ASSUME NEW i \in 1..(n + 1) PROVE q[i] = step[q[i - 1]]
      <4>1. CASE i = n + 1
        BY <3>2, <3>4, <4>1
      <4>2. CASE i # n + 1
        <5>1. i \in 1..n /\ i \in 0..n /\ i - 1 \in 0..n
          BY <4>2
        <5>. QED  BY <3>2, <3>4, <5>1
      <4>. QED  BY <4>1, <4>2
    <3>6. Is(n + 1, q)
      BY <3>2, <3>4, <3>5
    <3>. HIDE DEF Is
    <3>. QED  BY <3>4, <3>6
  <2>2. ASSUME NEW w, Ends(n + 1, w) PROVE w = step[v]
    <3>1. PICK r : Is(n + 1, r) /\ w = r[n + 1]
      BY <2>2
    <3>2. PICK q : q = [i \in 0..n |-> r[i]]
      OBVIOUS
    <3>3. Is(n, q) /\ q[n] = r[n]
      <4>1. q \in [0..n -> V] /\ q[0] = base /\ q[n] = r[n]
        BY <3>1, <3>2
      <4>2. ASSUME NEW i \in 1..n PROVE q[i] = step[q[i - 1]]
        <5>1. i \in 1..(n + 1) /\ i \in 0..n /\ i - 1 \in 0..n
          OBVIOUS
        <5>. QED  BY <3>1, <3>2, <5>1
      <4>. QED  BY <4>1, <4>2
    <3>4. Ends(n, q[n])
      <4>. HIDE DEF Is
      <4>. QED  BY <3>3
    <3>5. r[n] = v
      <4>. HIDE DEF Ends, Is
      <4>. QED  BY <1>2, <3>3, <3>4
    <3>6. r[n + 1] = step[r[n]]
      <4>1. n + 1 \in 1..(n + 1) /\ (n + 1) - 1 = n
        OBVIOUS
      <4>. QED  BY <3>1, <4>1
    <3>. QED  BY <3>1, <3>5, <3>6
  <2>. HIDE DEF Ends
  <2>. QED  BY <2>1, <2>2
<1>3. S = Nat
  <2>1. ASSUME NEW n \in S PROVE n + 1 \in S
    <3>. HIDE DEF Ends
    <3>1. PICK v \in V : \A w : Ends(n, w) <=> w = v
      OBVIOUS
    <3>2. n \in Nat /\ step[v] \in V
      OBVIOUS
    <3>3. \A w : Ends(n + 1, w) <=> w = step[v]
      BY <1>2, <3>1, <3>2
    <3>. QED  BY <3>2, <3>3
  <2>2. S \in SUBSET Nat
    OBVIOUS
  <2>. HIDE DEF S
  <2>. QED  BY <1>1, <2>1, <2>2, Induction
<1>4. PICK f : f = [n \in Nat |-> CHOOSE v : Ends(n, v)]
  OBVIOUS
<1>5. ASSUME NEW n \in Nat PROVE f[n] \in V /\ \A w : Ends(n, w) <=> w = f[n]
  <2>. HIDE DEF Ends
  <2>1. PICK v \in V : \A w : Ends(n, w) <=> w = v
    BY <1>3
  <2>. QED  BY <1>4, <2>1
<1>6. ASSUME NEW n \in Nat PROVE f[n] = IF n = 0 THEN base ELSE step[f[n - 1]]
  <2>1. CASE n = 0
    <3>1. Ends(0, base)
      <4>1. PICK r : r = [i \in 0..0 |-> base]
        OBVIOUS
      <4>2. Is(0, r) /\ r[0] = base
        BY <4>1
      <4>. QED  BY <4>2
    <3>. HIDE DEF Ends
    <3>. QED  BY <1>5, <2>1, <3>1
  <2>2. CASE n # 0
    <3>1. PICK m \in Nat : n = m + 1
      <4>1. n - 1 \in Nat /\ n = (n - 1) + 1
        BY <2>2
      <4>. QED  BY <4>1
    <3>. HIDE DEF Ends
    <3>2. \A w : Ends(m + 1, w) <=> w = step[f[m]]
      BY <1>2, <1>5
    <3>3. f[m + 1] = step[f[m]]
      BY <1>5, <3>2
    <3>. QED  BY <2>2, <3>1, <3>3
  <2>. QED  BY <2>1, <2>2
<1>. HIDE DEF Ends
<1>7. f \in [Nat -> V]
  BY <1>4, <1>5
<1>8. Iteration(f, base, step)
  BY <1>6, <1>7 DEF Iteration
<1>. QED  BY <1>7, <1>8

(* What follows the first `offset` of n elements, and the first `limit` of *)
(* that.                                                                   *)
LEMMA TwoSlices ==
  ASSUME NEW S, NEW n \in Nat, NEW order \in [1..n -> S], NEW offset \in Nat, NEW left \in Nat,
         left = IF n > offset THEN n - offset ELSE 0
  PROVE  /\ SubSeq(order, offset + 1, Len(order)) = [i \in 1..left |-> order[offset + i]]
         /\ \A limit \in 0..left :
              SubSeq([i \in 1..left |-> order[offset + i]], 1, limit)
                = [i \in 1..limit |-> order[offset + i]]
<1>1. order \in Seq(S) /\ Len(order) = n
  OBVIOUS
<1>2. \A i \in 1..left : offset + i \in 1..n
  OBVIOUS
<1>3. SubSeq(order, offset + 1, n) = [i \in 1..left |-> order[offset + i]]
  BY <1>1, <1>2, SubSeqProperties
<1>4. PICK rest : rest = [i \in 1..left |-> order[offset + i]]
  OBVIOUS
<1>5. rest \in Seq(S) /\ Len(rest) = left
  BY <1>2, <1>4
<1>6. ASSUME NEW limit \in 0..left
      PROVE  SubSeq(rest, 1, limit) = [i \in 1..limit |-> order[offset + i]]
  BY <1>4, <1>5, SubSeqProperties
<1>. QED  BY <1>1, <1>3, <1>4, <1>6
=============================================================================
