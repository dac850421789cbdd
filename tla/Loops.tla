--------------------------------- MODULE Loops -------------------------------
(***************************************************************************)
(* Loops over a sequence and searches for a free name, for any body, any   *)
(* invariant and any test.  Both are recursive functions, which exist and  *)
(* are what they seem by induction on the turns.  A module that proves     *)
(* something of a loop takes an instance of this one; what body, invariant *)
(* and test depend on is handed through as p, q, r and t.                  *)
(***************************************************************************)
EXTENDS Integers, Folds, WellFoundedInduction, TLAPS

CONSTANTS Body(_, _, _, _, _, _),   \* what a turn makes of the result so far and an element
          Inv(_, _, _, _, _, _),    \* what holds after so many turns of the result
          Free(_, _, _, _),         \* which names a search takes
          Counted(_, _)             \* the name with a count

-----------------------------------------------------------------------------
(* Induction. *)

\* A set of naturals that is not empty has a least element.
LEMMA LeastNatural ==
  ASSUME NEW T \in SUBSET Nat, T # {}
  PROVE  \E n \in T : \A m \in T : n <= m
<1>1. PICK n \in T : \A m \in T : ~(<<m, n>> \in OpToRel(<, Nat))
  BY NatLessThanWellFounded, WFMin
<1>2. \A m \in T : ~(m < n)
  BY <1>1 DEF OpToRel
<1>3. QED BY <1>2

\* What holds of 0 and is kept from each number to the next holds of all of them.
LEMMA UpTo ==
  ASSUME NEW S, 0 \in S, \A k \in Nat : k \in S => k + 1 \in S
  PROVE  Nat \subseteq S
<1>1. SUFFICES ASSUME Nat \ S # {} PROVE FALSE
  OBVIOUS
<1>2. PICK n \in Nat \ S : \A m \in Nat \ S : n <= m
  BY <1>1, LeastNatural
<1>3. n # 0 /\ n - 1 \in Nat /\ n - 1 \in S
  BY <1>2
<1>4. QED BY <1>2, <1>3

-----------------------------------------------------------------------------
(* A fold over a sequence is a function of the sets of indices that it     *)
(* calls itself on, of which those that start at 1 are of interest.        *)

\* The largest of some numbers and the fold from the left, as FiniteSetsExt and SequencesExt define
\* them: an instance of this module has a copy of every operator of the modules that it extends.
Max(S) == CHOOSE x \in S : \A y \in S : x >= y
FoldLeft(op(_, _), base, seq) ==
    MapThenFoldSet(LAMBDA x, a : op(a, x), base, LAMBDA i : seq[i], LAMBDA S : Max(S), DOMAIN seq)
Loop(base, seq, p, q, r, t) == FoldLeft(LAMBDA a, x : Body(a, x, p, q, r, t), base, seq)

\* The largest of some of the numbers up to k + 1, and what is left without it.
LEMMA MaxOf ==
  ASSUME NEW k \in Nat, NEW s \in SUBSET (1 .. k + 1)
  PROVE  /\ k + 1 \in s => /\ Max(s) = k + 1 /\ s \ {Max(s)} = s \ {k + 1} /\ s # {}
                           /\ s \ {k + 1} \in SUBSET (1 .. k) /\ s \ {k + 1} \in SUBSET (1 .. k + 1)
         /\ k + 1 \notin s => /\ s \in SUBSET (1 .. k) /\ s \ {Max(s)} \in SUBSET (1 .. k)
                              /\ s \ {Max(s)} \in SUBSET (1 .. k + 1) /\ k + 1 \notin s \ {Max(s)}
<1>1. CASE k + 1 \in s
  <2>1. \A y \in s : k + 1 >= y
    OBVIOUS
  <2>2. \A x \in s : (\A y \in s : x >= y) => x = k + 1
    BY <1>1
  <2>3. Max(s) = k + 1
    BY <1>1, <2>1, <2>2 DEF Max
  <2>4. QED BY <1>1, <2>3
<1>2. CASE k + 1 \notin s
  <2>1. \A x \in s : x \in 1 .. k + 1 /\ x # k + 1
    BY <1>2
  <2>2. s \in SUBSET (1 .. k)
    BY <2>1
  <2>3. QED BY <1>2, <2>2
<1>3. QED BY <1>1, <1>2

\* The value at the indices up to k + 1 is made of that at those up to k.
LEMMA PrefixFacts ==
  ASSUME NEW n \in Nat, NEW k \in 0 .. n - 1
  PROVE  /\ 1 .. k + 1 \in SUBSET (1 .. n) /\ 1 .. k + 1 # {}
         /\ Max(1 .. k + 1) = k + 1 /\ (1 .. k + 1) \ {Max(1 .. k + 1)} = 1 .. k
<1> DEFINE s == 1 .. k + 1
<1>1. k \in Nat /\ k + 1 \in s /\ s \ {k + 1} = 1 .. k /\ s \in SUBSET (1 .. n) /\ s \in SUBSET (1 .. k + 1)
  OBVIOUS
<1> HIDE DEF s
<1>2. s # {} /\ Max(s) = k + 1
  BY <1>1, MaxOf
<1>3. s \in SUBSET (1 .. n) /\ s # {} /\ Max(s) = k + 1 /\ s \ {Max(s)} = 1 .. k
  BY <1>1, <1>2
<1>4. QED BY <1>3, Zenon DEF s

\* What a loop has made after each of its turns.
IsRun(c, base, seq, n, p, q, r, t) ==
  /\ c[{}] = base
  /\ \A k \in 0 .. n - 1 : c[1 .. k + 1] = Body(c[1 .. k], seq[k + 1], p, q, r, t)
  /\ Loop(base, seq, p, q, r, t) = c[1 .. n]

\* Every loop has a run.
LEMMA Turns ==
  ASSUME NEW base, NEW seq, NEW p, NEW q, NEW r, NEW t, NEW n \in Nat, DOMAIN seq = 1 .. n
  PROVE  \E c : IsRun(c, base, seq, n, p, q, r, t)
<1> DEFINE Eq(k, g) == g = [s \in SUBSET (1 .. k) |->
                               IF s = {} THEN base ELSE Body(g[s \ {Max(s)}], seq[Max(s)], p, q, r, t)]
           S == {k \in Nat : \E g : Eq(k, g)}
           c == CHOOSE g : Eq(n, g)
<1>1. ASSUME NEW k \in Nat, NEW g, Eq(k, g) PROVE \E h : Eq(k + 1, h)
  <2> DEFINE h == [s \in SUBSET (1 .. k + 1) |->
                     IF s = {} THEN base
                     ELSE IF k + 1 \in s THEN Body(g[s \ {k + 1}], seq[k + 1], p, q, r, t) ELSE g[s]]
  <2>1. Eq(k + 1, h)
    BY <1>1, MaxOf
  <2> QED BY <2>1
<1>2. Eq(0, [s \in SUBSET (1 .. 0) |-> base])
  OBVIOUS
<1>3. Loop(base, seq, p, q, r, t) = c[1 .. n]
  BY DEF Loop, FoldLeft, MapThenFoldSet
<1>4. Eq(n, c)
  <2> HIDE DEF Eq
  <2>1. 0 \in S /\ \A k \in Nat : k \in S => k + 1 \in S
    BY <1>1, <1>2
  <2>2. n \in S
    <3> HIDE DEF S
    <3> QED BY <2>1, UpTo
  <2> QED BY <2>2
<1> HIDE DEF c
<1>5. c[{}] = base
  BY <1>4
<1>6. ASSUME NEW k \in 0 .. n - 1 PROVE c[1 .. k + 1] = Body(c[1 .. k], seq[k + 1], p, q, r, t)
  <2>1. \A s \in SUBSET (1 .. n) : s # {} => c[s] = Body(c[s \ {Max(s)}], seq[Max(s)], p, q, r, t)
    BY <1>4
  <2> QED BY <2>1, PrefixFacts
<1> QED BY <1>3, <1>5, <1>6 DEF IsRun

\* What each turn of a loop keeps.
Keeps(seq, p, q, r, t) ==
  \A a : \A i \in DOMAIN seq : Inv(i - 1, a, p, q, r, t) => Inv(i, Body(a, seq[i], p, q, r, t), p, q, r, t)

\* What holds before a loop and is kept by each of its turns holds after it.
LEMMA LoopInvariant ==
  ASSUME NEW base, NEW seq, NEW p, NEW q, NEW r, NEW t, NEW n \in Nat, DOMAIN seq = 1 .. n,
         Inv(0, base, p, q, r, t), Keeps(seq, p, q, r, t)
  PROVE  Inv(n, Loop(base, seq, p, q, r, t), p, q, r, t)
<1>1. PICK c : IsRun(c, base, seq, n, p, q, r, t)
  BY Turns
<1> DEFINE S == {k \in Nat : k <= n => Inv(k, c[1 .. k], p, q, r, t)}
<1>2. 0 \in S
  <2>1. 1 .. 0 = {}
    OBVIOUS
  <2>2. Inv(0, c[1 .. 0], p, q, r, t)
    BY <1>1, <2>1 DEF IsRun
  <2>3. QED BY <2>2
<1>3. ASSUME NEW k \in Nat, k \in S PROVE k + 1 \in S
  <2>1. CASE k + 1 <= n
    <3>1. k \in 0 .. n - 1 /\ k + 1 \in DOMAIN seq /\ (k + 1) - 1 = k /\ Inv(k, c[1 .. k], p, q, r, t)
      BY <1>3, <2>1
    <3>2. Inv(k + 1, Body(c[1 .. k], seq[k + 1], p, q, r, t), p, q, r, t)
      BY <3>1 DEF Keeps
    <3>3. QED BY <1>1, <3>1, <3>2 DEF IsRun
  <2>2. CASE ~(k + 1 <= n)
    BY <2>2
  <2>3. QED BY <2>1, <2>2
<1>4. n \in S
  <2> HIDE DEF S
  <2>1. QED BY <1>2, <1>3, UpTo
<1>5. QED BY <1>1, <1>4 DEF IsRun

-----------------------------------------------------------------------------
(* A search counts until the name is free. *)

Search(name, p, q, r) ==
  LET found[k \in Nat] == IF Free(Counted(name, k), p, q, r) THEN Counted(name, k) ELSE found[k + 1]
  IN  found[1]

\* It finds the name with the least count, if there is one that is free.
LEMMA SearchFinds ==
  ASSUME NEW name, NEW p, NEW q, NEW r, NEW some \in Nat, some >= 1, Free(Counted(name, some), p, q, r)
  PROVE  \E m \in Nat : /\ m >= 1 /\ Search(name, p, q, r) = Counted(name, m)
                        /\ Free(Counted(name, m), p, q, r)
<1> DEFINE K == {k \in Nat : Free(Counted(name, k), p, q, r)}
           Above(k) == {j \in K : j >= k}
           Value(k) == IF Above(k) = {} THEN {} ELSE Counted(name, CHOOSE j \in Above(k) : \A i \in Above(k) : j <= i)
           Eq(f) == f = [k \in Nat |-> IF Free(Counted(name, k), p, q, r) THEN Counted(name, k) ELSE f[k + 1]]
           h == [k \in Nat |-> Value(k)]
<1>1. PICK m \in Above(1) : \A i \in Above(1) : m <= i
  <2>1. Above(1) \in SUBSET Nat /\ some \in Above(1)
    OBVIOUS
  <2> HIDE DEF Above
  <2>2. QED BY <2>1, LeastNatural
<1>2. m \in Nat /\ m >= 1 /\ Free(Counted(name, m), p, q, r)
      /\ \A j \in 1 .. m - 1 : ~Free(Counted(name, j), p, q, r)
  BY <1>1
<1>3. ASSUME NEW k \in Nat, k \in K PROVE Value(k) = Counted(name, k)
  <2>1. k \in Above(k) /\ \A i \in Above(k) : k <= i
    BY <1>3
  <2>2. \A j \in Above(k) : (\A i \in Above(k) : j <= i) => j = k
    BY <2>1
  <2> HIDE DEF Above
  <2> QED BY <2>1, <2>2
<1>4. ASSUME NEW k \in Nat, k \notin K PROVE Value(k) = Value(k + 1)
  <2>1. \A j \in K : j >= k <=> j >= k + 1
    BY <1>4
  <2>2. Above(k) = Above(k + 1)
    BY <2>1
  <2> HIDE DEF Above
  <2> QED BY <2>2
<1>5. Eq(h)
  <2> HIDE DEF Value
  <2>1. \A k \in Nat : Value(k) = IF Free(Counted(name, k), p, q, r) THEN Counted(name, k) ELSE h[k + 1]
    BY <1>3, <1>4
  <2> QED BY <2>1
<1>6. ASSUME NEW f, Eq(f) PROVE f[1] = Counted(name, m)
  <2> DEFINE S == {i \in Nat : i < m => f[m - i] = Counted(name, m)}
  <2>1. 0 \in S
    BY <1>2, <1>6
  <2>2. ASSUME NEW i \in Nat, i \in S PROVE i + 1 \in S
    <3>1. CASE i + 1 < m
      <4>1. m - (i + 1) \in Nat /\ m - (i + 1) \in 1 .. m - 1 /\ (m - (i + 1)) + 1 = m - i
        BY <1>2, <3>1
      <4>2. f[m - (i + 1)] = f[(m - (i + 1)) + 1]
        BY <1>2, <1>6, <4>1
      <4> QED BY <2>2, <3>1, <4>1, <4>2
    <3> QED BY <3>1
  <2>3. m - 1 \in S
    <3> HIDE DEF S
    <3>1. Nat \subseteq S
      BY <2>1, <2>2, UpTo
    <3> QED BY <1>2, <3>1
  <2> QED BY <1>2, <2>3
<1>7. Search(name, p, q, r) = (CHOOSE f : Eq(f))[1]
  BY DEF Search
<1>8. Search(name, p, q, r) = Counted(name, m)
  <2> HIDE DEF Eq, h
  <2>1. QED BY <1>5, <1>6, <1>7
<1>9. QED BY <1>2, <1>8
==============================================================================
