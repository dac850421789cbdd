---------------------------- MODULE FormatProofs -----------------------------
(***************************************************************************)
(* What the formats rest on, for every input: the ids that the COCO and    *)
(* the TAO writers give, the clocks of an HMIE annotation and its video,   *)
(* the documents of COCO; and what the loaders and the writers of flat     *)
(* directories, of Hugging Face, of YOLO, of MOTChallenge, of VisDrone     *)
(* video and of folders of MP4 files make.                                 *)
(***************************************************************************)
EXTENDS DatasetFacts, FiniteSetTheorems, WellFoundedInduction, TLAPS

-----------------------------------------------------------------------------
(* Loops and searches. *)

\* Searches for a name that is not in a set; Names has what holds of loops and searches in general.
NotIn(c, used, q, r) == c \notin used
NoTurn(a, x, p, q, r, t) == a
Always(k, a, p, q, r, t) == TRUE
Names == INSTANCE Loops WITH Body <- NoTurn, Inv <- Always, Free <- NotIn, Counted <- Candidate

-----------------------------------------------------------------------------
(* Sequences. *)

LEMMA SequenceOf ==
  ASSUME NEW S, NEW s \in Seq(S)
  PROVE  IsSequence(s)
BY DEF IsSequence

LEMMA SequenceFacts ==
  ASSUME NEW s, IsSequence(s)
  PROVE  Len(s) \in Nat /\ DOMAIN s = 1 .. Len(s)
<1> DEFINE S == {s[i] : i \in DOMAIN s}
<1>1. s \in Seq(S)
  BY DEF IsSequence
<1> HIDE DEF S
<1> QED BY <1>1

\* The indices of a sequence, which the loops of the writers go through.
Indices(s) == [i \in DOMAIN s |-> i]

LEMMA AppendFacts ==
  ASSUME NEW s, IsSequence(s), NEW e
  PROVE  /\ IsSequence(Append(s, e))
         /\ DOMAIN Append(s, e) = 1 .. Len(s) + 1 /\ Len(Append(s, e)) = Len(s) + 1
         /\ \A i \in 1 .. Len(s) : Append(s, e)[i] = s[i]
         /\ Append(s, e)[Len(s) + 1] = e
<1> DEFINE S == {s[i] : i \in DOMAIN s} \cup {e}
<1>1. s \in Seq(S) /\ e \in S
  BY DEF IsSequence
<1> HIDE DEF S
<1>2. Append(s, e) \in Seq(S)
  BY <1>1
<1>3. IsSequence(Append(s, e))
  BY <1>2, SequenceOf
<1> QED BY <1>1, <1>2, <1>3

LEMMA SingleFacts ==
  ASSUME NEW e
  PROVE  IsSequence(<<e>>) /\ Len(<<e>>) = 1 /\ DOMAIN <<e>> = 1 .. 1 /\ <<e>>[1] = e
<1>1. <<e>> \in Seq({e})
  OBVIOUS
<1>2. IsSequence(<<e>>)
  BY <1>1, SequenceOf
<1> QED BY <1>2

LEMMA ConcatFacts ==
  ASSUME NEW s, IsSequence(s), NEW t, IsSequence(t)
  PROVE  /\ IsSequence(s \o t)
         /\ DOMAIN (s \o t) = 1 .. Len(s) + Len(t) /\ Len(s \o t) = Len(s) + Len(t)
         /\ \A i \in 1 .. Len(s) : (s \o t)[i] = s[i]
         /\ \A i \in 1 .. Len(t) : (s \o t)[Len(s) + i] = t[i]
<1> DEFINE S == {s[i] : i \in DOMAIN s} \cup {t[i] : i \in DOMAIN t}
<1>1. s \in Seq(S) /\ t \in Seq(S)
  BY DEF IsSequence
<1> HIDE DEF S
<1>2. s \o t \in Seq(S)
  BY <1>1
<1>3. IsSequence(s \o t)
  BY <1>2, SequenceOf
<1> QED BY <1>1, <1>2, <1>3

LEMMA EmptyFacts == IsSequence(<<>>) /\ DOMAIN <<>> = {} /\ Len(<<>>) = 0
<1>1. <<>> \in Seq({}) /\ DOMAIN <<>> = {} /\ Len(<<>>) = 0
  OBVIOUS
<1>2. QED BY <1>1, SequenceOf

\* A function on the indices of a sequence is one.
LEMMA MapFacts ==
  ASSUME NEW s, IsSequence(s), NEW f, f = [i \in DOMAIN s |-> f[i]]
  PROVE  IsSequence(f) /\ Len(f) = Len(s) /\ DOMAIN f = DOMAIN s
<1>1. Len(s) \in Nat /\ DOMAIN s = 1 .. Len(s)
  BY SequenceFacts
<1> DEFINE S == {f[i] : i \in DOMAIN f}
<1>2. DOMAIN f = 1 .. Len(s) /\ f \in [1 .. Len(s) -> S]
  BY <1>1
<1> HIDE DEF S
<1>3. f \in Seq(S) /\ Len(f) = Len(s)
  BY <1>1, <1>2
<1>4. QED BY <1>1, <1>2, <1>3, SequenceOf

\* The concatenation of some sequences is what is left when each is put after those before it.
LEMMA FlattenTurns ==
  ASSUME NEW parts, IsSequence(parts), Len(parts) # 0
  PROVE  \E f : /\ f[1] = parts[1] /\ FlattenSeq(parts) = f[Len(parts)]
                /\ \A k \in 1 .. Len(parts) - 1 : f[k + 1] = f[k] \o parts[k + 1]
<1> DEFINE n == Len(parts)
           Glue(a, b) == a \o b
           Eq(k, g) == g = [i \in 1 .. k |-> IF i = 1 THEN parts[i] ELSE Glue(g[i - 1], parts[i])]
           S == {k \in Nat : \E g : Eq(k, g)}
           f == CHOOSE g : Eq(n, g)
<1>1. n \in Nat /\ DOMAIN parts = 1 .. n
  BY SequenceFacts
<1>2. Eq(0, <<>>)
  OBVIOUS
<1>3. ASSUME NEW k \in Nat, NEW g, Eq(k, g) PROVE \E h : Eq(k + 1, h)
  <2> DEFINE h == [i \in 1 .. k + 1 |-> IF i = 1 THEN parts[i] ELSE Glue(g[i - 1], parts[i])]
  <2> HIDE DEF Glue
  <2>1. \A i \in 1 .. k : h[i] = g[i]
    BY <1>3
  <2>2. \A i \in 1 .. k + 1 : i # 1 => i - 1 \in 1 .. k
    OBVIOUS
  <2>3. Eq(k + 1, h)
    BY <2>1, <2>2
  <2>4. QED BY <2>3
<1>4. Eq(n, f)
  <2> HIDE DEF Eq
  <2>1. 0 \in S /\ \A k \in Nat : k \in S => k + 1 \in S
    BY <1>2, <1>3
  <2>2. n \in S
    <3> HIDE DEF S
    <3> QED BY <1>1, <2>1, Names!UpTo
  <2> QED BY <2>2
<1>5. FlattenSeq(parts) = f[n]
  BY DEF FlattenSeq
<1> HIDE DEF f
<1>6. f[1] = parts[1]
  BY <1>1, <1>4
<1>7. ASSUME NEW k \in 1 .. n - 1 PROVE f[k + 1] = f[k] \o parts[k + 1]
  <2>1. k + 1 \in 1 .. n /\ k + 1 # 1 /\ (k + 1) - 1 = k
    BY <1>1
  <2> HIDE DEF Glue
  <2>2. f[k + 1] = Glue(f[k], parts[k + 1])
    BY <1>4, <2>1
  <2>3. QED BY <2>2 DEF Glue
<1>8. QED BY <1>5, <1>6, <1>7

\* What it is made of, after so many of them: each of their elements, each once if they differ, and
\* in their order if they are single ones.
ItemsDiffer(parts) ==
  \A i, j \in DOMAIN parts : \A m \in DOMAIN parts[i], l \in DOMAIN parts[j] :
      parts[i][m] = parts[j][l] => i = j /\ m = l
AreSingles(parts) == \A i \in DOMAIN parts : Len(parts[i]) = 1
Differ(s) == \A j, l \in DOMAIN s : s[j] = s[l] => j = l
Flattened(flat, parts, k) ==
  /\ IsSequence(flat)
  /\ \A j \in DOMAIN flat : \E i \in 1 .. k : \E m \in DOMAIN parts[i] : flat[j] = parts[i][m]
  /\ \A i \in 1 .. k : \A m \in DOMAIN parts[i] : \E j \in DOMAIN flat : flat[j] = parts[i][m]
  /\ ItemsDiffer(parts) => Differ(flat)
  /\ AreSingles(parts) => Len(flat) = k /\ \A i \in 1 .. k : flat[i] = parts[i][1]
LEMMA FlattenedStep ==
  ASSUME NEW parts, NEW n \in Nat, DOMAIN parts = 1 .. n, \A i \in 1 .. n : IsSequence(parts[i]),
         NEW k \in Nat, k + 1 <= n, NEW flat, Flattened(flat, parts, k)
  PROVE  Flattened(flat \o parts[k + 1], parts, k + 1)
<1> DEFINE b == parts[k + 1]
           all == flat \o b
<1>1. k + 1 \in DOMAIN parts /\ IsSequence(b) /\ b = parts[k + 1] /\ \A i \in 1 .. k + 1 : i = k + 1 \/ i \in 1 .. k
  OBVIOUS
<1> HIDE DEF b
<1>2. /\ IsSequence(all) /\ DOMAIN all = 1 .. Len(flat) + Len(b) /\ Len(all) = Len(flat) + Len(b)
      /\ \A i \in 1 .. Len(flat) : all[i] = flat[i]
      /\ \A i \in 1 .. Len(b) : all[Len(flat) + i] = b[i]
  BY <1>1, ConcatFacts DEF Flattened
<1> HIDE DEF all
<1>3. Len(flat) \in Nat /\ DOMAIN flat = 1 .. Len(flat) /\ Len(b) \in Nat /\ DOMAIN b = 1 .. Len(b)
  BY <1>1, SequenceFacts DEF Flattened
<1>4. ASSUME NEW j \in DOMAIN all
      PROVE  \/ j \in DOMAIN flat /\ all[j] = flat[j]
             \/ \E m \in DOMAIN b : j = Len(flat) + m /\ all[j] = b[m]
  <2>1. CASE j <= Len(flat)
    BY <1>2, <1>3, <2>1
  <2>2. CASE j > Len(flat)
    <3>1. j - Len(flat) \in 1 .. Len(b) /\ j = Len(flat) + (j - Len(flat))
      BY <1>2, <1>3, <2>2
    <3>2. QED BY <1>2, <1>3, <3>1
  <2>3. QED BY <1>2, <1>3, <2>1, <2>2
<1>5. (\A j \in DOMAIN flat : j \in DOMAIN all) /\ \A m \in DOMAIN b : Len(flat) + m \in DOMAIN all
  BY <1>2, <1>3
<1>6. \A j \in DOMAIN all : \E i \in 1 .. k + 1 : \E m \in DOMAIN parts[i] : all[j] = parts[i][m]
  <2> SUFFICES ASSUME NEW j \in DOMAIN all
               PROVE  \E i \in 1 .. k + 1 : \E m \in DOMAIN parts[i] : all[j] = parts[i][m]
    OBVIOUS
  <2>1. CASE j \in DOMAIN flat /\ all[j] = flat[j]
    <3>1. PICK i \in 1 .. k : \E m \in DOMAIN parts[i] : flat[j] = parts[i][m]
      BY <2>1 DEF Flattened
    <3>2. QED BY <2>1, <3>1
  <2>2. CASE \E m \in DOMAIN b : j = Len(flat) + m /\ all[j] = b[m]
    BY <1>1, <2>2
  <2>3. QED BY <1>4, <2>1, <2>2
<1>7. ASSUME NEW i \in 1 .. k + 1, NEW m \in DOMAIN parts[i] PROVE \E j \in DOMAIN all : all[j] = parts[i][m]
  <2>1. CASE i = k + 1
    BY <1>1, <1>2, <1>3, <1>5, <2>1
  <2>2. CASE i \in 1 .. k
    <3>1. PICK j \in DOMAIN flat : flat[j] = parts[i][m]
      BY <2>2 DEF Flattened
    <3>2. j \in DOMAIN all /\ all[j] = flat[j]
      BY <1>2, <1>3, <1>5
    <3>3. QED BY <3>1, <3>2
  <2>3. QED BY <1>1, <2>1, <2>2
<1>8. ASSUME ItemsDiffer(parts), NEW j \in DOMAIN all, NEW l \in DOMAIN all, all[j] = all[l] PROVE j = l
  <2>1. \A x \in DOMAIN flat : \E i \in 1 .. k : \E m \in DOMAIN parts[i] : flat[x] = parts[i][m]
    BY DEF Flattened
  <2>2. ASSUME NEW x \in DOMAIN flat, NEW y \in DOMAIN b PROVE flat[x] # b[y]
    <3>1. PICK i \in 1 .. k : \E m \in DOMAIN parts[i] : flat[x] = parts[i][m]
      BY <2>1
    <3>2. i \in DOMAIN parts /\ i # k + 1
      OBVIOUS
    <3>3. QED BY <1>1, <1>8, <3>1, <3>2 DEF ItemsDiffer
  <2>3. \A x, y \in DOMAIN b : b[x] = b[y] => x = y
    BY <1>1, <1>8 DEF ItemsDiffer
  <2>4. \A x, y \in DOMAIN flat : flat[x] = flat[y] => x = y
    BY <1>8 DEF Flattened, Differ
  <2>5. QED BY <1>4, <1>8, <2>2, <2>3, <2>4
<1>9. ASSUME AreSingles(parts) PROVE Len(all) = k + 1 /\ \A i \in 1 .. k + 1 : all[i] = parts[i][1]
  <2>1. Len(b) = 1 /\ Len(flat) = k /\ \A i \in 1 .. k : flat[i] = parts[i][1]
    BY <1>1, <1>9 DEF AreSingles, Flattened
  <2>2. all[k + 1] = b[1]
    BY <1>2, <2>1
  <2>3. QED BY <1>1, <1>2, <2>1, <2>2
<1>10. Flattened(all, parts, k + 1)
  BY <1>2, <1>6, <1>7, <1>8, <1>9 DEF Flattened, Differ
<1>11. QED BY <1>10 DEF all, b

LEMMA FlattenedFacts ==
  ASSUME NEW parts, IsSequence(parts), \A i \in DOMAIN parts : IsSequence(parts[i])
  PROVE  Flattened(FlattenSeq(parts), parts, Len(parts))
<1> DEFINE n == Len(parts)
<1>1. n \in Nat /\ DOMAIN parts = 1 .. n
  BY SequenceFacts
<1>2. CASE n = 0
  <2>1. FlattenSeq(parts) = parts
    BY <1>2 DEF FlattenSeq
  <2>2. QED BY <1>1, <1>2, <2>1 DEF Flattened, Differ
<1>3. CASE n # 0
  <2>1. PICK f : /\ f[1] = parts[1] /\ FlattenSeq(parts) = f[n]
                 /\ \A k \in 1 .. n - 1 : f[k + 1] = f[k] \o parts[k + 1]
    BY <1>3, FlattenTurns
  <2> DEFINE T == {k \in Nat : k + 1 <= n => Flattened(f[k + 1], parts, k + 1)}
  <2> HIDE DEF n
  <2>2. 0 \in T
    <3>1. IsSequence(<<>>) /\ DOMAIN <<>> = {} /\ Len(<<>>) = 0
      BY EmptyFacts
    <3>2. Flattened(<<>>, parts, 0)
      BY <3>1 DEF Flattened, Differ
    <3>3. 0 \in Nat /\ 0 + 1 <= n /\ 0 + 1 = 1
      BY <1>1, <1>3
    <3>4. Flattened(<<>> \o parts[0 + 1], parts, 0 + 1)
      BY <1>1, <3>2, <3>3, FlattenedStep
    <3>5. <<>> \o parts[1] = parts[1]
      <4>1. IsSequence(parts[1])
        BY <1>1, <1>3
      <4>2. QED BY <4>1 DEF IsSequence
    <3>6. QED BY <2>1, <3>3, <3>4, <3>5
  <2>3. ASSUME NEW k \in Nat, k \in T PROVE k + 1 \in T
    <3>1. CASE k + 2 <= n
      <4>1. k + 1 \in 1 .. n - 1 /\ k + 1 \in Nat /\ (k + 1) + 1 <= n
        BY <1>1, <3>1
      <4>2. f[(k + 1) + 1] = f[k + 1] \o parts[(k + 1) + 1]
        BY <2>1, <4>1
      <4>3. Flattened(f[k + 1], parts, k + 1)
        BY <1>1, <2>3, <4>1
      <4>4. Flattened(f[k + 1] \o parts[(k + 1) + 1], parts, (k + 1) + 1)
        BY <1>1, <4>1, <4>3, FlattenedStep
      <4>5. Flattened(f[(k + 1) + 1], parts, (k + 1) + 1)
        BY <4>2, <4>4
      <4>6. QED BY <4>5
    <3>2. CASE ~(k + 2 <= n)
      BY <1>1, <3>2
    <3>3. QED BY <3>1, <3>2
  <2>4. n - 1 \in T
    <3> HIDE DEF T
    <3>1. Nat \subseteq T
      BY <2>2, <2>3, Names!UpTo
    <3>2. QED BY <1>1, <1>3, <3>1
  <2>5. QED BY <1>1, <1>3, <2>1, <2>4
<1>4. QED BY <1>2, <1>3 DEF n

\* The concatenation of some sequences has the elements that they have.
Concatenates(flat, parts) ==
  /\ IsSequence(flat)
  /\ \A j \in DOMAIN flat : \E i \in DOMAIN parts : \E m \in DOMAIN parts[i] : flat[j] = parts[i][m]
LEMMA FlattenFacts ==
  ASSUME NEW parts, IsSequence(parts), \A i \in DOMAIN parts : IsSequence(parts[i])
  PROVE  Concatenates(FlattenSeq(parts), parts)
BY FlattenedFacts, SequenceFacts DEF Flattened, Concatenates

\* What a loop collects that adds at most one item per element.
LEMMA CollectFacts ==
  ASSUME NEW s, IsSequence(s), NEW parts, parts = [i \in DOMAIN s |-> parts[i]],
         NEW item, \A i \in DOMAIN s : parts[i] = <<>> \/ parts[i] = <<item[i]>>
  PROVE  /\ IsSequence(FlattenSeq(parts))
         /\ \A j \in DOMAIN FlattenSeq(parts) :
               \E i \in DOMAIN s : FlattenSeq(parts)[j] = item[i] /\ parts[i] # <<>>
<1>1. IsSequence(parts) /\ DOMAIN parts = DOMAIN s
  BY MapFacts
<1>2. ASSUME NEW i \in DOMAIN s PROVE /\ IsSequence(parts[i])
                                      /\ \A m \in DOMAIN parts[i] : parts[i][m] = item[i] /\ parts[i] # <<>>
  <2>1. CASE parts[i] = <<>>
    BY <2>1, EmptyFacts
  <2>2. CASE parts[i] = <<item[i]>>
    <3> DEFINE x == item[i]
               one == <<x>>
    <3>1. IsSequence(one) /\ DOMAIN one = 1 .. 1 /\ one[1] = x
      BY SingleFacts
    <3>2. parts[i] = one
      BY <2>2
    <3> HIDE DEF one
    <3>3. QED BY <2>2, <3>1, <3>2
  <2>3. QED BY <2>1, <2>2
<1> DEFINE flat == FlattenSeq(parts)
<1>3. Concatenates(flat, parts)
  BY <1>1, <1>2, FlattenFacts
<1> HIDE DEF flat
<1>4. QED BY <1>1, <1>2, <1>3 DEF Concatenates, flat

\* It has each item that is added, once if they differ, and all of them in their places if none is left out.
LEMMA CollectedFacts ==
  ASSUME NEW s, IsSequence(s), NEW parts, parts = [i \in DOMAIN s |-> parts[i]],
         NEW item, \A i \in DOMAIN s : parts[i] = <<>> \/ parts[i] = <<item[i]>>
  PROVE  /\ \A i \in DOMAIN s : parts[i] = <<item[i]>> => \E j \in DOMAIN FlattenSeq(parts) : FlattenSeq(parts)[j] = item[i]
         /\ (\A i, j \in DOMAIN s : item[i] = item[j] => i = j) => Differ(FlattenSeq(parts))
         /\ (\A i \in DOMAIN s : parts[i] = <<item[i]>>) =>
               DOMAIN FlattenSeq(parts) = DOMAIN s /\ \A i \in DOMAIN s : FlattenSeq(parts)[i] = item[i]
<1> DEFINE flat == FlattenSeq(parts)
<1>1. IsSequence(parts) /\ DOMAIN parts = DOMAIN s /\ Len(parts) \in Nat /\ DOMAIN parts = 1 .. Len(parts)
  BY MapFacts, SequenceFacts
<1>2. ASSUME NEW i \in DOMAIN s
      PROVE  /\ IsSequence(parts[i])
             /\ \A m \in DOMAIN parts[i] : parts[i][m] = item[i] /\ m = 1
             /\ parts[i] = <<item[i]>> => 1 \in DOMAIN parts[i] /\ parts[i][1] = item[i] /\ Len(parts[i]) = 1
  <2> DEFINE x == item[i]
             one == <<x>>
  <2>1. IsSequence(one) /\ DOMAIN one = 1 .. 1 /\ one[1] = x /\ Len(one) = 1
    BY SingleFacts
  <2>2. parts[i] = <<>> \/ parts[i] = one
    OBVIOUS
  <2>3. one = <<item[i]>> /\ x = item[i]
    OBVIOUS
  <2> HIDE DEF one, x
  <2>4. CASE parts[i] = <<>>
    <3>1. one # <<>>
      BY <2>1, EmptyFacts
    <3>2. QED BY <2>3, <2>4, <3>1, EmptyFacts
  <2>5. CASE parts[i] = one
    <3>1. \A m \in DOMAIN parts[i] : m = 1
      BY <2>1, <2>5
    <3>2. QED BY <2>1, <2>3, <2>5, <3>1
  <2>6. QED BY <2>2, <2>4, <2>5
<1>3. Flattened(flat, parts, Len(parts))
  BY <1>1, <1>2, FlattenedFacts
<1> HIDE DEF flat
<1>4. ASSUME NEW i \in DOMAIN s, parts[i] = <<item[i]>> PROVE \E j \in DOMAIN flat : flat[j] = item[i]
  <2>1. 1 \in DOMAIN parts[i] /\ parts[i][1] = item[i] /\ i \in 1 .. Len(parts)
    BY <1>1, <1>2, <1>4
  <2>2. PICK j \in DOMAIN flat : flat[j] = parts[i][1]
    BY <1>3, <2>1 DEF Flattened
  <2>3. QED BY <2>1, <2>2
<1>5. ASSUME \A i, j \in DOMAIN s : item[i] = item[j] => i = j PROVE Differ(flat)
  <2>1. ItemsDiffer(parts)
    <3> SUFFICES ASSUME NEW i \in DOMAIN parts, NEW j \in DOMAIN parts, NEW m \in DOMAIN parts[i],
                        NEW l \in DOMAIN parts[j], parts[i][m] = parts[j][l]
                 PROVE  i = j /\ m = l
      BY DEF ItemsDiffer
    <3>1. parts[i][m] = item[i] /\ m = 1 /\ parts[j][l] = item[j] /\ l = 1 /\ i \in DOMAIN s /\ j \in DOMAIN s
      BY <1>1, <1>2
    <3>2. QED BY <1>5, <3>1
  <2>2. QED BY <1>3, <2>1 DEF Flattened
<1>6. ASSUME \A i \in DOMAIN s : parts[i] = <<item[i]>>
      PROVE  DOMAIN flat = DOMAIN s /\ \A i \in DOMAIN s : flat[i] = item[i]
  <2>1. AreSingles(parts) /\ \A i \in DOMAIN s : parts[i][1] = item[i]
    BY <1>1, <1>2, <1>6 DEF AreSingles
  <2>2. Len(flat) = Len(parts) /\ \A i \in 1 .. Len(parts) : flat[i] = parts[i][1]
    BY <1>3, <2>1 DEF Flattened
  <2>3. DOMAIN flat = 1 .. Len(flat)
    BY <1>3, SequenceFacts DEF Flattened
  <2>4. QED BY <1>1, <2>1, <2>2, <2>3
<1>7. QED BY <1>4, <1>5, <1>6 DEF flat

\* A finite set in its order is a sequence of its elements, in which each of them is.
LEMMA InOrderFacts ==
  ASSUME NEW S, IsFiniteSet(S)
  PROVE  /\ IsSequence(InOrder(S)) /\ \A j \in DOMAIN InOrder(S) : InOrder(S)[j] \in S
         /\ \A x \in S : \E j \in DOMAIN InOrder(S) : InOrder(S)[j] = x
<1> DEFINE Pick(s) == CHOOSE x \in s : TRUE
           n == Cardinality(S)
           Small(k) == {s \in SUBSET S : Cardinality(s) <= k}
           Value(g, s) == IF s = {} THEN <<>> ELSE Append(g[s \ {Pick(s)}], Pick(s))
           Eq(U, g) == g = [s \in U |-> Value(g, s)]
           K == {k \in Nat : \E g : Eq(Small(k), g)}
           f == CHOOSE g : Eq(SUBSET S, g)
           ListOf(s) == /\ IsSequence(f[s]) /\ \A j \in DOMAIN f[s] : f[s][j] \in S
                        /\ \A x \in s : \E j \in DOMAIN f[s] : f[s][j] = x
           L == {k \in Nat : \A s \in Small(k) : ListOf(s)}
<1>1. ASSUME NEW s \in SUBSET S
      PROVE  /\ IsFiniteSet(s) /\ Cardinality(s) \in Nat /\ Cardinality(s) <= n /\ n \in Nat
             /\ Cardinality(s) = 0 <=> s = {}
             /\ s # {} => /\ Pick(s) \in s /\ s \ {Pick(s)} \in SUBSET S
                          /\ Cardinality(s \ {Pick(s)}) = Cardinality(s) - 1
  <2>1. IsFiniteSet(s) /\ Cardinality(s) <= n
    BY FS_Subset
  <2>2. Cardinality(s) \in Nat /\ n \in Nat
    BY <2>1, FS_CardinalityType
  <2>3. Cardinality(s) = 0 <=> s = {}
    BY <2>1, FS_EmptySet
  <2>4. s # {} => Pick(s) \in s
    OBVIOUS
  <2> HIDE DEF Pick, n
  <2>5. s # {} => Cardinality(s \ {Pick(s)}) = Cardinality(s) - 1
    BY <2>1, <2>4, FS_RemoveElement
  <2>6. QED BY <2>1, <2>2, <2>3, <2>4, <2>5
<1>2. {} \in SUBSET S /\ S \in SUBSET S
  OBVIOUS
<1>3. Small(0) = {{}} /\ SUBSET S = Small(n)
  <2> HIDE DEF n, Pick
  <2>1. ASSUME NEW s \in SUBSET S PROVE Cardinality(s) <= 0 <=> s = {}
    <3>1. Cardinality(s) \in Nat /\ (Cardinality(s) = 0 <=> s = {})
      BY <1>1
    <3>2. QED BY <3>1
  <2>2. \A s \in SUBSET S : Cardinality(s) <= n
    BY <1>1
  <2>3. QED BY <1>2, <2>1, <2>2
<1>4. ASSUME NEW k \in Nat, NEW s \in Small(k + 1), s # {}
      PROVE  Pick(s) \in s /\ s \ {Pick(s)} \in Small(k)
  <2> HIDE DEF n, Pick
  <2>1. QED BY <1>1, <1>4
<1>5. ASSUME NEW k \in Nat PROVE Small(k) \subseteq Small(k + 1)
  <2> HIDE DEF n, Pick
  <2>1. ASSUME NEW s \in Small(k) PROVE s \in Small(k + 1)
    <3>1. Cardinality(s) \in Nat /\ Cardinality(s) <= k
      BY <1>1
    <3>2. Cardinality(s) <= k + 1
      BY <3>1
    <3>3. QED BY <3>2
  <2>2. QED BY <2>1
<1> HIDE DEF Small, Pick
<1>6. Eq(Small(0), [s \in Small(0) |-> <<>>])
  BY <1>3
<1>7. ASSUME NEW k \in Nat, NEW g, Eq(Small(k), g) PROVE \E h : Eq(Small(k + 1), h)
  <2> DEFINE h == [s \in Small(k + 1) |-> Value(g, s)]
  <2>1. \A t \in Small(k) : h[t] = g[t]
    BY <1>5, <1>7
  <2>2. ASSUME NEW s \in Small(k + 1) PROVE Value(h, s) = Value(g, s)
    <3>1. CASE s = {}
      BY <3>1
    <3>2. CASE s # {}
      <4>1. h[s \ {Pick(s)}] = g[s \ {Pick(s)}]
        BY <1>4, <2>1, <3>2
      <4> HIDE DEF h
      <4>2. QED BY <3>2, <4>1
    <3>3. QED BY <3>1, <3>2
  <2> HIDE DEF Value
  <2>3. Eq(Small(k + 1), h)
    BY <2>2
  <2>4. QED BY <2>3
<1>8. Eq(SUBSET S, f)
  <2> HIDE DEF Eq
  <2>1. 0 \in K /\ \A k \in Nat : k \in K => k + 1 \in K
    BY <1>6, <1>7
  <2>2. n \in K
    <3> HIDE DEF K
    <3>1. n \in Nat
      BY <1>1, <1>2
    <3>2. QED BY <2>1, <3>1, Names!UpTo
  <2> HIDE DEF n
  <2>3. QED BY <1>3, <2>2
<1>9. InOrder(S) = f[S]
  BY DEF InOrder, FoldSet, MapThenFoldSet, Pick
<1> HIDE DEF f
<1>10. 0 \in L
  <2>1. f[{}] = <<>>
    BY <1>2, <1>8
  <2>2. QED BY <1>3, <2>1, EmptyFacts
<1>11. ASSUME NEW k \in Nat, k \in L PROVE k + 1 \in L
  <2>1. ASSUME NEW s \in Small(k + 1) PROVE ListOf(s)
    <3>1. CASE s = {}
      BY <1>2, <1>8, <3>1, EmptyFacts
    <3>2. CASE s # {}
      <4> DEFINE t == s \ {Pick(s)}
                 x == Pick(s)
      <4>1. s \in SUBSET S /\ x \in S /\ t \in Small(k) /\ \A y \in s : y = x \/ y \in t
        BY <1>4, <3>2 DEF Small
      <4>2. f[s] = Append(f[t], x)
        BY <1>8, <3>2, <4>1
      <4>3. ListOf(t)
        BY <1>11, <4>1
      <4> HIDE DEF t, x
      <4>4. /\ IsSequence(f[s]) /\ DOMAIN f[s] = 1 .. Len(f[t]) + 1
            /\ \A i \in 1 .. Len(f[t]) : f[s][i] = f[t][i]
            /\ f[s][Len(f[t]) + 1] = x
        BY <4>2, <4>3, AppendFacts
      <4>5. Len(f[t]) \in Nat /\ DOMAIN f[t] = 1 .. Len(f[t])
        BY <4>3, SequenceFacts
      <4>6. \A j \in DOMAIN f[s] : j # Len(f[t]) + 1 => j \in DOMAIN f[t] /\ f[s][j] = f[t][j]
        BY <4>4, <4>5
      <4>7. \A j \in DOMAIN f[t] : j \in DOMAIN f[s] /\ f[s][j] = f[t][j]
        BY <4>4, <4>5
      <4>8. Len(f[t]) + 1 \in DOMAIN f[s]
        BY <4>4, <4>5
      <4>9. \A y \in s : \E j \in DOMAIN f[s] : f[s][j] = y
        BY <4>1, <4>3, <4>4, <4>7, <4>8
      <4>10. QED BY <4>1, <4>3, <4>4, <4>6, <4>9
    <3>3. QED BY <3>1, <3>2
  <2>2. QED BY <2>1
<1>12. n \in L
  <2> HIDE DEF L
  <2>1. n \in Nat
    BY <1>1, <1>2
  <2>2. QED BY <1>10, <1>11, <2>1, Names!UpTo
<1>13. QED BY <1>2, <1>3, <1>9, <1>12

\* So is a finite set of numbers in theirs.
LEMMA AscendingFacts ==
  ASSUME NEW S, IsFiniteSet(S)
  PROVE  IsSequence(Ascending(S))
<1>1. Cardinality(S) \in Nat
  BY FS_CardinalityType
<1> DEFINE n == Cardinality(S)
           f == Ascending(S)
<1>2. f = [k \in 1 .. n |-> f[k]]
  <2> DEFINE Nth(k) == CHOOSE m \in S : Cardinality({l \in S : l < m}) = k - 1
  <2>1. f = [k \in 1 .. n |-> Nth(k)]
    BY DEF Ascending
  <2> HIDE DEF f, n, Nth
  <2>2. QED BY <2>1
<1> HIDE DEF f, n
<1>3. f \in Seq({f[k] : k \in DOMAIN f})
  BY <1>1, <1>2 DEF n
<1>4. QED BY <1>3 DEF IsSequence, f

-----------------------------------------------------------------------------
(* Sets and functions. *)

LEMMA FiniteRange ==
  ASSUME NEW n \in Nat
  PROVE  IsFiniteSet(1 .. n)
<1>1. 1 \in Int /\ n \in Int
  OBVIOUS
<1>2. QED BY <1>1, FS_Interval, SMTT(30)

\* A sequence has finitely many indices.
LEMMA FiniteDomain ==
  ASSUME NEW s, IsSequence(s)
  PROVE  IsFiniteSet(DOMAIN s)
BY SequenceFacts, FiniteRange

\* The values of a function on a finite set.
LEMMA FiniteImage ==
  ASSUME NEW f, NEW S, IsFiniteSet(S)
  PROVE  IsFiniteSet({f[x] : x \in S})
<1> DEFINE T == {f[x] : x \in S}
           g == [x \in S |-> f[x]]
<1>1. g \in Surjection(S, T)
  BY DEF Surjection
<1> HIDE DEF g, T
<1>2. IsFiniteSet(T)
  BY <1>1, FS_Surjection
<1>3. QED BY <1>2 DEF T

\* The largest number of a finite set, and the smallest of any set of naturals.
LEMMA LargestFacts ==
  ASSUME NEW S \in SUBSET Int, IsFiniteSet(S), S # {}
  PROVE  Max(S) \in S /\ \A y \in S : y <= Max(S)
<1> DEFINE Above(n) == {m \in S : m > n}
           counts == {Cardinality(Above(n)) : n \in S}
<1>1. \A n \in S : IsFiniteSet(Above(n)) /\ Cardinality(Above(n)) \in Nat
  BY FS_Subset, FS_CardinalityType
<1>2. PICK c \in counts : \A d \in counts : c <= d
  <2>1. counts \in SUBSET Nat /\ counts # {}
    BY <1>1
  <2> HIDE DEF counts
  <2>2. QED BY <2>1, Names!LeastNatural
<1>3. PICK n \in S : Cardinality(Above(n)) = c
  OBVIOUS
<1>4. ASSUME NEW y \in S, y > n PROVE FALSE
  <2>1. y \in Above(n) /\ Above(y) \subseteq Above(n) \ {y}
    <3>1. n \in Int /\ y \in Int /\ \A m \in S : m \in Int /\ (m > y => m > n /\ m # y)
      BY <1>4
    <3>2. QED BY <1>4, <3>1
  <2>2. IsFiniteSet(Above(n) \ {y}) /\ Cardinality(Above(n) \ {y}) = Cardinality(Above(n)) - 1
    BY <1>1, <2>1, FS_RemoveElement
  <2>3. Cardinality(Above(y)) <= Cardinality(Above(n)) - 1
    BY <2>1, <2>2, FS_Subset
  <2>4. c <= Cardinality(Above(y))
    BY <1>2
  <2> HIDE DEF Above
  <2>5. QED BY <1>1, <1>3, <2>3, <2>4
<1>5. \A y \in S : n >= y
  BY <1>4
<1>6. QED BY <1>5 DEF Max

LEMMA SmallestFacts ==
  ASSUME NEW S \in SUBSET Nat, S # {}
  PROVE  Min(S) \in S /\ \A y \in S : Min(S) <= y
<1>1. PICK n \in S : \A m \in S : n <= m
  BY Names!LeastNatural
<1>2. QED BY <1>1 DEF Min

\* A finite set of numbers in their order has each of them once.
LEMMA AscendingNumbers ==
  ASSUME NEW S \in SUBSET Int, IsFiniteSet(S)
  PROVE  /\ \A k \in DOMAIN Ascending(S) : Ascending(S)[k] \in S
         /\ Differ(Ascending(S))
         /\ \A n \in S : \E k \in DOMAIN Ascending(S) : Ascending(S)[k] = n
<1> DEFINE Lower_(n) == {m \in S : m < n}
           Rank(n) == Cardinality(Lower_(n))
           size == Cardinality(S)
           rank == [n \in S |-> Rank(n)]
           places == 0 .. size - 1
           f == Ascending(S)
<1>1. size \in Nat /\ \A n \in S : IsFiniteSet(Lower_(n)) /\ Rank(n) \in Nat /\ Cardinality(S \ {n}) = size - 1
  BY FS_Subset, FS_CardinalityType, FS_RemoveElement
<1>2. ASSUME NEW n \in S PROVE Rank(n) \in places
  <2>1. Lower_(n) \subseteq S \ {n} /\ IsFiniteSet(S \ {n})
    BY FS_Subset
  <2>2. Rank(n) <= Cardinality(S \ {n})
    BY <2>1, FS_Subset
  <2>3. Rank(n) \in Nat /\ Rank(n) <= size - 1
    BY <1>1, <2>2
  <2> HIDE DEF Rank, size
  <2>4. QED BY <1>1, <2>3
<1>3. ASSUME NEW n \in S, NEW l \in S, n < l PROVE Rank(n) # Rank(l)
  <2>1. n \in Lower_(l) /\ Lower_(n) \subseteq Lower_(l) \ {n}
    <3>1. n \in Int /\ l \in Int /\ \A m \in S : m \in Int /\ (m < n => m < l /\ m # n)
      BY <1>3
    <3>2. QED BY <1>3, <3>1
  <2>2. IsFiniteSet(Lower_(l) \ {n}) /\ Cardinality(Lower_(l) \ {n}) = Rank(l) - 1
    BY <1>1, <2>1, FS_RemoveElement
  <2>3. Rank(n) <= Rank(l) - 1
    BY <2>1, <2>2, FS_Subset
  <2>4. Rank(n) \in Nat /\ Rank(l) \in Nat
    BY <1>1
  <2> HIDE DEF Rank
  <2>5. QED BY <2>3, <2>4
<1>4. \A n, l \in S : Rank(n) = Rank(l) => n = l
  <2> HIDE DEF Rank
  <2>1. \A n, l \in S : n # l => n < l \/ l < n
    OBVIOUS
  <2>2. QED BY <1>3, <2>1
<1>5. \A k \in places : \E n \in S : Rank(n) = k
  <2>1. rank \in Injection(S, places)
    <3> HIDE DEF Rank, places
    <3>1. rank \in [S -> places]
      BY <1>2
    <3>2. IsInjective(rank)
      BY <1>4 DEF IsInjective
    <3>3. QED BY <3>1, <3>2 DEF Injection
  <2>2. IsFiniteSet(places) /\ Cardinality(places) = size
    <3> HIDE DEF size
    <3>1. 0 \in Int /\ size - 1 \in Int
      BY <1>1
    <3>2. QED BY <1>1, <3>1, FS_Interval, SMTT(30)
  <2> HIDE DEF rank, places, size
  <2>3. rank \in Surjection(S, places)
    BY <2>1, <2>2, FS_Injection DEF size
  <2> HIDE DEF Rank
  <2>4. QED BY <2>3 DEF Surjection, rank
<1>6. f = [k \in 1 .. size |-> CHOOSE n \in S : Rank(n) = k - 1]
  BY DEF Ascending
<1> HIDE DEF Rank, f, size
<1>7. \A k \in 1 .. size : k - 1 \in 0 .. size - 1
  BY <1>1
<1>8. \A k \in DOMAIN f : f[k] \in S /\ Rank(f[k]) = k - 1
  <2> SUFFICES ASSUME NEW k \in 1 .. size PROVE f[k] \in S /\ Rank(f[k]) = k - 1
    BY <1>6
  <2>1. \E n \in S : Rank(n) = k - 1
    BY <1>5, <1>7
  <2>2. QED BY <1>6, <2>1
<1>9. DOMAIN f = 1 .. size
  BY <1>6
<1>10. Differ(f)
  BY <1>8, <1>9 DEF Differ
<1>11. ASSUME NEW n \in S PROVE \E k \in DOMAIN f : f[k] = n
  <2>1. Rank(n) + 1 \in DOMAIN f /\ (Rank(n) + 1) - 1 = Rank(n)
    BY <1>1, <1>2, <1>9
  <2>2. Rank(f[Rank(n) + 1]) = Rank(n) /\ f[Rank(n) + 1] \in S
    BY <1>8, <2>1
  <2>3. QED BY <1>4, <2>1, <2>2
<1>12. QED BY <1>8, <1>10, <1>11 DEF f

-----------------------------------------------------------------------------
(* Taxonomies. *)

\* The entry with a value in a field is one of those that have it.
LEMMA EntryFacts ==
  ASSUME NEW entries, IsSequence(entries), NEW field, NEW value
  PROVE  LET at == EntryWith(entries, field, value)
         IN  /\ at # 0 => at \in DOMAIN entries /\ entries[at][field] = value
             /\ at = 0 <=> \A k \in DOMAIN entries : entries[k][field] # value
             /\ at \in Nat
<1> DEFINE with == {k \in DOMAIN entries : entries[k][field] = value}
<1>1. with \in SUBSET Nat /\ 0 \notin DOMAIN entries
  BY SequenceFacts
<1>2. EntryWith(entries, field, value) = IF with # {} THEN Min(with) ELSE 0
  BY DEF EntryWith
<1>3. with # {} => Min(with) \in with
  <2> HIDE DEF with
  <2>1. QED BY <1>1, SmallestFacts
<1> DEFINE at == EntryWith(entries, field, value)
<1>4. at # 0 <=> with # {}
  <2> HIDE DEF with
  <2>1. 0 \notin with
    BY <1>1 DEF with
  <2>2. QED BY <1>2, <1>3, <2>1
<1>5. at # 0 => at \in with /\ at \in Nat
  <2> HIDE DEF with
  <2>1. QED BY <1>1, <1>2, <1>3, <1>4
<1> HIDE DEF at
<1>6. QED BY <1>4, <1>5 DEF at

\* What can stand for a category.
LEMMA CategoryFacts ==
  /\ IsCategory(None) /\ ~IsInt(None) /\ \A x : None # StrId(x)
  /\ \A x : IsCategory(StrId(x)) /\ ~IsInt(StrId(x)) /\ StrId(x)[2] = x
  /\ \A m \in Int : IsCategory(IntId(m)) /\ IsInt(IntId(m)) /\ IntId(m)[2] = m /\ IntId(m) # None
  /\ \A m, n : IntId(m) = IntId(n) => m = n
BY DEF IsCategory, IsInt, None, StrId, IntId

\* A taxonomy with one entry per id, and a label that has the name of the entry it refers to, if it
\* refers to one; a dataset of such labels.
DistinctIds(entries) == \A i, j \in DOMAIN entries : entries[i].id = entries[j].id => i = j
Fits(entries, l) ==
  LET entry == BySourceId(entries, l.cat) IN l.name # "" /\ entry # 0 => entries[entry].name = l.name
TaxonomyOK(ds) ==
  /\ DistinctIds(ds.entries)
  /\ ds.dense => \A i \in DOMAIN ds.entries : ds.entries[i].id = IntId(i - 1)
  /\ \A i \in DOMAIN ds.samples :
        LET labels == IF ds.task = "od" THEN ds.samples[i].dets ELSE ds.samples[i].labels
        IN  \A j \in DOMAIN labels : Fits(ds.entries, labels[j])

LEMMA SourceEntryFacts ==
  ASSUME NEW entries, IsSequence(entries), NEW id
  PROVE  LET at == BySourceId(entries, id)
         IN  /\ at # 0 => at \in DOMAIN entries /\ entries[at].id = id
             /\ at = 0 <=> \A k \in DOMAIN entries : entries[k].id # id
             /\ at \in Nat
BY EntryFacts DEF BySourceId

LEMMA FitsAll ==
  ASSUME NEW entries, IsSequence(entries), NEW l,
         \A k \in DOMAIN entries : l.name # "" /\ entries[k].id = l.cat => entries[k].name = l.name
  PROVE  Fits(entries, l)
<1> DEFINE entry == BySourceId(entries, l.cat)
<1>1. entry # 0 => entry \in DOMAIN entries /\ entries[entry].id = l.cat
  BY SourceEntryFacts
<1>2. Fits(entries, l) <=> (l.name # "" /\ entry # 0 => entries[entry].name = l.name)
  BY DEF Fits
<1> HIDE DEF entry
<1>3. QED BY <1>1, <1>2

LEMMA FitsAt ==
  ASSUME NEW entries, IsSequence(entries), DistinctIds(entries), NEW l,
         NEW k \in DOMAIN entries, entries[k].id = l.cat, entries[k].name = l.name
  PROVE  Fits(entries, l)
BY FitsAll DEF DistinctIds

\* A taxonomy of names.
LEMMA NamedEntryFacts ==
  ASSUME NEW names, IsSequence(names)
  PROVE  /\ IsSequence(NamedEntries(names)) /\ DOMAIN NamedEntries(names) = DOMAIN names
         /\ \A i \in DOMAIN names : NamedEntries(names)[i].id = IntId(i - 1) /\ NamedEntries(names)[i].name = names[i]
         /\ DistinctIds(NamedEntries(names))
<1> DEFINE f == NamedEntries(names)
<1>1. f = [i \in DOMAIN names |-> f[i]] /\ \A i \in DOMAIN names : f[i].id = IntId(i - 1) /\ f[i].name = names[i]
  BY DEF NamedEntries
<1>2. \A i \in DOMAIN names : i \in Int
  BY SequenceFacts
<1> HIDE DEF f
<1>3. IsSequence(f) /\ DOMAIN f = DOMAIN names
  BY <1>1, MapFacts
<1>4. \A i, j \in DOMAIN names : i - 1 = j - 1 => i = j
  BY <1>2
<1>5. DistinctIds(f)
  BY <1>1, <1>3, <1>4, CategoryFacts DEF DistinctIds
<1>6. QED BY <1>1, <1>3, <1>5 DEF f

\* Some entries of a taxonomy are one.
LEMMA KeptEntryFacts ==
  ASSUME NEW entries, IsSequence(entries), DistinctIds(entries),
         NEW parts, parts = [i \in DOMAIN entries |-> parts[i]],
         \A i \in DOMAIN entries : parts[i] = <<>> \/ parts[i] = <<entries[i]>>
  PROVE  IsSequence(FlattenSeq(parts)) /\ DistinctIds(FlattenSeq(parts))
<1> DEFINE kept == FlattenSeq(parts)
<1>1. IsSequence(kept) /\ \A j \in DOMAIN kept : \E i \in DOMAIN entries : kept[j] = entries[i] /\ parts[i] # <<>>
  BY CollectFacts
<1>2. \A i, j \in DOMAIN entries : entries[i] = entries[j] => i = j
  BY DEF DistinctIds
<1>3. Differ(kept)
  BY <1>2, CollectedFacts
<1> HIDE DEF kept
<1>4. ASSUME NEW j \in DOMAIN kept, NEW l \in DOMAIN kept, kept[j].id = kept[l].id PROVE j = l
  <2>1. PICK i \in DOMAIN entries, k \in DOMAIN entries : kept[j] = entries[i] /\ kept[l] = entries[k]
    BY <1>1
  <2>2. i = k
    BY <1>4, <2>1 DEF DistinctIds
  <2>3. QED BY <1>3, <2>1, <2>2 DEF Differ
<1>5. DistinctIds(kept)
  BY <1>4 DEF DistinctIds
<1>6. QED BY <1>1, <1>5 DEF kept

-----------------------------------------------------------------------------
(* The names of files. *)

\* A name that is counted is a name, another one for every number.
LEMMA CandidateFacts ==
  ASSUME NEW name, IsName(name), NEW k \in Nat
  PROVE  /\ IsName(Candidate(name, k))
         /\ Candidate(name, k).dir = name.dir /\ Candidate(name, k).stem = name.stem /\ Candidate(name, k).ext = name.ext
         /\ k # 1 => Len(Candidate(name, k).count) = Len(name.count) + 1
                     /\ Candidate(name, k).count[Len(name.count) + 1] = k
<1>1. CASE k = 1
  BY <1>1 DEF Candidate
<1>2. CASE k # 1
  <2>1. Candidate(name, k) = [dir |-> name.dir, stem |-> name.stem, count |-> Append(name.count, k), ext |-> name.ext]
    BY <1>2 DEF Candidate, IsName
  <2>2. /\ IsSequence(Append(name.count, k)) /\ Len(Append(name.count, k)) = Len(name.count) + 1
        /\ Append(name.count, k)[Len(name.count) + 1] = k
    BY AppendFacts DEF IsName
  <2> QED BY <1>2, <2>1, <2>2 DEF IsName
<1> QED BY <1>1, <1>2

LEMMA CandidatesDiffer ==
  ASSUME NEW name, IsName(name), NEW j \in Nat, NEW k \in Nat, j # k
  PROVE  Candidate(name, j).count # Candidate(name, k).count
<1>1. Len(name.count) \in Nat
  BY SequenceFacts DEF IsName
<1>2. Candidate(name, 1) = name
  BY DEF Candidate
<1> QED BY <1>1, <1>2, CandidateFacts

\* Of infinitely many counted names some have a count that finitely many others do not have.
LEMMA SomeCount ==
  ASSUME NEW name, IsName(name), NEW counts, IsFiniteSet(counts)
  PROVE  \E m \in Nat : m >= 1 /\ Candidate(name, m).count \notin counts
<1> DEFINE n == Cardinality(counts)
           f == [i \in 1 .. n + 1 |-> Candidate(name, i).count]
<1>1. n \in Nat
  BY FS_CardinalityType
<1>2. SUFFICES ASSUME \A m \in Nat : m >= 1 => Candidate(name, m).count \in counts PROVE FALSE
  OBVIOUS
<1>3. f \in [1 .. n + 1 -> counts] /\ \A i, j \in 1 .. n + 1 : i # j => f[i] # f[j]
  BY <1>1, <1>2, CandidatesDiffer
<1>4. IsFiniteSet(1 .. n + 1) /\ Cardinality(1 .. n + 1) = n + 1
  <2> HIDE DEF n
  <2>1. 1 \in Int /\ n + 1 \in Int /\ ~(1 > n + 1)
    BY <1>1
  <2>2. IsFiniteSet(1 .. n + 1) /\ Cardinality(1 .. n + 1) = (n + 1) - 1 + 1
    BY <2>1, FS_Interval, SMTT(30)
  <2>3. QED BY <1>1, <2>2
<1> HIDE DEF f, n
<1>5. Cardinality(counts) < Cardinality(1 .. n + 1)
  BY <1>1, <1>4 DEF n
<1>6. \E i, j \in 1 .. n + 1 : i # j /\ f[i] = f[j]
  BY <1>3, <1>4, <1>5, FS_PigeonHole
<1>7. QED BY <1>3, <1>6

-----------------------------------------------------------------------------
(* The allocator of ids. *)

\* What an allocator always is: it counts up, and has given finitely many ids.
IsAllocator(ids) == ids.next \in Nat /\ ids.used \in SUBSET Int /\ IsFiniteSet(ids.used)

\* The allocator a write starts with is one.
LEMMA FirstAllocator ==
  ASSUME NEW used \in SUBSET Int, IsFiniteSet(used)
  PROVE  IsAllocator(Allocator(used))
BY DEF IsAllocator, Allocator

\* One of the Cardinality(used) + 1 counters from next on is free.
LEMMA SomeUnused ==
  ASSUME NEW ids, IsAllocator(ids)
  PROVE  \E n \in ids.next .. ids.next + Cardinality(ids.used) : n \notin ids.used
<1> DEFINE k == Cardinality(ids.used)
           S == ids.next .. ids.next + k
<1>1. ids.next \in Nat /\ IsFiniteSet(ids.used) /\ k \in Nat
  BY FS_CardinalityType DEF IsAllocator
<1>2. Cardinality(S) = k + 1
  <2> HIDE DEF k
  <2>1. ids.next \in Int /\ ids.next + k \in Int /\ ~(ids.next > ids.next + k)
    BY <1>1
  <2>2. Cardinality(S) = (ids.next + k) - ids.next + 1
    BY <2>1, FS_Interval, SMTT(30)
  <2>3. QED BY <1>1, <2>2
<1>3. SUFFICES ASSUME S \subseteq ids.used PROVE FALSE
  OBVIOUS
<1>4. Cardinality(S) <= k
  BY <1>1, <1>3, FS_Subset
<1> HIDE DEF k, S
<1>5. QED BY <1>1, <1>2, <1>4

\* The loop of the allocator ends at the first counter that is not taken.
LEMMA FirstUnusedIsFree ==
  ASSUME NEW ids, IsAllocator(ids)
  PROVE  /\ FirstUnused(ids) \in Nat /\ FirstUnused(ids) >= ids.next
         /\ FirstUnused(ids) \notin ids.used
         /\ \A m \in ids.next .. FirstUnused(ids) - 1 : m \in ids.used
<1> DEFINE S == ids.next .. ids.next + Cardinality(ids.used)
           T == S \ ids.used
<1>1. ids.next \in Nat /\ Cardinality(ids.used) \in Nat
  BY FS_CardinalityType DEF IsAllocator
<1>2. T \in SUBSET Nat /\ T # {}
  BY <1>1, SomeUnused
<1>3. PICK n \in T : \A m \in T : n <= m
  BY <1>2, Names!LeastNatural
<1>4. \A m \in ids.next .. n - 1 : m \in S /\ ~(n <= m)
  BY <1>1, <1>3
<1>5. n \in S /\ n \notin ids.used /\ \A m \in ids.next .. n - 1 : m \in ids.used
  BY <1>3, <1>4
<1>6. /\ FirstUnused(ids) \in S /\ FirstUnused(ids) \notin ids.used
      /\ \A m \in ids.next .. FirstUnused(ids) - 1 : m \in ids.used
  BY <1>5 DEF FirstUnused
<1>7. QED BY <1>1, <1>6

\* _IdAllocator.reserve of the COCO and the TAO writer: the id given was not given before, a
\* preferred one is given when it is free, and what results is an allocator again.
\* Hence no two records of a document get one id, however many there are.
THEOREM AllocateIsFresh ==
  ASSUME NEW ids, IsAllocator(ids), NEW preferred \in Int
  PROVE  LET given == Allocate(ids, preferred)
         IN  /\ given.id \in Nat /\ given.id \notin ids.used
             /\ given.used = ids.used \cup {given.id}
             /\ preferred >= 0 /\ preferred \notin ids.used => given.id = preferred
             /\ IsAllocator(given)
<1>1. CASE preferred >= 0 /\ preferred \notin ids.used
  <2>1. IsFiniteSet(ids.used \cup {preferred})
    BY FS_AddElement DEF IsAllocator
  <2>2. QED BY <1>1, <2>1 DEF Allocate, IsAllocator
<1>2. CASE ~(preferred >= 0 /\ preferred \notin ids.used)
  <2> DEFINE free == FirstUnused(ids)
  <2>1. free \in Nat /\ free \notin ids.used
    BY FirstUnusedIsFree
  <2>2. IsFiniteSet(ids.used \cup {free})
    BY FS_AddElement DEF IsAllocator
  <2> HIDE DEF free
  <2>3. Allocate(ids, preferred) = [id |-> free, used |-> ids.used \cup {free}, next |-> free + 1]
    BY <1>2 DEF Allocate, free
  <2>4. QED BY <1>2, <2>1, <2>2, <2>3 DEF IsAllocator
<1>3. QED BY <1>1, <1>2

-----------------------------------------------------------------------------
(* The clocks. *)

LEMMA QuotientMonotone ==
    ASSUME NEW a \in Nat, NEW b \in Nat, a <= b, NEW d \in Nat \ {0}
    PROVE  a \div d \in Nat /\ a \div d <= b \div d
OBVIOUS

LEMMA ProductMonotone ==
    ASSUME NEW a \in Nat, NEW b \in Nat, a <= b, NEW f \in Nat
    PROVE  a * f \in Nat /\ a * f <= b * f
<1>1. (b - a) * f \in Nat
  OBVIOUS
<1>2. b * f = a * f + (b - a) * f
  OBVIOUS
<1> QED BY <1>1, <1>2

\* A later key never means an earlier frame.
LEMMA FrameMonotone ==
    ASSUME NEW fps \in Int, NEW afr \in Int, NEW k \in Nat, NEW m \in Nat, k <= m
    PROVE  FrameOfKey(k, fps, afr) \in Nat /\ FrameOfKey(k, fps, afr) <= FrameOfKey(m, fps, afr)
<1>1. CASE Mappable(fps, afr)
  <2>1. fps \in Nat /\ afr \in Nat \ {0}
    BY <1>1 DEF Mappable
  <2>2. k * fps \in Nat /\ m * fps \in Nat /\ k * fps <= m * fps
    BY <2>1, ProductMonotone
  <2> QED BY <1>1, <2>1, <2>2, QuotientMonotone DEF FrameOfKey
<1>2. CASE ~Mappable(fps, afr)
  BY <1>2 DEF FrameOfKey
<1> QED BY <1>1, <1>2

\* The bounds check of the validator looks at the last key of a track only; if it passes, every key of
\* the track, in whatever order, means a frame of the video.
THEOREM LastKeySuffices ==
    ASSUME NEW fps \in Int, NEW afr \in Int, NEW count \in Nat, NEW K \in SUBSET Nat,
           NEW last \in K, \A k \in K : k <= last, FrameOfKey(last, fps, afr) < count
    PROVE  \A k \in K : FrameOfKey(k, fps, afr) \in 0 .. count - 1
<1> TAKE k \in K
<1>1. k \in Nat /\ last \in Nat /\ k <= last
  OBVIOUS
<1>2. /\ FrameOfKey(k, fps, afr) \in Nat /\ FrameOfKey(k, fps, afr) <= FrameOfKey(last, fps, afr)
      /\ FrameOfKey(last, fps, afr) \in Nat
  BY <1>1, FrameMonotone
<1> QED BY <1>2

\* What the writer relies on: an annotation that states one rate for the video and for its labels has
\* the index of a frame as its key, so that boxes are where they were when it is loaded again.
THEOREM EqualRatesAreIdentity ==
    ASSUME NEW rate \in Int, NEW key \in Nat
    PROVE  FrameOfKey(key, rate, rate) = key
<1>1. CASE rate > 0
  <2>1. (key * rate) \div rate = key
    BY <1>1
  <2> QED BY <1>1, <2>1 DEF FrameOfKey, Mappable
<1>2. CASE ~(rate > 0)
  BY <1>2 DEF FrameOfKey, Mappable
<1> QED BY <1>1, <1>2

\* The frames the video checks sample are different frames of the video, none of them the first; they
\* leave no more than eight frames at the end unseen.
THEOREM SamplesSpread ==
    ASSUME NEW count \in Nat, count > 1
    PROVE  /\ \A i \in 0 .. SampleTotal(count) - 1 : SampleIndex(count, i) \in 1 .. count - 1
           /\ \A i, j \in 0 .. SampleTotal(count) - 1 : i < j => SampleIndex(count, i) < SampleIndex(count, j)
           /\ SampleIndex(count, SampleTotal(count) - 1) >= count - 9
<1> DEFINE n == SampleTotal(count)
           step == SampleStep(count)
<1>1. n \in 1 .. 10 /\ n <= count - 1 /\ (n < 10 => n = count - 1)
  BY DEF SampleTotal, SampleCount, Smaller
<1>2. /\ step \in Nat \ {0}
      /\ n = 10 => step * 9 <= count - 2 /\ count - 2 < step * 9 + 9
      /\ n < 10 => step = 1
  <2>1. CASE n = 10
    <3>1. count >= 11 /\ step = Larger((count - 2) \div 9, 1)
      BY <1>1, <2>1 DEF SampleStep, Larger
    <3>2. (count - 2) \div 9 >= 1
      BY <3>1
    <3> QED BY <2>1, <3>1, <3>2 DEF Larger
  <2>2. CASE n < 10
    <3>1. n = count - 1
      BY <1>1, <2>2
    <3>2. CASE n = 1
      <4>1. step = 1
        BY <3>1, <3>2 DEF SampleStep, Larger
      <4> QED BY <3>2, <4>1
    <3>3. CASE n > 1
      <4>1. Larger(n - 1, 1) = count - 2
        BY <3>1, <3>3 DEF Larger
      <4>2. (count - 2) \div (count - 2) = 1
        BY <3>1, <3>3
      <4>3. step = 1
        BY <4>1, <4>2 DEF SampleStep, Larger
      <4> QED BY <2>2, <4>3
    <3> QED BY <1>1, <3>2, <3>3
  <2> QED BY <1>1, <2>1, <2>2
<1>3. \A i \in 0 .. n - 1 : 1 + i * step <= count - 1 /\ i * step \in Nat
  <2> TAKE i \in 0 .. n - 1
  <2>1. CASE n = 10
    BY <1>2, <2>1
  <2>2. CASE n < 10
    BY <1>1, <1>2, <2>2
  <2> QED BY <1>1, <2>1, <2>2
<1>4. \A i \in 0 .. n - 1 : SampleIndex(count, i) = 1 + i * step
  BY <1>3 DEF SampleIndex, Smaller
<1>5. \A i, j \in 0 .. n - 1 : i < j => i * step < j * step
  <2> TAKE i, j \in 0 .. n - 1
  <2>1. CASE n = 10
    BY <1>2, <2>1
  <2>2. CASE n < 10
    BY <1>2, <2>2
  <2> QED BY <1>1, <2>1, <2>2
<1>6. 1 + (n - 1) * step >= count - 9
  BY <1>1, <1>2
<1> HIDE DEF n, step
<1>7. \A i \in 0 .. n - 1 : SampleIndex(count, i) \in 1 .. count - 1
  BY <1>1, <1>2, <1>3, <1>4
<1>8. \A i, j \in 0 .. n - 1 : i < j => SampleIndex(count, i) < SampleIndex(count, j)
  BY <1>1, <1>2, <1>3, <1>4, <1>5
<1>9. SampleIndex(count, n - 1) >= count - 9
  BY <1>1, <1>4, <1>6
<1> QED BY <1>7, <1>8, <1>9 DEF n
-----------------------------------------------------------------------------
(* COCO: the ids and the names of a document. *)

\* A record gets an id that no earlier one has.
LEMMA ReserveFacts ==
  ASSUME NEW ids, IsAllocator(ids), NEW preferred, IsId(preferred)
  PROVE  LET given == Reserve(ids, preferred)
         IN  /\ IsAllocator(given) /\ given.id \in Nat /\ given.id \notin ids.used
             /\ given.used = ids.used \cup {given.id}
<1>1. (IF IsInt(preferred) THEN preferred[2] ELSE NoId) \in Int
  BY DEF IsId, NoId
<1>2. QED BY <1>1, AllocateIsFresh DEF Reserve

\* The annotations of a document: their ids were given, each to one of them; their images are there.
IsRowOf(det) == IsId(det.id) /\ IsCategory(det.cat) /\ IsCategory(det.src)
AnnotationsOK(rows, used, images) ==
  /\ IsSequence(rows) /\ \A i \in DOMAIN rows : IsCategory(rows[i].cat)
  /\ \A i \in DOMAIN rows : \E n \in used : rows[i].id = IntId(n)
  /\ \A i, j \in DOMAIN rows : rows[i].id = rows[j].id => i = j
  /\ \A i \in DOMAIN rows : rows[i].image \in images

LEMMA AnnotationObjectFacts ==
  ASSUME NEW det, IsRowOf(det), NEW image, NEW ids, IsAllocator(ids), NEW rows, NEW images,
         image \in images, AnnotationsOK(rows, ids.used, images)
  PROVE  LET one == AnnotationObject(det, image, ids)
         IN  IsAllocator(one.ids) /\ AnnotationsOK(rows \o one.row, one.ids.used, images)
<1> DEFINE given == Reserve(ids, det.id)
           cat == IF IsInt(det.cat) THEN det.cat ELSE det.src
           row == [id |-> IntId(given.id), image |-> image, cat |-> cat, box |-> det.box]
<1>1. /\ IsAllocator(given) /\ given.id \in Nat /\ given.id \notin ids.used
      /\ given.used = ids.used \cup {given.id}
  BY ReserveFacts DEF IsRowOf
<1>2. IsSequence(rows) /\ Len(rows) \in Nat /\ DOMAIN rows = 1 .. Len(rows)
  BY SequenceFacts DEF AnnotationsOK
<1>3. CASE IsInt(cat) /\ Area(det.box)
  <2> HIDE DEF given
  <2>1. AnnotationObject(det, image, ids) = [ids |-> given, row |-> <<row>>]
    BY <1>3 DEF AnnotationObject, given
  <2>2. row.id = IntId(given.id) /\ row.image = image /\ row.cat = cat
    OBVIOUS
  <2> HIDE DEF row
  <2>3. IsSequence(<<row>>) /\ Len(<<row>>) = 1 /\ <<row>>[1] = row
    BY SingleFacts
  <2> DEFINE all == rows \o <<row>>
  <2>4. /\ IsSequence(all) /\ DOMAIN all = 1 .. Len(rows) + 1
        /\ \A i \in 1 .. Len(rows) : all[i] = rows[i]
        /\ all[Len(rows) + 1] = row
    BY <1>2, <2>3, ConcatFacts
  <2> HIDE DEF all
  <2>5. \A i \in DOMAIN all : i # Len(rows) + 1 => i \in DOMAIN rows /\ all[i] = rows[i]
    BY <1>2, <2>4
  <2>6. \A m \in ids.used : IntId(m) # IntId(given.id)
    BY <1>1 DEF IntId
  <2>7. AnnotationsOK(all, given.used, images)
    <3>1. \A i \in DOMAIN all : \E n \in given.used : all[i].id = IntId(n)
      BY <1>1, <2>2, <2>4, <2>5 DEF AnnotationsOK
    <3>2. \A i, j \in DOMAIN all : all[i].id = all[j].id => i = j
      BY <2>2, <2>4, <2>5, <2>6 DEF AnnotationsOK
    <3>3. \A i \in DOMAIN all : all[i].image \in images
      BY <2>2, <2>4, <2>5 DEF AnnotationsOK
    <3>4. \A i \in DOMAIN all : IsCategory(all[i].cat)
      <4>1. IsCategory(cat)
        BY DEF IsRowOf
      <4> HIDE DEF cat
      <4>2. QED BY <2>2, <2>4, <2>5, <4>1 DEF AnnotationsOK
    <3>5. QED BY <2>4, <3>1, <3>2, <3>3, <3>4 DEF AnnotationsOK
  <2>8. QED BY <1>1, <2>1, <2>7 DEF all
<1>4. CASE ~(IsInt(cat) /\ Area(det.box))
  <2>1. AnnotationObject(det, image, ids) = [ids |-> ids, row |-> <<>>]
    BY <1>4 DEF AnnotationObject
  <2>2. rows \o <<>> = rows
    BY DEF AnnotationsOK, IsSequence
  <2>3. QED BY <2>1, <2>2
<1>5. QED BY <1>3, <1>4
\* The rows of one more detection.
AnnotationStep(a, det, image) ==
  LET one == AnnotationObject(det, image, a.ids)
  IN  [a EXCEPT !.ids = one.ids, !.annotations = @ \o one.row]

\* What the loop keeps while it goes through the samples.
IsAcc(acc) == {"seen", "names", "images", "annotations", "files", "ids", "assigned"} \subseteq DOMAIN acc

\* What the loop over the detections of a sample keeps of the state it began with.
AddsRows(a, acc, images) ==
  /\ IsAcc(a)
  /\ a.seen = acc.seen /\ a.names = acc.names /\ a.images = acc.images
  /\ a.files = acc.files /\ a.assigned = acc.assigned
  /\ IsAllocator(a.ids) /\ AnnotationsOK(a.annotations, a.ids.used, images)

\* The loop over detections, and the search for a name that is free without regard to case.
AnnotationTurn(a, det, image, acc, images, t) == AnnotationStep(a, det, image)
AnnotationInv(k, a, image, acc, images, t) == AddsRows(a, acc, images)
FreeFolded(c, used, q, r) == Casefold(c) \notin used
RowsLoop == INSTANCE Loops WITH Body <- AnnotationTurn, Inv <- AnnotationInv, Free <- FreeFolded, Counted <- Candidate

\* Copies get a name that is free without regard to case.
LEMMA UniqueFileNameFacts ==
  ASSUME NEW name, IsName(name), NEW used, IsFiniteSet(used)
  PROVE  Casefold(UniqueFileName(name, used)) \notin used /\ IsName(UniqueFileName(name, used))
<1> DEFINE count == [c \in used |-> c.count]
           counts == {count[c] : c \in used}
<1>1. IsFiniteSet(counts)
  <2> HIDE DEF count
  <2>1. QED BY FiniteImage
<1>2. PICK some \in Nat : some >= 1 /\ Candidate(name, some).count \notin counts
  <2> HIDE DEF counts
  <2>1. QED BY <1>1, SomeCount
<1>3. FreeFolded(Candidate(name, some), used, 0, 0)
  <2>1. Casefold(Candidate(name, some)).count = Candidate(name, some).count
    BY CandidateFacts DEF Casefold, IsName
  <2>2. QED BY <1>2, <2>1 DEF FreeFolded
<1>4. PICK m \in Nat : /\ m >= 1 /\ RowsLoop!Search(name, used, 0, 0) = Candidate(name, m)
                       /\ FreeFolded(Candidate(name, m), used, 0, 0)
  BY <1>2, <1>3, RowsLoop!SearchFinds
<1>5. UniqueFileName(name, used) = RowsLoop!Search(name, used, 0, 0)
  BY DEF UniqueFileName, FirstFree, RowsLoop!Search, FreeFolded
<1>6. QED BY <1>4, <1>5, CandidateFacts DEF FreeFolded

\* The annotations of a sample are added, the rest stays.
LEMMA AnnotationObjectsFacts ==
  ASSUME NEW acc, IsAcc(acc), IsAllocator(acc.ids), NEW images, NEW image \in images,
         AnnotationsOK(acc.annotations, acc.ids.used, images),
         NEW dets, IsSequence(dets), \A i \in DOMAIN dets : IsRowOf(dets[i])
  PROVE  LET done == AnnotationObjects(acc, dets, image)
         IN  /\ IsAcc(done)
             /\ done.seen = acc.seen /\ done.names = acc.names /\ done.images = acc.images
             /\ done.files = acc.files /\ done.assigned = acc.assigned
             /\ IsAllocator(done.ids) /\ AnnotationsOK(done.annotations, done.ids.used, images)
<1>1. Len(dets) \in Nat /\ DOMAIN dets = 1 .. Len(dets)
  BY SequenceFacts
<1>2. ASSUME NEW a, AddsRows(a, acc, images), NEW i \in DOMAIN dets
      PROVE  AddsRows(AnnotationStep(a, dets[i], image), acc, images)
  <2> DEFINE one == AnnotationObject(dets[i], image, a.ids)
  <2>1. IsAllocator(one.ids) /\ AnnotationsOK(a.annotations \o one.row, one.ids.used, images)
    BY <1>2, AnnotationObjectFacts DEF AddsRows
  <2>2. AnnotationStep(a, dets[i], image) = [a EXCEPT !.ids = one.ids, !.annotations = a.annotations \o one.row]
    BY DEF AnnotationStep
  <2> HIDE DEF one
  <2>3. LET b == AnnotationStep(a, dets[i], image)
        IN  /\ DOMAIN b = DOMAIN a
            /\ b.seen = a.seen /\ b.names = a.names /\ b.images = a.images /\ b.files = a.files
            /\ b.assigned = a.assigned /\ b.ids = one.ids /\ b.annotations = a.annotations \o one.row
    BY <1>2, <2>2 DEF IsAcc, AddsRows
  <2>4. QED BY <1>2, <2>1, <2>3 DEF IsAcc, AddsRows
<1>3. RowsLoop!Keeps(dets, image, acc, images, 0)
  BY <1>2 DEF RowsLoop!Keeps, AnnotationTurn, AnnotationInv
<1>4. AnnotationInv(0, acc, image, acc, images, 0)
  BY DEF AnnotationInv, AddsRows
<1>5. AnnotationInv(Len(dets), RowsLoop!Loop(acc, dets, image, acc, images, 0), image, acc, images, 0)
  BY <1>1, <1>3, <1>4, RowsLoop!LoopInvariant
<1>6. AnnotationObjects(acc, dets, image) = RowsLoop!Loop(acc, dets, image, acc, images, 0)
  BY DEF AnnotationObjects, AnnotationTurn, AnnotationStep, RowsLoop!Loop, FoldLeft, MapThenFoldSet,
         RowsLoop!FoldLeft, RowsLoop!MapThenFoldSet, Max, RowsLoop!Max
<1>7. QED BY <1>5, <1>6 DEF AnnotationInv, AddsRows

\* The images have different ids, those of their samples or new ones, and the copies different names.
\* Numbers is the set of the ids that the samples came with.
ImagesOK(images, seen, names, assigned, include, Numbers) ==
  /\ IsSequence(images) /\ \A i \in DOMAIN images : IsName(images[i].name)
  /\ \A i \in DOMAIN images : \/ images[i].id \in seen /\ \E m \in Numbers : images[i].id = IntId(m)
                              \/ \E m \in assigned.used \ Numbers : images[i].id = IntId(m)
  /\ \A i, j \in DOMAIN images : images[i].id = images[j].id => i = j
  /\ include => /\ \A i \in DOMAIN images : Casefold(images[i].name) \in names
                /\ \A i, j \in DOMAIN images : Casefold(images[i].name) = Casefold(images[j].name) => i = j
CocoInv(acc, include, Numbers) ==
  /\ IsAcc(acc)
  /\ IsAllocator(acc.ids) /\ IsAllocator(acc.assigned) /\ Numbers \subseteq acc.assigned.used
  /\ IsFiniteSet(acc.names)
  /\ ImagesOK(acc.images, acc.seen, acc.names, acc.assigned, include, Numbers)
  /\ AnnotationsOK(acc.annotations, acc.ids.used, IdsOf(acc.images))

\* An image with the id of its sample, which is new, or with an id that was free.
IsNewImage(row, sid, seen, assigned, assigned1, Numbers) ==
  \/ row.id = sid /\ sid \notin seen /\ \E m \in Numbers : sid = IntId(m)
  \/ \E m \in assigned1.used \ (assigned.used \cup Numbers) : row.id = IntId(m)

\* One more image, with an id and a name that no earlier one has.
LEMMA ImageAdded ==
  ASSUME NEW images, NEW seen, NEW names, NEW assigned, NEW include, NEW Numbers,
         ImagesOK(images, seen, names, assigned, include, Numbers),
         NEW row, NEW sid, NEW assigned1, assigned.used \subseteq assigned1.used,
         IsNewImage(row, sid, seen, assigned, assigned1, Numbers),
         IsName(row.name), include => Casefold(row.name) \notin names
  PROVE  ImagesOK(Append(images, row), seen \cup {sid}, names \cup {Casefold(row.name)}, assigned1, include, Numbers)
<1> DEFINE all == Append(images, row)
<1>1. /\ IsSequence(images) /\ Len(images) \in Nat /\ DOMAIN images = 1 .. Len(images)
      /\ IsSequence(all) /\ DOMAIN all = 1 .. Len(images) + 1
      /\ \A i \in 1 .. Len(images) : all[i] = images[i]
      /\ all[Len(images) + 1] = row
  BY SequenceFacts, AppendFacts DEF ImagesOK
<1> HIDE DEF all
<1>2. \A i \in DOMAIN all : i # Len(images) + 1 => i \in DOMAIN images /\ all[i] = images[i]
  BY <1>1
<1>3. \A i \in DOMAIN images : images[i].id # row.id
  <2>1. CASE row.id = sid /\ sid \notin seen /\ \E m \in Numbers : sid = IntId(m)
    BY <2>1 DEF ImagesOK, IntId
  <2>2. CASE \E m \in assigned1.used \ (assigned.used \cup Numbers) : row.id = IntId(m)
    BY <2>2 DEF ImagesOK, IntId
  <2>3. QED BY <2>1, <2>2 DEF IsNewImage
<1>4. ASSUME NEW i \in DOMAIN all
      PROVE  \/ all[i].id \in seen \cup {sid} /\ \E m \in Numbers : all[i].id = IntId(m)
             \/ \E m \in assigned1.used \ Numbers : all[i].id = IntId(m)
  BY <1>1, <1>2 DEF ImagesOK, IsNewImage
<1>5. \A i, j \in DOMAIN all : all[i].id = all[j].id => i = j
  BY <1>1, <1>2, <1>3 DEF ImagesOK
<1>6. ASSUME include
      PROVE  /\ \A i \in DOMAIN all : Casefold(all[i].name) \in names \cup {Casefold(row.name)}
             /\ \A i, j \in DOMAIN all : Casefold(all[i].name) = Casefold(all[j].name) => i = j
  BY <1>1, <1>2, <1>6 DEF ImagesOK
<1>7. \A i \in DOMAIN all : IsName(all[i].name)
  BY <1>1, <1>2 DEF ImagesOK
<1>8. ImagesOK(all, seen \cup {sid}, names \cup {Casefold(row.name)}, assigned1, include, Numbers)
  BY <1>1, <1>4, <1>5, <1>6, <1>7 DEF ImagesOK
<1>9. QED BY <1>8 DEF all

LEMMA IdsAdded ==
  ASSUME NEW s, IsSequence(s), NEW row
  PROVE  IdsOf(Append(s, row)) = IdsOf(s) \cup {row.id}
BY SequenceFacts, AppendFacts DEF IdsOf

LEMMA MoreImages ==
  ASSUME NEW rows, NEW used, NEW images, AnnotationsOK(rows, used, images), NEW more, images \subseteq more
  PROVE  AnnotationsOK(rows, used, more)
BY DEF AnnotationsOK

\* A sample of a dataset that COCO is written of.
IsCocoSample(sample, Numbers) ==
  /\ IsId(sample.id) /\ (IsInt(sample.id) => sample.id[2] \in Numbers)
  /\ IsSequence(sample.dets) /\ \A i \in DOMAIN sample.dets : IsRowOf(sample.dets[i])

LEMMA WriteSampleFacts ==
  ASSUME NEW acc, NEW include, NEW Numbers, CocoInv(acc, include, Numbers),
         NEW sample, IsCocoSample(sample, Numbers), NEW name, IsName(name)
  PROVE  CocoInv(WriteSample(acc, sample, name, include), include, Numbers)
<1> DEFINE fresh == Reserve(acc.assigned, None)
           id == IF IsInt(sample.id) THEN sample.id ELSE IntId(fresh.id)
           own == IF include THEN UniqueFileName(name, acc.names) ELSE name
           rows == AnnotationObjects(acc, sample.dets, id)
           assigned == IF IsInt(sample.id) THEN acc.assigned ELSE fresh
           row == [id |-> id, name |-> own, dims |-> SampleDims(sample)]
           files == IF include /\ sample.image # None THEN Put(acc.files, own, sample.image) ELSE acc.files
           next == WriteSample(acc, sample, name, include)
<1>1. CASE sample.id \in acc.seen \/ ~Safe(name)
  BY <1>1 DEF WriteSample
<1>2. CASE ~(sample.id \in acc.seen \/ ~Safe(name))
  <2>1. /\ IsAllocator(fresh) /\ fresh.id \in Nat /\ fresh.id \notin acc.assigned.used
        /\ fresh.used = acc.assigned.used \cup {fresh.id}
    <3>1. IsId(None)
      BY DEF IsId, IsInt, None
    <3>2. QED BY <3>1, ReserveFacts DEF CocoInv
  <2> HIDE DEF fresh
  <2>2. IsAllocator(assigned) /\ acc.assigned.used \subseteq assigned.used /\ Numbers \subseteq assigned.used
    BY <2>1 DEF CocoInv
  <2>3. \/ id = sample.id /\ sample.id \notin acc.seen /\ \E m \in Numbers : sample.id = IntId(m)
        \/ \E m \in assigned.used \ (acc.assigned.used \cup Numbers) : id = IntId(m)
    <3>1. CASE IsInt(sample.id)
      BY <1>2, <3>1 DEF IsCocoSample, IsId
    <3>2. CASE ~IsInt(sample.id)
      BY <2>1, <3>2 DEF CocoInv
    <3>3. QED BY <3>1, <3>2
  <2>4. IsName(own) /\ (include => Casefold(own) \notin acc.names)
    BY UniqueFileNameFacts DEF CocoInv
  <2>5. /\ IsAcc(rows)
        /\ rows.seen = acc.seen /\ rows.names = acc.names /\ rows.images = acc.images
        /\ rows.files = acc.files /\ rows.assigned = acc.assigned
        /\ IsAllocator(rows.ids) /\ AnnotationsOK(rows.annotations, rows.ids.used, IdsOf(acc.images) \cup {id})
    <3> HIDE DEF id
    <3>1. AnnotationsOK(acc.annotations, acc.ids.used, IdsOf(acc.images) \cup {id})
      BY MoreImages DEF CocoInv
    <3>2. QED BY <3>1, AnnotationObjectsFacts DEF CocoInv, IsCocoSample
  <2>6. next = [rows EXCEPT !.seen = rows.seen \cup {sample.id}, !.assigned = IF IsInt(sample.id) THEN rows.assigned ELSE fresh,
                            !.names = rows.names \cup {Casefold(own)}, !.images = Append(rows.images, row),
                            !.files = IF include /\ sample.image # None THEN Put(rows.files, own, sample.image) ELSE rows.files]
    BY <1>2 DEF WriteSample, fresh
  <2> HIDE DEF rows, id, own
  <2>7. /\ IsAcc(next)
        /\ next.seen = acc.seen \cup {sample.id} /\ next.names = acc.names \cup {Casefold(own)}
        /\ next.images = Append(acc.images, row) /\ next.annotations = rows.annotations
        /\ next.ids = rows.ids /\ next.assigned = assigned
    <3> HIDE DEF next, row
    <3>1. QED BY <2>5, <2>6 DEF IsAcc
  <2>8. row.id = id /\ row.name = own
    OBVIOUS
  <2> HIDE DEF row, next, assigned, files
  <2>9. /\ ImagesOK(Append(acc.images, row), acc.seen \cup {sample.id}, acc.names \cup {Casefold(own)}, assigned, include, Numbers)
        /\ IdsOf(Append(acc.images, row)) = IdsOf(acc.images) \cup {id}
    <3>1. ImagesOK(acc.images, acc.seen, acc.names, acc.assigned, include, Numbers)
      BY DEF CocoInv
    <3>2. acc.assigned.used \subseteq assigned.used
      BY <2>2
    <3>3. IsName(row.name) /\ (include => Casefold(row.name) \notin acc.names)
      BY <2>4, <2>8
    <3>4. IsNewImage(row, sample.id, acc.seen, acc.assigned, assigned, Numbers)
      BY <2>3, <2>8 DEF IsNewImage
    <3>5. ImagesOK(Append(acc.images, row), acc.seen \cup {sample.id}, acc.names \cup {Casefold(row.name)}, assigned, include, Numbers)
      BY <3>1, <3>2, <3>3, <3>4, ImageAdded
    <3>6. IdsOf(Append(acc.images, row)) = IdsOf(acc.images) \cup {row.id}
      BY <3>1, IdsAdded DEF ImagesOK
    <3>7. QED BY <2>8, <3>5, <3>6
  <2>10. IsFiniteSet(acc.names \cup {Casefold(own)})
    BY FS_AddElement DEF CocoInv
  <2>11. CocoInv(next, include, Numbers)
    BY <2>2, <2>5, <2>7, <2>9, <2>10 DEF CocoInv
  <2>12. QED BY <2>11 DEF next
<1>3. QED BY <1>1, <1>2

\* The loop over the samples.
CocoTurn(a, i, ds, names, include, Numbers) == WriteSample(a, ds.samples[i], names[i], include)
CocoTurnInv(k, a, ds, names, include, Numbers) == CocoInv(a, include, Numbers)
ImagesLoop == INSTANCE Loops WITH Body <- CocoTurn, Inv <- CocoTurnInv, Free <- FreeFolded, Counted <- Candidate

\* A name in another directory or with another extension is a name.
LEMMA NameElsewhere ==
  ASSUME NEW name, IsName(name), NEW dir
  PROVE  IsName([name EXCEPT !.dir = dir]) /\ [name EXCEPT !.dir = dir].count = name.count
         /\ [name EXCEPT !.dir = dir].stem = name.stem
BY DEF IsName

LEMMA NameWithSuffix ==
  ASSUME NEW name, IsName(name), NEW ext
  PROVE  IsName([name EXCEPT !.ext = ext]) /\ [name EXCEPT !.ext = ext].count = name.count
         /\ [name EXCEPT !.ext = ext].stem = name.stem
BY DEF IsName

LEMMA NameWithStem ==
  ASSUME NEW name, IsName(name), NEW stem
  PROVE  IsName([name EXCEPT !.stem = stem])
BY DEF IsName

LEMMA BaseNameFacts ==
  ASSUME NEW name, IsName(name)
  PROVE  IsName(BaseName(name))
BY NameElsewhere DEF BaseName

LEMMA BelowFacts ==
  ASSUME NEW name, IsName(name), NEW dirs
  PROVE  IsName(Below(dirs, name)) /\ Below(dirs, name).count = name.count /\ Below(dirs, name).stem = name.stem
<1> DEFINE dir == dirs \o name.dir
<1>1. Below(dirs, name) = [name EXCEPT !.dir = dir]
  BY DEF Below
<1> HIDE DEF dir
<1>2. QED BY <1>1, NameElsewhere

LEMMA NoNameFacts == IsName(NoName)
BY EmptyFacts DEF IsName, NoName

\* The names that samples have, copied or not.
LEMMA FileNameFacts ==
  ASSUME NEW samples, NEW include, NEW i \in DOMAIN samples,
         IsName(samples[i].name), IsName(samples[i].path)
  PROVE  IsName(FileNames(samples, include)[i])
<1> DEFINE own == OwnName(samples[i])
           above == Len(CommonPrefix(SourceDirectories(samples)))
           rel == {Below(SubSeq(base, above + 1, Len(base)), own) : base \in SourceDirectory(samples[i])}
           safe == {name \in rel : Safe(name)}
<1>1. IsName(own)
  BY BaseNameFacts, NoNameFacts DEF OwnName
<1>2. \/ FileNames(samples, include)[i] = own
      \/ safe # {} /\ FileNames(samples, include)[i] = CHOOSE name \in safe : TRUE
  BY DEF FileNames
<1> HIDE DEF own
<1>3. \A name \in rel : IsName(name)
  BY <1>1, BelowFacts
<1> HIDE DEF rel
<1>4. safe # {} => (CHOOSE name \in safe : TRUE) \in rel
  OBVIOUS
<1>5. QED BY <1>1, <1>2, <1>3, <1>4

\* The document that is written of a dataset, whatever the root held: the ids of its images and of
\* its annotations are unique, every annotation is of an image of it, and no two copies have names
\* that differ in case only.  It is a document that the loader can read.
THEOREM CocoDocumentResolves ==
  ASSUME NEW ds, ds.task = "od" /\ DatasetOK(ds), NEW existing, NEW include
  PROVE  CocoResolves(CocoWrite(ds, existing, include), include) /\ IsCocoRoot(CocoWrite(ds, existing, include))
<1> DEFINE names == FileNames(ds.samples, include)
           Ints == {i \in DOMAIN ds.samples : IsInt(ds.samples[i].id)}
           Numbers == {ds.samples[i].id[2] : i \in {j \in DOMAIN ds.samples : IsInt(ds.samples[j].id)}}
           start == [seen |-> {}, names |-> {}, images |-> <<>>, annotations |-> <<>>, files |-> existing.files,
                     ids |-> Allocator({}), assigned |-> Allocator(Numbers)]
           done == ImagesLoop!Loop(start, Indices(ds.samples), ds, names, include, Numbers)
           n == Len(ds.samples)
<1>1. n \in Nat /\ DOMAIN ds.samples = 1 .. n
  BY SequenceFacts DEF DatasetOK, IsDataset, IsDetections
<1> HIDE DEF n
<1>2. IsFiniteSet(Numbers) /\ Numbers \in SUBSET Int
  <2>1. IsFiniteSet(1 .. n)
    BY <1>1, FiniteRange
  <2>2. Ints \subseteq 1 .. n /\ IsFiniteSet(Ints)
    BY <1>1, <2>1, FS_Subset
  <2> DEFINE f == [i \in DOMAIN ds.samples |-> ds.samples[i].id[2]]
  <2>3. Numbers = {f[i] : i \in Ints}
    OBVIOUS
  <2> HIDE DEF Ints, f
  <2>4. IsFiniteSet({f[i] : i \in Ints})
    BY <2>2, FiniteImage
  <2>5. Numbers \in SUBSET Int
    BY DEF DatasetOK, IsId
  <2>6. QED BY <2>3, <2>4, <2>5
<1>3. CocoInv(start, include, Numbers)
  <2>1. IsAllocator(Allocator({})) /\ IsAllocator(Allocator(Numbers)) /\ Numbers \subseteq Allocator(Numbers).used
    BY <1>2, FirstAllocator, FS_EmptySet DEF Allocator
  <2>2. <<>> \in Seq({}) /\ DOMAIN <<>> = {}
    OBVIOUS
  <2>3. IsSequence(<<>>)
    BY <2>2, SequenceOf
  <2> HIDE DEF Numbers
  <2>4. ImagesOK(<<>>, {}, {}, Allocator(Numbers), include, Numbers)
    BY <2>2, <2>3 DEF ImagesOK
  <2>5. AnnotationsOK(<<>>, Allocator({}).used, IdsOf(<<>>))
    BY <2>2, <2>3 DEF AnnotationsOK
  <2>6. IsAcc(start)
    BY DEF IsAcc
  <2>7. QED BY <2>1, <2>4, <2>5, <2>6, FS_EmptySet DEF CocoInv
<1> HIDE DEF start
<1>4. ASSUME NEW a, CocoInv(a, include, Numbers), NEW i \in DOMAIN ds.samples
      PROVE  CocoInv(CocoTurn(a, i, ds, names, include, Numbers), include, Numbers)
  <2>1. IsCocoSample(ds.samples[i], Numbers)
    BY DEF DatasetOK, IsDataset, IsDetections, IsCocoSample, IsRowOf
  <2>2. IsName(names[i])
    BY FileNameFacts DEF DatasetOK, IsDataset
  <2> HIDE DEF names, Numbers
  <2>3. QED BY <1>4, <2>1, <2>2, WriteSampleFacts DEF CocoTurn
<1> HIDE DEF names, Numbers
<1>5. CocoInv(done, include, Numbers)
  <2>1. DOMAIN Indices(ds.samples) = 1 .. n /\ \A i \in 1 .. n : Indices(ds.samples)[i] = i
    BY <1>1 DEF Indices
  <2>2. ImagesLoop!Keeps(Indices(ds.samples), ds, names, include, Numbers)
    BY <1>1, <1>4, <2>1 DEF ImagesLoop!Keeps, CocoTurnInv
  <2>3. CocoTurnInv(0, start, ds, names, include, Numbers)
    BY <1>3 DEF CocoTurnInv
  <2>4. CocoTurnInv(n, done, ds, names, include, Numbers)
    BY <1>1, <2>1, <2>2, <2>3, ImagesLoop!LoopInvariant
  <2>5. QED BY <2>4 DEF CocoTurnInv
<1>6. /\ CocoWrite(ds, existing, include).images = done.images
      /\ CocoWrite(ds, existing, include).annotations = done.annotations
  BY DEF CocoWrite, CocoTurn, Indices, start, names, Numbers, ImagesLoop!Loop, FoldLeft, MapThenFoldSet,
         ImagesLoop!FoldLeft, ImagesLoop!MapThenFoldSet, Max, ImagesLoop!Max
<1> HIDE DEF done
<1>7. CocoResolves(CocoWrite(ds, existing, include), include)
  BY <1>5, <1>6 DEF CocoResolves, CocoInv, ImagesOK, AnnotationsOK, Distinct, ToSet, IsSequence
<1>8. IsCocoRoot(CocoWrite(ds, existing, include))
  <2>1. \A m \in Int : IsId(IntId(m))
    BY DEF IsId, IntId
  <2>2. /\ done.assigned.used \subseteq Int /\ done.ids.used \subseteq Int
        /\ ImagesOK(done.images, done.seen, done.names, done.assigned, include, Numbers)
        /\ AnnotationsOK(done.annotations, done.ids.used, IdsOf(done.images))
    BY <1>5 DEF CocoInv, IsAllocator
  <2>3. /\ IsSequence(done.images)
        /\ \A i \in DOMAIN done.images : IsName(done.images[i].name) /\ IsId(done.images[i].id)
    BY <1>2, <2>1, <2>2 DEF ImagesOK
  <2>4. /\ IsSequence(done.annotations)
        /\ \A i \in DOMAIN done.annotations : IsId(done.annotations[i].id) /\ IsCategory(done.annotations[i].cat)
    BY <2>1, <2>2 DEF AnnotationsOK
  <2>5. IsSequence(CocoWrite(ds, existing, include).categories)
    <3> DEFINE entries == ds.entries
               parts == [i \in DOMAIN entries |-> IF IsInt(entries[i].id) THEN <<entries[i]>> ELSE <<>>]
    <3>1. CocoWrite(ds, existing, include).categories = FlattenSeq(parts)
      BY DEF CocoWrite, CategoryObjects, Keep, Collect
    <3>2. IsSequence(entries)
      BY DEF DatasetOK, IsDataset
    <3> HIDE DEF entries
    <3>3. /\ parts = [i \in DOMAIN entries |-> parts[i]]
          /\ \A i \in DOMAIN entries : parts[i] = <<>> \/ parts[i] = <<entries[i]>>
      OBVIOUS
    <3> HIDE DEF parts
    <3>4. IsSequence(FlattenSeq(parts))
      BY <3>2, <3>3, CollectFacts
    <3>5. QED BY <3>1, <3>4
  <2>6. QED BY <1>6, <2>3, <2>4, <2>5 DEF IsCocoRoot
<1>9. QED BY <1>7, <1>8
-----------------------------------------------------------------------------
(* Files and names. *)

\* What is in a directory is still there later, as it was.
Extends(more, images) == \A file \in DOMAIN images : file \in DOMAIN more /\ more[file] = images[file]

LEMMA ImagesPut ==
  ASSUME NEW images, IsImages(images), NEW file, IsName(file), NEW image
  PROVE  IsImages(Put(images, file, image))
<1>1. DOMAIN Put(images, file, image) = DOMAIN images \cup {file}
  BY DEF Put
<1>2. QED BY <1>1, FS_AddElement DEF IsImages

LEMMA ExtendsPut ==
  ASSUME NEW more, NEW images, Extends(more, images), NEW file, file \notin DOMAIN more, NEW image
  PROVE  Extends(Put(more, file, image), images)
BY DEF Extends, Put

\* A name that is counted until no file of a finite set has it.
LEMMA FreeNameFacts ==
  ASSUME NEW name, IsName(name), NEW used, IsFiniteSet(used)
  PROVE  IsName(Names!Search(name, used, 0, 0)) /\ Names!Search(name, used, 0, 0) \notin used
<1> DEFINE count == [c \in used |-> c.count]
           counts == {count[c] : c \in used}
<1>1. IsFiniteSet(counts)
  <2> HIDE DEF count
  <2>1. QED BY FiniteImage
<1>2. PICK some \in Nat : some >= 1 /\ Candidate(name, some).count \notin counts
  <2> HIDE DEF counts
  <2>1. QED BY <1>1, SomeCount
<1>3. NotIn(Candidate(name, some), used, 0, 0)
  BY <1>2 DEF NotIn
<1>4. PICK m \in Nat : m >= 1 /\ Names!Search(name, used, 0, 0) = Candidate(name, m) /\ NotIn(Candidate(name, m), used, 0, 0)
  BY <1>2, <1>3, Names!SearchFinds
<1>5. QED BY <1>4, CandidateFacts DEF NotIn

LEMMA HfFileNameFacts ==
  ASSUME NEW sample, IsName(sample.name), IsName(sample.path)
  PROVE  IsName(HfFileName(sample))
<1>1. IsName([NoName EXCEPT !.stem = "id", !.ext = "jpg"])
  BY NoNameFacts, NameWithStem, NameWithSuffix
<1>2. QED BY <1>1, BaseNameFacts DEF HfFileName

-----------------------------------------------------------------------------
(* Flat directories of images. *)

FlatTurn(a, sample, p, q, r, t) == FlatWriteSample(a, sample)
FlatInv(k, a, p, q, r, t) == IsFiniteSet(a.used) /\ IsImages(a.images)
FlatLoop == INSTANCE Loops WITH Body <- FlatTurn, Inv <- FlatInv, Free <- NotIn, Counted <- Candidate

LEMMA FlatWriteFacts ==
  ASSUME NEW ds, IsDataset(ds), NEW existing, IsImages(existing.images)
  PROVE  IsImages(FlatWrite(ds, existing).images)
<1> DEFINE start == [used |-> {}, images |-> existing.images]
           done == FlatLoop!Loop(start, ds.samples, 0, 0, 0, 0)
           n == Len(ds.samples)
<1>1. n \in Nat /\ DOMAIN ds.samples = 1 .. n
  BY SequenceFacts DEF IsDataset
<1> HIDE DEF n
<1>2. FlatInv(0, start, 0, 0, 0, 0)
  BY FS_EmptySet DEF FlatInv
<1>3. ASSUME NEW a, NEW i \in DOMAIN ds.samples, FlatInv(i - 1, a, 0, 0, 0, 0)
      PROVE  FlatInv(i, FlatTurn(a, ds.samples[i], 0, 0, 0, 0), 0, 0, 0, 0)
  <2> DEFINE s == ds.samples[i]
             raw == HfFileName(s)
             target == FirstFree(raw, LAMBDA c : c \notin a.used)
  <2>1. IsName(raw)
    BY HfFileNameFacts DEF IsDataset
  <2> HIDE DEF raw
  <2>2. target = Names!Search(raw, a.used, 0, 0)
    BY DEF FirstFree, Names!Search, NotIn
  <2> HIDE DEF target
  <2>3. IsName(target)
    BY <1>3, <2>1, <2>2, FreeNameFacts DEF FlatInv
  <2>4. IsFiniteSet(a.used \cup {target}) /\ IsImages(Put(a.images, target, s.image))
    BY <1>3, <2>3, FS_AddElement, ImagesPut DEF FlatInv
  <2>5. FlatWriteSample(a, s) \in {a, [used |-> a.used \cup {target}, images |-> Put(a.images, target, s.image)]}
    BY DEF FlatWriteSample, raw, target
  <2> HIDE DEF s
  <2>6. QED BY <1>3, <2>4, <2>5 DEF FlatInv, FlatTurn, s
<1>4. FlatLoop!Keeps(ds.samples, 0, 0, 0, 0)
  BY <1>3 DEF FlatLoop!Keeps
<1> HIDE DEF start
<1>5. FlatInv(n, done, 0, 0, 0, 0)
  BY <1>1, <1>2, <1>4, FlatLoop!LoopInvariant
<1>6. FlatWrite(ds, existing).images = done.images
  BY DEF FlatWrite, FlatTurn, start, FlatLoop!Loop, FoldLeft, MapThenFoldSet,
         FlatLoop!FoldLeft, FlatLoop!MapThenFoldSet, Max, FlatLoop!Max
<1>7. QED BY <1>5, <1>6 DEF FlatInv

LEMMA FlatLoadFacts ==
  ASSUME NEW root, IsImages(root.images)
  PROVE  DatasetOK(FlatLoad(root)) /\ TaxonomyOK(FlatLoad(root))
<1> DEFINE found == {p \in DOMAIN root.images : p.dir = <<>> /\ p.ext \in FlatExtensions /\ root.images[p][2] = p.ext}
           paths == InOrder(found)
           ds == FlatLoad(root)
<1>1. IsFiniteSet(found) /\ \A p \in found : IsName(p)
  BY FS_Subset DEF IsImages
<1> HIDE DEF found
<1>2. IsSequence(paths) /\ \A i \in DOMAIN paths : IsName(paths[i])
  BY <1>1, InOrderFacts
<1>3. /\ ds.task = "od" /\ ds.entries = <<>> /\ ds.splits = {} /\ ~ds.dense
      /\ ds.samples = [i \in DOMAIN paths |-> ds.samples[i]]
      /\ \A i \in DOMAIN paths : /\ ds.samples[i].id = StrId(paths[i]) /\ ds.samples[i].name = paths[i]
                                 /\ ds.samples[i].path = Below(<<"flat">>, paths[i]) /\ ds.samples[i].dets = <<>>
  BY DEF FlatLoad, Dataset, found
<1> HIDE DEF ds, paths
<1>4. IsSequence(ds.samples) /\ DOMAIN ds.samples = DOMAIN paths
  BY <1>2, <1>3, MapFacts
<1>5. \A i \in DOMAIN paths : IsName(Below(<<"flat">>, paths[i]))
  BY <1>2, BelowFacts
<1>6. \A x : IsId(StrId(x))
  BY DEF IsId, IsInt, StrId
<1>7. IsDataset(ds)
  BY <1>2, <1>3, <1>4, <1>5, EmptyFacts, FS_EmptySet DEF IsDataset
<1>8. \A i \in DOMAIN ds.samples : IsId(ds.samples[i].id) /\ IsDetections(ds.samples[i].dets)
  BY <1>3, <1>4, <1>6, EmptyFacts DEF IsDetections
<1>9. TaxonomyOK(ds)
  BY <1>3, <1>4, EmptyFacts DEF TaxonomyOK, DistinctIds
<1>10. QED BY <1>3, <1>7, <1>8, <1>9 DEF DatasetOK, ds

-----------------------------------------------------------------------------
(* Hugging Face vision repositories. *)

HfIcTurn(a, sample, ds, fallback, images, t) == HfIcWriteSample(a, sample, ds, fallback)
HfIcInv(k, a, ds, fallback, images, t) == IsHfRoot(a) /\ Extends(a.images, images)
HfIcLoop == INSTANCE Loops WITH Body <- HfIcTurn, Inv <- HfIcInv, Free <- NotIn, Counted <- Candidate

\* The writer of classes puts each image where no file is, and leaves the others and the metadata.
LEMMA HfWriteIcFacts ==
  ASSUME NEW ds, IsDataset(ds), NEW existing, IsHfRoot(existing), NEW fallback
  PROVE  IsHfRoot(HfWriteIc(ds, existing, fallback)) /\ Extends(HfWriteIc(ds, existing, fallback).images, existing.images)
<1> DEFINE images == existing.images
           done == HfIcLoop!Loop(existing, ds.samples, ds, fallback, images, 0)
           n == Len(ds.samples)
<1>1. n \in Nat /\ DOMAIN ds.samples = 1 .. n
  BY SequenceFacts DEF IsDataset
<1> HIDE DEF n
<1>2. HfIcInv(0, existing, ds, fallback, images, 0)
  BY DEF HfIcInv, Extends
<1>3. ASSUME NEW a, NEW i \in DOMAIN ds.samples, HfIcInv(i - 1, a, ds, fallback, images, 0)
      PROVE  HfIcInv(i, HfIcTurn(a, ds.samples[i], ds, fallback, images, 0), ds, fallback, images, 0)
  <2> DEFINE s == ds.samples[i]
             class == ClassName(s.labels[1], ds)
             split == IF HfSplit(s.split) # "" THEN HfSplit(s.split) ELSE fallback
             name == Below(<<split, class>>, HfFileName(s))
             target == FirstFree(name, LAMBDA c : c \notin DOMAIN a.images)
             more == Put(a.images, target, s.image)
  <2>1. IsName(name)
    BY HfFileNameFacts, BelowFacts DEF IsDataset
  <2>2. HfIcWriteSample(a, s, ds, fallback) \in {a, [a EXCEPT !.images = more]}
    BY DEF HfIcWriteSample
  <2> HIDE DEF name, more
  <2>3. target = Names!Search(name, DOMAIN a.images, 0, 0)
    BY DEF FirstFree, Names!Search, NotIn
  <2> HIDE DEF target
  <2>4. IsName(target) /\ target \notin DOMAIN a.images
    BY <1>3, <2>1, <2>3, FreeNameFacts DEF HfIcInv, IsHfRoot, IsImages
  <2>5. IsImages(more) /\ Extends(more, images)
    BY <1>3, <2>4, ImagesPut, ExtendsPut DEF HfIcInv, IsHfRoot, more
  <2> HIDE DEF s
  <2>6. QED BY <1>3, <2>2, <2>5 DEF HfIcInv, HfIcTurn, IsHfRoot, s
<1>4. HfIcLoop!Keeps(ds.samples, ds, fallback, images, 0)
  BY <1>3 DEF HfIcLoop!Keeps
<1>5. HfIcInv(n, done, ds, fallback, images, 0)
  BY <1>1, <1>2, <1>4, HfIcLoop!LoopInvariant
<1>6. HfWriteIc(ds, existing, fallback) = done
  BY DEF HfWriteIc, HfIcTurn, HfIcLoop!Loop, FoldLeft, MapThenFoldSet,
         HfIcLoop!FoldLeft, HfIcLoop!MapThenFoldSet, Max, HfIcLoop!Max
<1>7. QED BY <1>5, <1>6 DEF HfIcInv

\* The rows of the files that the writer of detections makes.
IsRow(row) ==
  /\ IsSequence(row.boxes) /\ \A j \in DOMAIN row.ids : IsId(row.ids[j])
  /\ \A j \in DOMAIN row.categories : IsCategory(row.categories[j])
AreRows(rows) == IsSequence(rows) /\ \A i \in DOMAIN rows : IsRow(rows[i])

LEMMA CategoryValueFacts ==
  ASSUME NEW det, IsCategory(det.cat), IsCategory(det.src), NEW ds
  PROVE  IsCategory(CategoryValue(det, ds))
<1>1. \/ CategoryValue(det, ds) \in {det.cat, det.src}
      \/ \E x : CategoryValue(det, ds) = StrId(x)
  BY DEF CategoryValue, SourceIdOf
<1>2. QED BY <1>1, CategoryFacts

HfOdTurn(a, sample, ds, fallback, preserve, t) == HfOdWriteSample(a, sample, ds, fallback, preserve)
HfOdInv(k, a, ds, fallback, preserve, t) ==
  /\ IsFiniteSet(a.used) /\ IsImages(a.images) /\ IsFiniteSet(DOMAIN a.rows)
  /\ \A dir \in DOMAIN a.rows : AreRows(a.rows[dir])
HfOdLoop == INSTANCE Loops WITH Body <- HfOdTurn, Inv <- HfOdInv, Free <- NotIn, Counted <- Candidate

LEMMA HfOdTurnFacts ==
  ASSUME NEW a, NEW s, IsName(s.name), IsName(s.path), IsDetections(s.dets),
         NEW ds, NEW fallback, NEW preserve, HfOdInv(0, a, ds, fallback, preserve, 0)
  PROVE  HfOdInv(0, HfOdWriteSample(a, s, ds, fallback, preserve), ds, fallback, preserve, 0)
<1> DEFINE own == HfSplit(s.split)
           split == IF preserve /\ own # "" THEN own ELSE fallback
           dir == IF split = "" THEN "data" ELSE split
           slug == [HfFileName(s) EXCEPT !.stem = IF @ = ".hidden" THEN "hidden" ELSE @]
           name == Below(<<dir>>, slug)
           first == FirstFree(name, LAMBDA c : c \notin a.used)
           once == a.used \cup {first}
           other == Candidate(name, 0)
           copy == FirstFree(other, LAMBDA c : c \notin a.used \cup {first})
           target == IF s.path = Below(<<"dest">>, first) THEN copy ELSE first
           used == a.used \cup {first, target}
           boxes == [i \in DOMAIN s.dets |-> s.dets[i].box]
           ids == [i \in DOMAIN s.dets |-> s.dets[i].id]
           categories == [i \in DOMAIN s.dets |-> CategoryValue(s.dets[i], ds)]
           row == [file |-> BaseName(target), dims |-> s.dims, label |-> None, boxes |-> boxes,
                   categories |-> categories, ids |-> ids]
           had == IF dir \in DOMAIN a.rows THEN a.rows[dir] ELSE <<>>
           rows == Put(a.rows, dir, had \o <<row>>)
           images == Put(a.images, target, s.image)
<1>1. IsName(name)
  <2>1. \E stem : slug = [HfFileName(s) EXCEPT !.stem = stem]
    OBVIOUS
  <2> HIDE DEF slug
  <2>2. IsName(slug)
    BY <2>1, HfFileNameFacts, NameWithStem
  <2>3. QED BY <2>2, BelowFacts
<1>2. HfOdWriteSample(a, s, ds, fallback, preserve)
        \in {a, [used |-> used, images |-> images, rows |-> rows]}
  BY DEF HfOdWriteSample
<1> HIDE DEF name
<1>3. /\ first = Names!Search(name, a.used, 0, 0)
      /\ copy = Names!Search(other, once, 0, 0)
  BY DEF FirstFree, Names!Search, NotIn
<1>4. IsRow(row)
  <2>1. IsSequence(s.dets) /\ \A i \in DOMAIN s.dets : IsId(s.dets[i].id)
    BY DEF IsDetections
  <2>2. boxes = [i \in DOMAIN s.dets |-> boxes[i]]
    OBVIOUS
  <2>3. \A i \in DOMAIN ids : IsId(ids[i])
    BY <2>1
  <2>4. row.boxes = boxes /\ row.ids = ids /\ row.categories = categories
    OBVIOUS
  <2>5. \A i \in DOMAIN categories : IsCategory(categories[i])
    BY CategoryValueFacts DEF IsDetections
  <2> HIDE DEF boxes, ids, categories, row
  <2>6. IsSequence(boxes)
    BY <2>1, <2>2, MapFacts
  <2>7. QED BY <2>3, <2>4, <2>5, <2>6 DEF IsRow
<1>5. IsName(target)
  <2>1. IsName(first)
    BY <1>1, <1>3, FreeNameFacts DEF HfOdInv
  <2>2. IsName(other) /\ IsFiniteSet(once)
    BY <1>1, CandidateFacts, FS_AddElement DEF HfOdInv
  <2> HIDE DEF first, once, other, copy
  <2>3. IsName(copy)
    BY <1>3, <2>2, FreeNameFacts
  <2>4. QED BY <2>1, <2>3
<1> HIDE DEF target, row, first, once, other, copy
<1>6. IsImages(images) /\ IsFiniteSet(used)
  <2>1. used = (a.used \cup {first}) \cup {target}
    OBVIOUS
  <2>2. QED BY <1>5, <2>1, ImagesPut, FS_AddElement DEF HfOdInv
<1> HIDE DEF used
<1> HIDE DEF dir
<1>7. AreRows(had)
  BY EmptyFacts DEF HfOdInv, AreRows
<1> HIDE DEF had
<1>8. AreRows(had \o <<row>>)
  <2> DEFINE one == <<row>>
             all == had \o one
  <2>1. IsSequence(one) /\ Len(one) = 1 /\ one[1] = row
    BY SingleFacts
  <2>2. IsSequence(had) /\ Len(had) \in Nat /\ DOMAIN had = 1 .. Len(had)
    BY <1>7, SequenceFacts DEF AreRows
  <2> HIDE DEF one
  <2>3. /\ IsSequence(all) /\ DOMAIN all = 1 .. Len(had) + Len(one)
        /\ \A i \in 1 .. Len(had) : all[i] = had[i]
        /\ \A i \in 1 .. Len(one) : all[Len(had) + i] = one[i]
    <3>1. IsSequence(had) /\ IsSequence(one)
      BY <2>1, <2>2
    <3>2. QED BY <3>1, ConcatFacts
  <2> HIDE DEF all
  <2>4. all[Len(had) + 1] = row /\ DOMAIN all = 1 .. Len(had) + 1
    BY <2>1, <2>3
  <2>5. \A i \in DOMAIN all : i # Len(had) + 1 => i \in DOMAIN had /\ all[i] = had[i]
    BY <2>2, <2>3, <2>4
  <2>6. AreRows(all)
    BY <1>4, <1>7, <2>3, <2>4, <2>5 DEF AreRows
  <2>7. QED BY <2>6 DEF all, one
<1>9. DOMAIN rows = DOMAIN a.rows \cup {dir} /\ \A d \in DOMAIN rows : AreRows(rows[d])
  <2> DEFINE new == had \o <<row>>
  <2>1. AreRows(new)
    BY <1>8
  <2> HIDE DEF new
  <2>2. rows = Put(a.rows, dir, new)
    BY DEF new
  <2> HIDE DEF rows
  <2>3. QED BY <2>1, <2>2 DEF Put, HfOdInv
<1> HIDE DEF rows, images
<1>10. IsFiniteSet(DOMAIN rows)
  BY <1>9, FS_AddElement DEF HfOdInv
<1>11. QED BY <1>2, <1>6, <1>9, <1>10 DEF HfOdInv

LEMMA HfWriteOdFacts ==
  ASSUME NEW ds, ds.task = "od", DatasetOK(ds), NEW existing, IsHfRoot(existing), NEW fallback, NEW preserve
  PROVE  IsHfRoot(HfWriteOd(ds, existing, fallback, preserve))
<1> DEFINE start == [used |-> {}, images |-> existing.images, rows |-> <<>>]
           done == HfOdLoop!Loop(start, ds.samples, ds, fallback, preserve, 0)
           n == Len(ds.samples)
           file(dir) == [rows |-> IF dir = <<>> THEN <<>> ELSE done.rows[dir[1]], table |-> <<>>, parquet |-> FALSE]
           dirs == IF done.rows = <<>> THEN {<<>>} ELSE {<<d>> : d \in DOMAIN done.rows}
           metadata == [d \in DOMAIN existing.metadata \cup dirs |-> IF d \in dirs THEN file(d) ELSE existing.metadata[d]]
           root == HfWriteOd(ds, existing, fallback, preserve)
<1>1. n \in Nat /\ DOMAIN ds.samples = 1 .. n
  BY SequenceFacts DEF DatasetOK, IsDataset
<1> HIDE DEF n
<1>2. HfOdInv(0, start, ds, fallback, preserve, 0)
  BY FS_EmptySet, EmptyFacts DEF HfOdInv, IsHfRoot
<1> HIDE DEF start
<1>3. HfOdLoop!Keeps(ds.samples, ds, fallback, preserve, 0)
  <2>1. ASSUME NEW a, NEW i \in DOMAIN ds.samples, HfOdInv(i - 1, a, ds, fallback, preserve, 0)
        PROVE  HfOdInv(i, HfOdTurn(a, ds.samples[i], ds, fallback, preserve, 0), ds, fallback, preserve, 0)
    <3>1. IsName(ds.samples[i].name) /\ IsName(ds.samples[i].path) /\ IsDetections(ds.samples[i].dets)
      BY DEF DatasetOK, IsDataset
    <3>2. HfOdInv(0, a, ds, fallback, preserve, 0)
      BY <2>1 DEF HfOdInv
    <3>3. HfOdInv(0, HfOdWriteSample(a, ds.samples[i], ds, fallback, preserve), ds, fallback, preserve, 0)
      BY <3>1, <3>2, HfOdTurnFacts
    <3>4. QED BY <3>3 DEF HfOdInv, HfOdTurn
  <2>2. QED BY <2>1 DEF HfOdLoop!Keeps
<1>4. HfOdInv(n, done, ds, fallback, preserve, 0)
  BY <1>1, <1>2, <1>3, HfOdLoop!LoopInvariant
<1>5. root = [images |-> done.images, metadata |-> metadata]
  BY DEF HfWriteOd, HfOdTurn, start, HfOdLoop!Loop, FoldLeft, MapThenFoldSet,
         HfOdLoop!FoldLeft, HfOdLoop!MapThenFoldSet, Max, HfOdLoop!Max
<1> HIDE DEF done, root
<1>6. \A d \in dirs : d = <<>> \/ \E x \in DOMAIN done.rows : d = <<x>>
  OBVIOUS
<1>7. IsFiniteSet(dirs)
  <2> DEFINE one == [d \in DOMAIN done.rows |-> <<d>>]
  <2>1. {<<d>> : d \in DOMAIN done.rows} = {one[d] : d \in DOMAIN done.rows}
    OBVIOUS
  <2>2. IsFiniteSet({one[d] : d \in DOMAIN done.rows})
    <3> HIDE DEF one
    <3>1. QED BY <1>4, FiniteImage DEF HfOdInv
  <2>3. IsFiniteSet({<<>>})
    BY FS_Singleton
  <2>4. QED BY <2>1, <2>2, <2>3
<1> HIDE DEF dirs
<1>8. ASSUME NEW d \in dirs PROVE IsMetadataFile(file(d))
  <2>1. file(d).table = <<>> /\ file(d).rows = IF d = <<>> THEN <<>> ELSE done.rows[d[1]]
    OBVIOUS
  <2>2. AreRows(file(d).rows)
    <3>1. CASE d = <<>>
      BY <2>1, <3>1, EmptyFacts DEF AreRows
    <3>2. CASE d # <<>>
      <4>1. PICK x \in DOMAIN done.rows : d = <<x>>
        BY <1>6, <3>2
      <4>2. d[1] = x
        BY <4>1
      <4>3. QED BY <1>4, <2>1, <3>2, <4>2 DEF HfOdInv
    <3>3. QED BY <3>1, <3>2
  <2> HIDE DEF file
  <2>3. QED BY <2>1, <2>2, EmptyFacts DEF IsMetadataFile, AreRows, IsRow
<1> HIDE DEF file
<1>9. DOMAIN metadata = DOMAIN existing.metadata \cup dirs /\ \A d \in DOMAIN metadata : IsMetadataFile(metadata[d])
  BY <1>8 DEF IsHfRoot
<1> HIDE DEF metadata
<1>10. IsFiniteSet(DOMAIN metadata)
  BY <1>7, <1>9, FS_Union DEF IsHfRoot
<1>11. QED BY <1>4, <1>5, <1>9, <1>10 DEF IsHfRoot, HfOdInv, root

\* Rows put one after the other are rows.
LEMMA RowsTogether ==
  ASSUME NEW parts, IsSequence(parts), \A i \in DOMAIN parts : AreRows(parts[i])
  PROVE  AreRows(FlattenSeq(parts))
<1> DEFINE flat == FlattenSeq(parts)
<1>1. Concatenates(flat, parts)
  BY FlattenFacts DEF AreRows
<1> HIDE DEF flat
<1>2. QED BY <1>1 DEF Concatenates, AreRows, flat

LEMMA MetadataRowFacts ==
  ASSUME NEW root, IsHfRoot(root)
  PROVE  AreRows(RowsFromMetadata(root))
<1> DEFINE dirs == InOrder(MetadataFiles(root))
           Read(dir) == [j \in DOMAIN root.metadata[dir].rows |->
                           RowFromMetadata(dir, root.metadata[dir].rows[j], root.metadata[dir].table)]
           Part(dir) == FlattenSeq(Read(dir))
           parts == [i \in DOMAIN dirs |-> Part(dirs[i])]
<1>1. IsSequence(dirs) /\ \A i \in DOMAIN dirs : dirs[i] \in DOMAIN root.metadata
  <2>1. IsFiniteSet(MetadataFiles(root)) /\ MetadataFiles(root) \subseteq DOMAIN root.metadata
    BY FS_Singleton DEF MetadataFiles, IsHfRoot
  <2>2. QED BY <2>1, InOrderFacts
<1>2. RowsFromMetadata(root) = FlattenSeq(parts)
  BY DEF RowsFromMetadata, Collect
<1>3. ASSUME NEW dir \in DOMAIN root.metadata PROVE AreRows(Part(dir))
  <2> DEFINE rows == root.metadata[dir].rows
             read == Read(dir)
             Row(r) == [path |-> Below(MetadataBase(dir, r.file), r.file),
                        split |-> IF HfSplitOfDirs(dir) # "" THEN HfSplitOfDirs(dir) ELSE HfSplitOfDirs(r.file.dir),
                        label |-> LabelFromMetadata(r.label, root.metadata[dir].table), boxes |-> r.boxes, dims |-> r.dims,
                        categories |-> r.categories, ids |-> r.ids]
             item == [j \in DOMAIN rows |-> Row(rows[j])]
  <2>1. IsSequence(rows) /\ \A j \in DOMAIN rows : IsRow(rows[j])
    BY DEF IsHfRoot, IsMetadataFile, IsRow
  <2>2. read = [j \in DOMAIN rows |-> read[j]]
    OBVIOUS
  <2>3. \A j \in DOMAIN rows : read[j] = <<>> \/ read[j] = <<item[j]>>
    BY DEF RowFromMetadata
  <2>4. \A j \in DOMAIN rows : IsRow(item[j])
    BY <2>1 DEF IsRow
  <2>5. FlattenSeq(read) = Part(dir)
    OBVIOUS
  <2> DEFINE flat == FlattenSeq(read)
  <2> HIDE DEF rows, read, item
  <2>6. IsSequence(flat) /\ \A k \in DOMAIN flat : \E j \in DOMAIN rows : flat[k] = item[j]
    BY <2>1, <2>2, <2>3, CollectFacts
  <2> HIDE DEF flat
  <2>7. AreRows(flat)
    BY <2>4, <2>6 DEF AreRows
  <2>8. QED BY <2>5, <2>7 DEF flat
<1> HIDE DEF Part, dirs
<1>4. IsSequence(parts) /\ DOMAIN parts = DOMAIN dirs
  <2>1. parts = [i \in DOMAIN dirs |-> parts[i]]
    OBVIOUS
  <2> HIDE DEF parts
  <2>2. QED BY <1>1, <2>1, MapFacts
<1>5. \A i \in DOMAIN parts : AreRows(parts[i])
  BY <1>1, <1>3
<1> HIDE DEF parts
<1>6. QED BY <1>2, <1>4, <1>5, RowsTogether

LEMMA DiscoverRowFacts ==
  ASSUME NEW root, IsHfRoot(root), NEW fallback
  PROVE  AreRows(DiscoverRows(root, fallback))
<1>1. AreRows(RowsFromFolders(root))
  <2> DEFINE splits == IsSplitLayout(root)
             Inside(p) == ~splits \/ (p.dir # <<>> /\ p.dir[1] \in DOMAIN HfSplitOf)
             found == {p \in DOMAIN root.images : p.ext \in ImageExtensions /\ Inside(p)}
             inside == InOrder(found)
             rows == RowsFromFolders(root)
  <2>1. IsFiniteSet(found)
    BY FS_Subset DEF IsHfRoot, IsImages
  <2>2. rows = [i \in DOMAIN inside |-> rows[i]]
        /\ \A i \in DOMAIN inside : rows[i].boxes = <<>> /\ rows[i].ids = <<>> /\ rows[i].categories = <<>>
    BY DEF RowsFromFolders
  <2> HIDE DEF found, rows
  <2>3. IsSequence(inside)
    BY <2>1, InOrderFacts
  <2> HIDE DEF inside
  <2>4. IsSequence(rows) /\ DOMAIN rows = DOMAIN inside
    BY <2>2, <2>3, MapFacts
  <2>5. QED BY <2>2, <2>4, EmptyFacts DEF AreRows, IsRow, rows
<1>2. QED BY <1>1, MetadataRowFacts DEF DiscoverRows

\* The rows that a loader makes samples of are of files that are there.
AreKept(rows, images) == AreRows(rows) /\ \A i \in DOMAIN rows : rows[i].path \in DOMAIN images
KeptTurn(acc, r, p, q, t, u) == IF \E i \in DOMAIN acc : acc[i].path = r.path THEN acc ELSE Append(acc, r)
KeptInv(k, a, images, q, r, t) == AreKept(a, images)
KeptLoop == INSTANCE Loops WITH Body <- KeptTurn, Inv <- KeptInv, Free <- NotIn, Counted <- Candidate

\* The rows of a split, in some order; two lists of kept rows after each other.
RowsOf(rows, split) == InOrder({r \in ToSet(rows) : r.split = split})
LEMMA RowsOfFacts ==
  ASSUME NEW rows, NEW images, AreKept(rows, images), NEW split
  PROVE  AreKept(RowsOf(rows, split), images)
<1> DEFINE of == {r \in ToSet(rows) : r.split = split}
           row == [i \in DOMAIN rows |-> rows[i]]
<1>1. ToSet(rows) = {row[i] : i \in DOMAIN rows}
  BY DEF ToSet
<1>2. IsFiniteSet(ToSet(rows))
  <2> HIDE DEF row
  <2>1. QED BY <1>1, FiniteDomain, FiniteImage DEF AreKept, AreRows
<1>3. IsFiniteSet(of) /\ \A r \in of : IsRow(r) /\ r.path \in DOMAIN images
  <2>1. of \subseteq ToSet(rows) /\ \A r \in of : \E i \in DOMAIN rows : r = rows[i]
    BY DEF ToSet
  <2>2. QED BY <1>2, <2>1, FS_Subset DEF AreKept, AreRows
<1>4. RowsOf(rows, split) = InOrder(of)
  BY DEF RowsOf
<1> HIDE DEF of
<1>5. IsSequence(InOrder(of)) /\ \A j \in DOMAIN InOrder(of) : InOrder(of)[j] \in of
  BY <1>3, InOrderFacts
<1>6. QED BY <1>3, <1>4, <1>5 DEF AreKept, AreRows

LEMMA KeptTogether ==
  ASSUME NEW images, NEW a, AreKept(a, images), NEW b, AreKept(b, images)
  PROVE  AreKept(a \o b, images)
<1> DEFINE both == a \o b
<1>1. IsSequence(a) /\ IsSequence(b) /\ Len(a) \in Nat /\ DOMAIN a = 1 .. Len(a) /\ Len(b) \in Nat /\ DOMAIN b = 1 .. Len(b)
  BY SequenceFacts DEF AreKept, AreRows
<1>2. /\ IsSequence(both) /\ DOMAIN both = 1 .. Len(a) + Len(b)
      /\ \A i \in 1 .. Len(a) : both[i] = a[i]
      /\ \A i \in 1 .. Len(b) : both[Len(a) + i] = b[i]
  BY <1>1, ConcatFacts
<1> HIDE DEF both
<1>3. ASSUME NEW i \in DOMAIN both PROVE IsRow(both[i]) /\ both[i].path \in DOMAIN images
  <2>1. CASE i \in 1 .. Len(a)
    BY <1>1, <1>2, <2>1 DEF AreKept, AreRows
  <2>2. CASE i \notin 1 .. Len(a)
    <3> DEFINE k == i - Len(a)
    <3>1. k \in 1 .. Len(b) /\ Len(a) + k = i
      BY <1>1, <1>2, <2>2
    <3> HIDE DEF k
    <3>2. both[i] = b[k] /\ k \in DOMAIN b
      BY <1>1, <1>2, <3>1
    <3>3. QED BY <3>2 DEF AreKept, AreRows
  <2>3. QED BY <2>1, <2>2
<1>4. QED BY <1>2, <1>3 DEF AreKept, AreRows, both

LEMMA KeptRowFacts ==
  ASSUME NEW root, IsHfRoot(root), NEW fallback
  PROVE  AreKept(KeptRows(root, fallback), root.images)
<1> DEFINE all == DiscoverRows(root, fallback)
           parts == [i \in DOMAIN all |-> IF all[i].path \in DOMAIN root.images THEN <<all[i]>> ELSE <<>>]
           rows == FlattenSeq(parts)
           done == KeptLoop!Loop(<<>>, rows, root.images, 0, 0, 0)
           n == Len(rows)
<1>1. IsSequence(all) /\ \A i \in DOMAIN all : IsRow(all[i])
  BY DiscoverRowFacts DEF AreRows
<1>2. KeptRows(root, fallback) = RowsOf(done, "train") \o RowsOf(done, "validation")
                                   \o RowsOf(done, "test") \o RowsOf(done, "")
  BY DEF KeptRows, BySplit, OncePerFile, Keep, Collect, KeptTurn, KeptLoop!Loop, FoldLeft, MapThenFoldSet,
         KeptLoop!FoldLeft, KeptLoop!MapThenFoldSet, Max, KeptLoop!Max, RowsOf
<1> HIDE DEF all
<1>3. /\ parts = [i \in DOMAIN all |-> parts[i]]
      /\ \A i \in DOMAIN all : parts[i] = <<>> \/ parts[i] = <<all[i]>>
      /\ \A i \in DOMAIN all : parts[i] # <<>> => all[i].path \in DOMAIN root.images
  OBVIOUS
<1> HIDE DEF parts
<1>4. IsSequence(rows) /\ \A j \in DOMAIN rows : \E i \in DOMAIN all : rows[j] = all[i] /\ parts[i] # <<>>
  <2> HIDE DEF rows
  <2>1. QED BY <1>1, <1>3, CollectFacts DEF rows
<1> HIDE DEF rows
<1>5. AreKept(rows, root.images)
  BY <1>1, <1>3, <1>4 DEF AreKept, AreRows
<1>6. n \in Nat /\ DOMAIN rows = 1 .. n
  BY <1>4, SequenceFacts
<1>7. KeptLoop!Keeps(rows, root.images, 0, 0, 0)
  <2>1. ASSUME NEW a, NEW i \in DOMAIN rows, KeptInv(i - 1, a, root.images, 0, 0, 0)
        PROVE  KeptInv(i, KeptTurn(a, rows[i], root.images, 0, 0, 0), root.images, 0, 0, 0)
    <3> DEFINE r == rows[i]
               more == Append(a, r)
    <3>1. IsRow(r) /\ r.path \in DOMAIN root.images
      BY <1>5 DEF AreKept, AreRows
    <3>2. IsSequence(a) /\ Len(a) \in Nat /\ DOMAIN a = 1 .. Len(a)
      BY <2>1, SequenceFacts DEF KeptInv, AreKept, AreRows
    <3>3. /\ IsSequence(more) /\ DOMAIN more = 1 .. Len(a) + 1
          /\ \A j \in 1 .. Len(a) : more[j] = a[j]
          /\ more[Len(a) + 1] = r
      BY <3>2, AppendFacts
    <3> HIDE DEF more, r
    <3>4. \A j \in DOMAIN more : j # Len(a) + 1 => j \in DOMAIN a /\ more[j] = a[j]
      BY <3>2, <3>3
    <3>5. AreKept(more, root.images)
      BY <2>1, <3>1, <3>3, <3>4 DEF KeptInv, AreKept, AreRows
    <3>6. QED BY <2>1, <3>5 DEF KeptInv, KeptTurn, more, r
  <2>2. QED BY <2>1 DEF KeptLoop!Keeps
<1>8. KeptInv(0, <<>>, root.images, 0, 0, 0)
  BY EmptyFacts DEF KeptInv, AreKept, AreRows
<1> HIDE DEF n
<1>9. KeptInv(n, done, root.images, 0, 0, 0)
  BY <1>6, <1>7, <1>8, KeptLoop!LoopInvariant
<1> HIDE DEF done
<1>10. AreKept(done, root.images)
  BY <1>9 DEF KeptInv
<1>11. /\ AreKept(RowsOf(done, "train"), root.images) /\ AreKept(RowsOf(done, "validation"), root.images)
       /\ AreKept(RowsOf(done, "test"), root.images) /\ AreKept(RowsOf(done, ""), root.images)
  BY <1>10, RowsOfFacts
<1>12. AreKept(RowsOf(done, "train") \o RowsOf(done, "validation"), root.images)
  BY <1>11, KeptTogether
<1>13. AreKept(RowsOf(done, "train") \o RowsOf(done, "validation") \o RowsOf(done, "test"), root.images)
  BY <1>11, <1>12, KeptTogether
<1>14. QED BY <1>2, <1>11, <1>13, KeptTogether

LEMMA TableFacts ==
  ASSUME NEW root, IsHfRoot(root), NEW fallback
  PROVE  IsSequence(TableOf(root, fallback))
<1> DEFINE files == MetadataFiles(root)
           dirs == InOrder(files)
           item == [i \in DOMAIN dirs |-> root.metadata[dirs[i]].table]
           parts == [i \in DOMAIN dirs |-> IF root.metadata[dirs[i]].table = <<>> THEN <<>>
                                           ELSE <<root.metadata[dirs[i]].table>>]
           tables == FlattenSeq(parts)
<1>1. files \subseteq DOMAIN root.metadata
  BY DEF MetadataFiles
<1>2. IsFiniteSet(files)
  BY <1>1, FS_Subset DEF IsHfRoot
<1>3. TableOf(root, fallback) \in {<<>>, tables[1]} /\ (TableOf(root, fallback) # <<>> => tables # <<>>)
  <2>1. TableOf(root, fallback) = IF Silent(root, fallback) \/ tables = <<>> THEN <<>> ELSE tables[1]
    BY DEF TableOf, Collect
  <2> HIDE DEF tables
  <2>2. QED BY <2>1
<1> HIDE DEF files
<1>4. IsSequence(dirs) /\ \A i \in DOMAIN dirs : dirs[i] \in DOMAIN root.metadata
  BY <1>1, <1>2, InOrderFacts
<1> HIDE DEF dirs
<1>5. \A i \in DOMAIN dirs : IsSequence(item[i])
  BY <1>4 DEF IsHfRoot, IsMetadataFile
<1>6. parts = [i \in DOMAIN dirs |-> parts[i]] /\ \A i \in DOMAIN dirs : parts[i] = <<>> \/ parts[i] = <<item[i]>>
  OBVIOUS
<1> HIDE DEF item, parts
<1>7. IsSequence(tables) /\ \A j \in DOMAIN tables : \E i \in DOMAIN dirs : tables[j] = item[i]
  <2>1. IsSequence(dirs)
    BY <1>4
  <2>2. \A i \in DOMAIN dirs : parts[i] = <<>> \/ parts[i] = <<item[i]>>
    BY <1>6
  <2>3. parts = [i \in DOMAIN dirs |-> parts[i]]
    BY <1>6
  <2>4. /\ IsSequence(FlattenSeq(parts))
        /\ \A j \in DOMAIN FlattenSeq(parts) :
              \E i \in DOMAIN dirs : FlattenSeq(parts)[j] = item[i] /\ parts[i] # <<>>
    BY <2>1, <2>2, <2>3, CollectFacts, SMTT(60)
  <2>5. QED BY <2>4
<1> HIDE DEF tables
<1>8. tables # <<>> => 1 \in DOMAIN tables
  <2>1. Len(tables) \in Nat /\ DOMAIN tables = 1 .. Len(tables)
    BY <1>7, SequenceFacts
  <2>2. tables = [i \in DOMAIN tables |-> tables[i]]
    BY <1>7 DEF IsSequence
  <2>3. DOMAIN tables = {} => tables = <<>>
    BY <2>2
  <2>4. QED BY <2>1, <2>3
<1>9. QED BY <1>3, <1>5, <1>7, <1>8, EmptyFacts

\* The splits of samples.
LEMMA SplitsFinite ==
  ASSUME NEW samples, IsSequence(samples)
  PROVE  IsFiniteSet(SplitsOf(samples))
<1> DEFINE split == [i \in DOMAIN samples |-> samples[i].split]
           all == {split[i] : i \in DOMAIN samples}
<1>1. IsFiniteSet(all)
  <2> HIDE DEF split
  <2>1. QED BY FiniteDomain, FiniteImage
<1>2. SplitsOf(samples) \subseteq all
  BY DEF SplitsOf
<1> HIDE DEF all
<1>3. QED BY <1>1, <1>2, FS_Subset

\* The taxonomy of classes has one entry per id, and an entry for each of them.
LEMMA HfIcEntriesFacts ==
  ASSUME NEW labels, IsFiniteSet(labels), NEW table, IsSequence(table)
  PROVE  LET entries == HfIcEntries(labels, table)
         IN  /\ IsSequence(entries) /\ DistinctIds(entries)
             /\ \A label \in labels : \E k \in DOMAIN entries : entries[k].name = label
<1> DEFINE value == [l \in labels |-> IntegerValue(l)]
           values == {value[l] : l \in labels}
           ints == Ascending(values)
           numbered == [i \in DOMAIN ints |-> [id |-> IntId(ints[i]), name |-> Numeric[ints[i]]]]
           others == InOrder(labels \ ToSet(table))
           all == table \o others
           plain == InOrder(labels)
           Good(entries) == /\ IsSequence(entries) /\ DistinctIds(entries)
                            /\ \A label \in labels : \E k \in DOMAIN entries : entries[k].name = label
<1>1. ASSUME NEW names, IsSequence(names), \A label \in labels : \E k \in DOMAIN names : names[k] = label
      PROVE  Good(NamedEntries(names))
  <2> DEFINE entries == NamedEntries(names)
  <2>1. /\ IsSequence(entries) /\ DOMAIN entries = DOMAIN names /\ DistinctIds(entries)
        /\ \A k \in DOMAIN names : entries[k].name = names[k]
    BY <1>1, NamedEntryFacts
  <2> HIDE DEF entries
  <2>2. Good(entries)
    BY <1>1, <2>1
  <2>3. QED BY <2>2 DEF entries
<1>2. Good(NamedEntries(all))
  <2>1. IsFiniteSet(labels \ ToSet(table))
    BY FS_Subset
  <2>2. IsSequence(others) /\ \A x \in labels \ ToSet(table) : \E j \in DOMAIN others : others[j] = x
    BY <2>1, InOrderFacts
  <2> HIDE DEF others
  <2>3. /\ IsSequence(all) /\ DOMAIN all = 1 .. Len(table) + Len(others)
        /\ \A i \in 1 .. Len(table) : all[i] = table[i]
        /\ \A i \in 1 .. Len(others) : all[Len(table) + i] = others[i]
    BY <2>2, ConcatFacts
  <2>4. Len(table) \in Nat /\ DOMAIN table = 1 .. Len(table) /\ Len(others) \in Nat /\ DOMAIN others = 1 .. Len(others)
    BY <2>2, SequenceFacts
  <2> HIDE DEF all
  <2>5. ASSUME NEW label \in labels PROVE \E k \in DOMAIN all : all[k] = label
    <3>1. CASE label \in ToSet(table)
      <4>1. PICK i \in DOMAIN table : table[i] = label
        BY <3>1 DEF ToSet
      <4>2. i \in DOMAIN all /\ all[i] = label
        BY <2>3, <2>4, <4>1
      <4>3. QED BY <4>2
    <3>2. CASE label \notin ToSet(table)
      <4>1. PICK j \in DOMAIN others : others[j] = label
        BY <2>2, <3>2
      <4>2. Len(table) + j \in DOMAIN all /\ all[Len(table) + j] = label
        BY <2>3, <2>4, <4>1
      <4>3. QED BY <4>2
    <3>3. QED BY <3>1, <3>2
  <2> HIDE DEF Good
  <2>6. QED BY <1>1, <2>3, <2>5
<1>3. Good(NamedEntries(plain))
  <2>1. IsSequence(plain) /\ \A x \in labels : \E j \in DOMAIN plain : plain[j] = x
    BY InOrderFacts
  <2> HIDE DEF plain, Good
  <2>2. QED BY <1>1, <2>1
<1>4. (\A l \in labels : IsNumeric(l)) => Good(numbered)
  <2> SUFFICES ASSUME \A l \in labels : IsNumeric(l) PROVE Good(numbered)
    OBVIOUS
  <2>1. \A l \in labels : value[l] \in DOMAIN Numeric /\ Numeric[value[l]] = l
    BY DEF IsNumeric, IntegerValue
  <2>2. DOMAIN Numeric \subseteq Int
    BY DEF Numeric
  <2>3. IsFiniteSet(values) /\ values \in SUBSET Int
    <3>1. values \in SUBSET Int
      BY <2>1, <2>2
    <3> HIDE DEF value
    <3>2. QED BY <3>1, FiniteImage
  <2>4. \A l \in labels : value[l] \in values
    OBVIOUS
  <2> HIDE DEF value, values
  <2>5. /\ IsSequence(ints) /\ Differ(ints)
        /\ \A n \in values : \E k \in DOMAIN ints : ints[k] = n
    BY <2>3, AscendingFacts, AscendingNumbers
  <2> HIDE DEF ints
  <2>6. /\ numbered = [i \in DOMAIN ints |-> numbered[i]]
        /\ \A i \in DOMAIN ints : numbered[i].id = IntId(ints[i]) /\ numbered[i].name = Numeric[ints[i]]
    OBVIOUS
  <2> HIDE DEF numbered
  <2>7. IsSequence(numbered) /\ DOMAIN numbered = DOMAIN ints
    BY <2>5, <2>6, MapFacts
  <2>8. DistinctIds(numbered)
    BY <2>5, <2>6, <2>7, CategoryFacts DEF DistinctIds, Differ
  <2>9. ASSUME NEW label \in labels PROVE \E k \in DOMAIN numbered : numbered[k].name = label
    <3>1. PICK k \in DOMAIN ints : ints[k] = value[label]
      BY <2>4, <2>5
    <3>2. QED BY <2>1, <2>6, <2>7, <3>1
  <2>10. QED BY <2>7, <2>8, <2>9
<1>5. HfIcEntries(labels, table) = IF table # <<>> THEN NamedEntries(all)
                                   ELSE IF \A l \in labels : IsNumeric(l) THEN numbered ELSE NamedEntries(plain)
  <2>1. values = {IntegerValue(l) : l \in labels}
    OBVIOUS
  <2> HIDE DEF values
  <2>2. QED BY <2>1 DEF HfIcEntries
<1> DEFINE entries == HfIcEntries(labels, table)
<1> HIDE DEF all, numbered, plain, Good
<1>6. Good(entries)
  BY <1>2, <1>3, <1>4, <1>5
<1>7. QED BY <1>6 DEF Good

\* A taxonomy that is dense says so by the ids of its entries.
LEMMA DenseFacts ==
  ASSUME NEW entries, IsDense(entries)
  PROVE  \A i \in DOMAIN entries : entries[i].id = IntId(i - 1)
<1> DEFINE ids == [i \in DOMAIN entries |-> entries[i].id]
<1>1. \A i \in DOMAIN ids : ids[i] = IntId(i - 1)
  BY DEF IsDense, Sparse
<1>2. QED BY <1>1

LEMMA HfLoadIcFacts ==
  ASSUME NEW root, IsHfRoot(root)
  PROVE  DatasetOK(HfLoadIc(root)) /\ TaxonomyOK(HfLoadIc(root))
<1> DEFINE rows == KeptRows(root, TRUE)
           ds == HfLoadIc(root)
           label == [i \in DOMAIN rows |-> rows[i].label]
           labels == {label[i] : i \in DOMAIN rows} \ {""}
           table == TableOf(root, TRUE)
           IdOf(x) == ds.entries[ByName(ds.entries, x)].id
<1>1. IsSequence(rows) /\ \A i \in DOMAIN rows : IsName(rows[i].path)
  BY KeptRowFacts DEF AreKept, AreRows, IsHfRoot, IsImages
<1>2. {label[i] : i \in DOMAIN rows} = {rows[i].label : i \in DOMAIN rows}
  OBVIOUS
<1>3. /\ ds.task = "ic" /\ ds.entries = HfIcEntries(labels, table) /\ ds.splits = SplitsOf(ds.samples)
      /\ ds.dense => IsDense(ds.entries)
      /\ ds.samples = [i \in DOMAIN rows |-> ds.samples[i]]
      /\ \A i \in DOMAIN rows :
            /\ ds.samples[i].name = rows[i].path /\ ds.samples[i].path = Below(<<"hf">>, rows[i].path)
            /\ ds.samples[i].labels = IF rows[i].label = "" THEN <<>>
                                       ELSE <<[cat |-> IdOf(rows[i].label), src |-> IdOf(rows[i].label),
                                               name |-> rows[i].label, fixed |-> None]>>
  <2> HIDE DEF rows, label, table
  <2>1. QED BY <1>2 DEF HfLoadIc, HfIcDataset, Dataset, rows, table
<1>4. \A i \in DOMAIN rows : rows[i].label # "" => rows[i].label \in labels
  BY <1>2
<1> HIDE DEF rows, ds, label, IdOf
<1>5. IsSequence(ds.samples) /\ DOMAIN ds.samples = DOMAIN rows
  BY <1>1, <1>3, MapFacts
<1>6. IsFiniteSet(labels)
  <2>1. IsFiniteSet({label[i] : i \in DOMAIN rows})
    BY <1>1, FiniteDomain, FiniteImage
  <2>2. QED BY <2>1, FS_Subset
<1>7. IsSequence(table)
  BY TableFacts
<1> HIDE DEF labels, table
<1>8. /\ IsSequence(ds.entries) /\ DistinctIds(ds.entries) /\ IsFiniteSet(ds.splits)
      /\ \A x \in labels : \E k \in DOMAIN ds.entries : ds.entries[k].name = x
  <2>1. ds.entries = HfIcEntries(labels, table) /\ ds.splits = SplitsOf(ds.samples)
    BY <1>3
  <2>2. IsFiniteSet(ds.splits)
    BY <1>5, <2>1, SplitsFinite
  <2>3. QED BY <1>6, <1>7, <2>1, <2>2, HfIcEntriesFacts
<1>9. \A i \in DOMAIN rows : IsName(Below(<<"hf">>, rows[i].path))
  BY <1>1, BelowFacts
<1>10. IsDataset(ds)
  BY <1>1, <1>3, <1>5, <1>8, <1>9 DEF IsDataset
<1>11. ASSUME NEW i \in DOMAIN rows, NEW j \in DOMAIN ds.samples[i].labels PROVE Fits(ds.entries, ds.samples[i].labels[j])
  <2> DEFINE x == rows[i].label
             k == ByName(ds.entries, x)
             l == [cat |-> IdOf(x), src |-> IdOf(x), name |-> x, fixed |-> None]
             one == <<l>>
  <2>1. x # "" /\ ds.samples[i].labels = one
    BY <1>3, <1>11, EmptyFacts
  <2>2. one[1] = l /\ DOMAIN one = 1 .. 1
    BY SingleFacts
  <2>3. l.cat = ds.entries[k].id /\ l.name = x
    BY DEF IdOf
  <2>4. x \in labels
    BY <1>4, <2>1
  <2> HIDE DEF one, l
  <2>5. ds.samples[i].labels[j] = l
    <3>1. j \in DOMAIN one
      BY <2>1
    <3>2. j = 1
      BY <2>2, <3>1
    <3>3. QED BY <2>1, <2>2, <3>2
  <2>6. k \in DOMAIN ds.entries /\ ds.entries[k].name = x
    BY <1>8, <2>4, EntryFacts DEF ByName
  <2> HIDE DEF k
  <2>7. Fits(ds.entries, l)
    BY <1>8, <2>3, <2>6, FitsAt
  <2>8. QED BY <2>5, <2>7
<1>12. TaxonomyOK(ds)
  BY <1>3, <1>5, <1>8, <1>11, DenseFacts DEF TaxonomyOK
<1>13. QED BY <1>3, <1>10, <1>12 DEF DatasetOK, ds

\* The detections that are read off a row: of no class, of a number, which may have a name in the
\* table, or of a name.
Title(n, table) == IF n \in 0 .. Len(table) - 1 THEN table[n + 1] ELSE ""
ParsedDet(d, table) ==
  /\ {"id", "cat", "src", "name"} \subseteq DOMAIN d /\ IsId(d.id)
  /\ \/ d.cat = None /\ d.src = None /\ d.name = ""
     \/ \E n \in Int : d.cat = IntId(n) /\ d.src = IntId(n) /\ d.name = Title(n, table)
     \/ d.cat = None /\ d.name # "" /\ d.src = StrId(d.name)
IsParsed(dets, table) == IsSequence(dets) /\ \A i \in DOMAIN dets : ParsedDet(dets[i], table)

LEMMA ParseObjectsFacts ==
  ASSUME NEW row, IsRow(row), NEW table
  PROVE  IsParsed(ParseObjects(row, table), table)
<1> DEFINE places == [i \in DOMAIN row.boxes |-> i]
           Value(i) == IF i \in DOMAIN row.categories /\ row.categories[i] # StrId("")
                       THEN row.categories[i] ELSE None
           Named(i) == IsInt(Value(i)) /\ Value(i)[2] \in 0 .. Len(table) - 1
           Det(i) == [id |-> IF i \in DOMAIN row.ids THEN row.ids[i] ELSE None, box |-> row.boxes[i],
                      cat |-> IF IsInt(Value(i)) THEN Value(i) ELSE None, src |-> Value(i), score |-> FALSE,
                      name |-> IF Named(i) THEN table[Value(i)[2] + 1]
                               ELSE IF Value(i) # None /\ ~IsInt(Value(i)) THEN Value(i)[2] ELSE "",
                      fixed |-> None]
           item == [i \in DOMAIN places |-> Det(places[i])]
           parts == [i \in DOMAIN places |-> IF ~Area(row.boxes[places[i]]) THEN <<>> ELSE <<Det(places[i])>>]
           dets == ParseObjects(row, table)
<1>1. dets = FlattenSeq(parts)
  BY DEF ParseObjects, Collect
<1>2. IsSequence(places)
  <2>1. places = [i \in DOMAIN row.boxes |-> places[i]]
    OBVIOUS
  <2> HIDE DEF places
  <2>2. QED BY <2>1, MapFacts DEF IsRow
<1>3. IsId(None)
  BY DEF IsId, IsInt, None
<1>4. ASSUME NEW i \in DOMAIN places PROVE ParsedDet(item[i], table)
  <2> DEFINE value == Value(i)
             d == item[i]
  <2>1. IsCategory(value) /\ value # StrId("")
    BY CategoryFacts DEF IsRow
  <2>2. /\ {"id", "cat", "src", "name"} \subseteq DOMAIN d
        /\ d.id \in {row.ids[k] : k \in DOMAIN row.ids} \cup {None}
        /\ d.cat = IF IsInt(value) THEN value ELSE None
        /\ d.src = value
        /\ d.name = IF IsInt(value) /\ value[2] \in 0 .. Len(table) - 1 THEN table[value[2] + 1]
                    ELSE IF value # None /\ ~IsInt(value) THEN value[2] ELSE ""
    <3> HIDE DEF Value
    <3>1. QED OBVIOUS
  <2> HIDE DEF Value, Named, Det, value, item, d
  <2>3. CASE value = None
    BY <1>3, <2>2, <2>3, CategoryFacts DEF IsRow, ParsedDet, d
  <2>4. CASE \E n \in Int : value = IntId(n)
    <3>1. PICK n \in Int : value = IntId(n)
      BY <2>4
    <3>2. IsInt(value) /\ value[2] = n
      BY <3>1, CategoryFacts
    <3>3. d.cat = IntId(n) /\ d.src = IntId(n) /\ d.name = Title(n, table)
      BY <2>2, <3>1, <3>2 DEF Title
    <3>4. QED BY <1>3, <2>2, <3>3 DEF IsRow, ParsedDet, d
  <2>5. CASE \E x : value = StrId(x)
    <3>1. PICK x : value = StrId(x)
      BY <2>5
    <3>2. ~IsInt(value) /\ value # None /\ value[2] = x /\ x # ""
      BY <2>1, <3>1, CategoryFacts
    <3>3. d.cat = None /\ d.src = StrId(d.name) /\ d.name # ""
      BY <2>2, <3>1, <3>2
    <3>4. QED BY <1>3, <2>2, <3>3 DEF IsRow, ParsedDet, d
  <2>6. value = None \/ (\E n \in Int : value = IntId(n)) \/ \E x : value = StrId(x)
    BY <2>1 DEF IsCategory
  <2>7. QED BY <2>3, <2>4, <2>5, <2>6
<1>5. /\ parts = [i \in DOMAIN places |-> parts[i]]
      /\ \A i \in DOMAIN places : parts[i] = <<>> \/ parts[i] = <<item[i]>>
  <2> HIDE DEF Det
  <2>1. QED OBVIOUS
<1> HIDE DEF dets, item, parts, places, Value, Named, Det
<1>6. IsSequence(dets) /\ \A j \in DOMAIN dets : \E i \in DOMAIN places : dets[j] = item[i]
  BY <1>1, <1>2, <1>5, CollectFacts
<1>7. IsParsed(dets, table)
  BY <1>4, <1>6 DEF IsParsed
<1>8. QED BY <1>7 DEF dets

\* The name that each number has once the names have theirs: that of the table, or of the names that
\* are not in it, after every number in use.
Unnumbered(all) == {d \in all : d.cat = None /\ d.name # ""}
NamesLeft(all, table) == InOrder({d.name : d \in Unnumbered(all)} \ ToSet(table))
InUse(all, table) == (0 .. Len(table) - 1) \cup {d.cat[2] : d \in {e \in all : IsInt(e.cat)}}
Highest(all, table) == Max(InUse(all, table) \cup {-1})
Titles(all, table) ==
  [n \in Int |-> IF n - Highest(all, table) \in DOMAIN NamesLeft(all, table)
                 THEN NamesLeft(all, table)[n - Highest(all, table)] ELSE Title(n, table)]

LEMMA HighestFacts ==
  ASSUME NEW all, IsFiniteSet(all), NEW table, IsSequence(table), \A d \in all : ParsedDet(d, table)
  PROVE  Highest(all, table) \in Int /\ \A n \in InUse(all, table) : n <= Highest(all, table)
<1> DEFINE numbered == {e \in all : IsInt(e.cat)}
           number == [d \in numbered |-> d.cat[2]]
           numbers == {number[d] : d \in numbered}
           used == InUse(all, table)
           least == used \cup {-1}
<1>1. ASSUME NEW d \in all, IsInt(d.cat) PROVE d.cat[2] \in Int
  BY <1>1, CategoryFacts DEF ParsedDet
<1>2. numbers \in SUBSET Int /\ used = (0 .. Len(table) - 1) \cup numbers
  BY <1>1 DEF InUse
<1>3. IsFiniteSet(numbers)
  <2>1. IsFiniteSet(numbered)
    BY FS_Subset
  <2> HIDE DEF number, numbered
  <2>2. QED BY <2>1, FiniteImage
<1>4. IsFiniteSet(0 .. Len(table) - 1)
  <2>1. 0 \in Int /\ Len(table) - 1 \in Int
    BY SequenceFacts
  <2>2. QED BY <2>1, FS_Interval, SMTT(30)
<1> HIDE DEF numbers, used
<1>5. IsFiniteSet(least)
  <2>1. IsFiniteSet(used)
    BY <1>2, <1>3, <1>4, FS_Union
  <2>2. QED BY <2>1, FS_AddElement
<1>6. least \in SUBSET Int /\ least # {} /\ used \subseteq least
  <2>1. -1 \in Int /\ 0 .. Len(table) - 1 \in SUBSET Int
    OBVIOUS
  <2>2. used \in SUBSET Int
    BY <1>2, <2>1
  <2>3. QED BY <2>1, <2>2
<1>7. Highest(all, table) = Max(least)
  BY DEF Highest, used
<1> HIDE DEF least
<1>8. Max(least) \in least /\ \A y \in least : y <= Max(least)
  BY <1>5, <1>6, LargestFacts
<1>9. QED BY <1>6, <1>7, <1>8 DEF used

LEMMA NamesLeftFacts ==
  ASSUME NEW all, IsFiniteSet(all), NEW table
  PROVE  /\ IsSequence(NamesLeft(all, table))
         /\ \A d \in Unnumbered(all) : d.name \notin ToSet(table) => \E j \in DOMAIN NamesLeft(all, table) : NamesLeft(all, table)[j] = d.name
<1> DEFINE name == [d \in Unnumbered(all) |-> d.name]
           names == {name[d] : d \in Unnumbered(all)}
           left == names \ ToSet(table)
<1>1. NamesLeft(all, table) = InOrder(left) /\ \A d \in Unnumbered(all) : d.name \notin ToSet(table) => d.name \in left
  <2>1. names = {d.name : d \in Unnumbered(all)}
    OBVIOUS
  <2>2. QED BY <2>1 DEF NamesLeft
<1>2. IsFiniteSet(names)
  <2>1. IsFiniteSet(Unnumbered(all))
    BY FS_Subset DEF Unnumbered
  <2> HIDE DEF name
  <2>2. QED BY <2>1, FiniteImage
<1> HIDE DEF names
<1>3. IsFiniteSet(left)
  BY <1>2, FS_Subset
<1> HIDE DEF left
<1>4. QED BY <1>1, <1>3, InOrderFacts

LEMMA TitleFacts ==
  ASSUME NEW all, IsFiniteSet(all), NEW table, IsSequence(table), \A d \in all : ParsedDet(d, table)
  PROVE  /\ \A n \in InUse(all, table) : n \in Int /\ Titles(all, table)[n] = Title(n, table)
         /\ \A j \in DOMAIN NamesLeft(all, table) :
              Highest(all, table) + j \in Int /\ Titles(all, table)[Highest(all, table) + j] = NamesLeft(all, table)[j]
<1> DEFINE left == NamesLeft(all, table)
           highest == Highest(all, table)
           used == InUse(all, table)
<1>1. DOMAIN left = 1 .. Len(left) /\ Len(left) \in Nat
  BY NamesLeftFacts, SequenceFacts
<1>2. highest \in Int /\ \A n \in used : n <= highest
  BY HighestFacts
<1>3. used \in SUBSET Int
  <2>1. \A d \in all : IsInt(d.cat) => d.cat[2] \in Int
    BY CategoryFacts DEF ParsedDet
  <2>2. QED BY <2>1 DEF InUse
<1>4. \A n \in Int : Titles(all, table)[n] = IF n - highest \in DOMAIN left THEN left[n - highest] ELSE Title(n, table)
  BY DEF Titles
<1> HIDE DEF left, highest, used
<1>5. \A n \in used : n \in Int /\ n - highest \notin DOMAIN left
  BY <1>1, <1>2, <1>3
<1>6. \A j \in DOMAIN left : highest + j \in Int /\ (highest + j) - highest = j
  BY <1>1, <1>2
<1>7. QED BY <1>4, <1>5, <1>6 DEF left, highest, used

\* A detection of no class, or of a number and its name.
Classed(d, title) ==
  \/ d.cat = None /\ d.src = None /\ d.name = ""
  \/ \E n \in Int : d.cat = IntId(n) /\ d.src = IntId(n) /\ d.name = title[n]

\* The number a name is given has that name.
GivenId(name, all, table) ==
  LET listed == [i \in 1 .. Len(table) |-> table[i]]
  IN  IF name \in ToSet(listed) THEN IntId(Max({i \in DOMAIN listed : listed[i] = name}) - 1)
      ELSE LET i == CHOOSE i \in DOMAIN NamesLeft(all, table) : NamesLeft(all, table)[i] = name
           IN  IntId(Highest(all, table) + i)
LEMMA GivenIdFacts ==
  ASSUME NEW all, IsFiniteSet(all), NEW table, IsSequence(table), \A d \in all : ParsedDet(d, table),
         NEW d \in Unnumbered(all)
  PROVE  \E n \in Int : GivenId(d.name, all, table) = IntId(n) /\ Titles(all, table)[n] = d.name
<1> DEFINE listed == [i \in 1 .. Len(table) |-> table[i]]
           places == {i \in DOMAIN listed : listed[i] = d.name}
           left == NamesLeft(all, table)
           highest == Highest(all, table)
<1>1. Len(table) \in Nat /\ DOMAIN table = 1 .. Len(table) /\ ToSet(listed) = ToSet(table)
  BY SequenceFacts DEF ToSet
<1>2. CASE d.name \in ToSet(listed)
  <2>1. GivenId(d.name, all, table) = IntId(Max(places) - 1)
    BY <1>2 DEF GivenId
  <2>2. places \in SUBSET (1 .. Len(table)) /\ places # {}
    BY <1>2 DEF ToSet
  <2>3. places \in SUBSET Int /\ IsFiniteSet(places)
    <3> HIDE DEF places
    <3>1. QED BY <1>1, <2>2, FiniteRange, FS_Subset
  <2>4. Max(places) \in places
    <3> HIDE DEF places
    <3>1. QED BY <2>2, <2>3, LargestFacts
  <2> DEFINE m == Max(places)
             n == m - 1
  <2>5. m \in 1 .. Len(table) /\ table[m] = d.name
    BY <2>4
  <2> HIDE DEF m, places
  <2>6. n \in 0 .. Len(table) - 1 /\ n \in Int /\ n + 1 = m
    BY <1>1, <2>5
  <2>7. n \in InUse(all, table)
    BY <2>6 DEF InUse
  <2>8. Titles(all, table)[n] = table[n + 1]
    <3> HIDE DEF n
    <3>1. QED BY <2>6, <2>7, TitleFacts DEF Title
  <2>9. QED BY <2>1, <2>5, <2>6, <2>8 DEF m
<1>3. CASE d.name \notin ToSet(listed)
  <2> DEFINE i == CHOOSE i \in DOMAIN left : left[i] = d.name
  <2>1. GivenId(d.name, all, table) = IntId(highest + i)
    BY <1>3 DEF GivenId
  <2>2. \E j \in DOMAIN left : left[j] = d.name
    BY <1>1, <1>3, NamesLeftFacts
  <2> HIDE DEF left, highest
  <2>3. i \in DOMAIN left /\ left[i] = d.name
    BY <2>2
  <2> HIDE DEF i
  <2>4. highest + i \in Int /\ Titles(all, table)[highest + i] = d.name
    BY <2>3, TitleFacts DEF left, highest
  <2>5. QED BY <2>1, <2>4
<1>4. QED BY <1>2, <1>3

LEMMA AssignIdsFacts ==
  ASSUME NEW all, IsFiniteSet(all), NEW table, IsSequence(table), \A d \in all : ParsedDet(d, table),
         NEW dets, IsSequence(dets), \A i \in DOMAIN dets : dets[i] \in all
  PROVE  /\ IsDetections(AssignIds(dets, all, table))
         /\ \A i \in DOMAIN AssignIds(dets, all, table) : Classed(AssignIds(dets, all, table)[i], Titles(all, table))
<1> DEFINE new == AssignIds(dets, all, table)
           title == Titles(all, table)
<1>1. new = [i \in DOMAIN dets |-> new[i]]
  BY DEF AssignIds
<1>2. \A i \in DOMAIN dets :
        new[i] = IF dets[i] \in Unnumbered(all)
                 THEN [dets[i] EXCEPT !.cat = GivenId(dets[i].name, all, table), !.src = GivenId(dets[i].name, all, table)]
                 ELSE dets[i]
  BY DEF AssignIds, Unnumbered, GivenId, NamesLeft, Highest, InUse
<1> HIDE DEF new, title
<1>3. IsSequence(new) /\ DOMAIN new = DOMAIN dets
  BY <1>1, MapFacts
<1>4. ASSUME NEW i \in DOMAIN dets PROVE IsId(new[i].id) /\ Classed(new[i], title)
  <2> DEFINE d == dets[i]
  <2>1. d \in all /\ ParsedDet(d, table)
    OBVIOUS
  <2>2. CASE d \in Unnumbered(all)
    <3>1. PICK n \in Int : GivenId(d.name, all, table) = IntId(n) /\ title[n] = d.name
      BY <2>2, GivenIdFacts DEF title
    <3>2. new[i] = [d EXCEPT !.cat = IntId(n), !.src = IntId(n)]
      BY <1>2, <2>2, <3>1
    <3>3. new[i].cat = IntId(n) /\ new[i].src = IntId(n) /\ new[i].name = d.name /\ new[i].id = d.id
      BY <2>1, <3>2 DEF ParsedDet
    <3>4. QED BY <2>1, <3>1, <3>3 DEF ParsedDet, Classed
  <2>3. CASE d \notin Unnumbered(all)
    <3>1. new[i] = d
      BY <1>2, <2>3
    <3>2. ASSUME NEW n \in Int, d.cat = IntId(n), d.name = Title(n, table) PROVE d.name = title[n]
      <4>1. d \in all /\ IsInt(d.cat) /\ d.cat[2] = n
        BY <2>1, <3>2, CategoryFacts
      <4>2. n \in InUse(all, table)
        BY <4>1 DEF InUse
      <4>3. QED BY <3>2, <4>2, TitleFacts DEF title
    <3> HIDE DEF d
    <3>3. ~(d.cat = None /\ d.name # "")
      BY <2>1, <2>3 DEF Unnumbered
    <3>4. QED BY <2>1, <3>1, <3>2, <3>3 DEF ParsedDet, Classed
  <2>4. QED BY <2>2, <2>3
<1>5. \A d : Classed(d, title) => IsCategory(d.cat) /\ IsCategory(d.src)
  BY CategoryFacts DEF Classed
<1>6. IsDetections(new)
  BY <1>3, <1>4, <1>5 DEF IsDetections
<1>7. QED BY <1>3, <1>4, <1>6 DEF new, title

\* The taxonomy of classed detections has one entry per id, and each of them has the name of its entry.
LEMMA HfOdEntriesFacts ==
  ASSUME NEW table, IsSequence(table), NEW title, \A n \in 0 .. Len(table) - 1 : title[n] = table[n + 1],
         NEW dets, IsSequence(dets), \A i \in DOMAIN dets : Classed(dets[i], title)
  PROVE  LET entries == HfOdEntries(dets, table)
         IN  IsSequence(entries) /\ DistinctIds(entries) /\ \A i \in DOMAIN dets : Fits(entries, dets[i])
<1> DEFINE source == [i \in DOMAIN dets |-> SourceIdOf(dets[i])]
           seen == {SourceIdOf(d) : d \in ToSet(dets)} \ {None}
           known == NamedEntries(table)
           new == {id \in seen : BySourceId(known, id) = 0}
           number == [id \in new |-> id[2]]
           numbers == {number[id] : id \in new}
           ordered == Ascending(numbers)
           With(id) == {i \in DOMAIN dets : SourceIdOf(dets[i]) = id}
           Named(id) == LET first == Min(With(id))
                        IN  IF dets[first].name # "" THEN dets[first].name ELSE ToString(id[2])
           more == [i \in DOMAIN ordered |-> [id |-> IntId(ordered[i]), name |-> Named(IntId(ordered[i]))]]
           entries == known \o more
<1>1. HfOdEntries(dets, table) = entries
  <2>1. numbers = {id[2] : id \in new}
    OBVIOUS
  <2> HIDE DEF numbers
  <2>2. QED BY <2>1 DEF HfOdEntries
<1>2. \A i \in DOMAIN dets : dets[i].name # "" => \E n \in Int : dets[i].cat = IntId(n) /\ SourceIdOf(dets[i]) = IntId(n) /\ dets[i].name = title[n]
  BY CategoryFacts DEF Classed, SourceIdOf
<1>3. \A i \in DOMAIN dets : SourceIdOf(dets[i]) = None \/ \E n \in Int : SourceIdOf(dets[i]) = IntId(n) /\ dets[i].name = title[n]
  BY CategoryFacts DEF Classed, SourceIdOf
<1>4. \A id \in new : \E n \in Int : id = IntId(n) /\ number[id] = n /\ BySourceId(known, IntId(n)) = 0
  <2> SUFFICES ASSUME NEW id \in new PROVE \E n \in Int : id = IntId(n) /\ number[id] = n /\ BySourceId(known, IntId(n)) = 0
    OBVIOUS
  <2>1. number[id] = id[2] /\ BySourceId(known, id) = 0
    OBVIOUS
  <2>2. PICK i \in DOMAIN dets : id = SourceIdOf(dets[i]) /\ id # None
    BY DEF ToSet
  <2> HIDE DEF number, new, known
  <2>3. PICK n \in Int : SourceIdOf(dets[i]) = IntId(n)
    BY <1>3, <2>2
  <2>4. QED BY <2>1, <2>2, <2>3, CategoryFacts
<1>5. IsFiniteSet(new)
  <2>1. IsFiniteSet({source[i] : i \in DOMAIN dets})
    <3> HIDE DEF source
    <3>1. QED BY FiniteDomain, FiniteImage
  <2>2. new \subseteq {source[i] : i \in DOMAIN dets}
    BY DEF ToSet
  <2> HIDE DEF new, source
  <2>3. QED BY <2>1, <2>2, FS_Subset
<1> HIDE DEF number, new, source
<1>6. IsFiniteSet(numbers) /\ numbers \in SUBSET Int
  BY <1>4, <1>5, FiniteImage
<1>7. \A n \in numbers : BySourceId(known, IntId(n)) = 0
  BY <1>4
<1> HIDE DEF numbers
<1>8. /\ IsSequence(ordered) /\ Differ(ordered)
      /\ \A k \in DOMAIN ordered : ordered[k] \in numbers
  BY <1>6, AscendingFacts, AscendingNumbers
<1> HIDE DEF ordered
<1>9. /\ IsSequence(known) /\ DOMAIN known = DOMAIN table /\ DistinctIds(known)
      /\ \A k \in DOMAIN table : known[k].id = IntId(k - 1) /\ known[k].name = table[k]
  BY NamedEntryFacts
<1>10. Len(table) \in Nat /\ DOMAIN table = 1 .. Len(table) /\ Len(known) = Len(table)
  BY <1>9, SequenceFacts
<1>11. IsSequence(more) /\ DOMAIN more = DOMAIN ordered /\ Len(more) \in Nat /\ DOMAIN more = 1 .. Len(more)
  <2>1. more = [i \in DOMAIN ordered |-> more[i]]
    OBVIOUS
  <2> HIDE DEF more
  <2>2. QED BY <1>8, <2>1, MapFacts, SequenceFacts
<1>12. \A k \in DOMAIN more : more[k].id = IntId(ordered[k]) /\ more[k].name = Named(IntId(ordered[k]))
  OBVIOUS
<1> HIDE DEF known, more, Named
<1>13. /\ IsSequence(entries) /\ DOMAIN entries = 1 .. Len(table) + Len(more)
       /\ \A k \in 1 .. Len(table) : entries[k] = known[k]
       /\ \A k \in 1 .. Len(more) : entries[Len(table) + k] = more[k]
  <2>1. IsSequence(known) /\ IsSequence(more) /\ Len(known) = Len(table)
    BY <1>9, <1>10, <1>11
  <2>2. /\ IsSequence(entries) /\ DOMAIN entries = 1 .. Len(known) + Len(more)
        /\ \A k \in 1 .. Len(known) : entries[k] = known[k]
        /\ \A k \in 1 .. Len(more) : entries[Len(known) + k] = more[k]
    <3>1. IsSequence(known) /\ IsSequence(more)
      BY <2>1
    <3>2. QED BY <3>1, ConcatFacts
  <2>3. QED BY <2>1, <2>2
<1> HIDE DEF entries
<1>14. \A e \in DOMAIN entries : \/ e \in DOMAIN table /\ entries[e].id = IntId(e - 1) /\ entries[e].name = table[e]
                                 \/ \E k \in DOMAIN more : e = Len(table) + k /\ entries[e] = more[k]
  <2> SUFFICES ASSUME NEW e \in DOMAIN entries, e \notin DOMAIN table PROVE \E k \in DOMAIN more : e = Len(table) + k /\ entries[e] = more[k]
    BY <1>9, <1>10, <1>13
  <2>1. e - Len(table) \in DOMAIN more /\ e = Len(table) + (e - Len(table))
    BY <1>10, <1>11, <1>13
  <2>2. QED BY <1>11, <1>13, <2>1
<1>15. \A k \in DOMAIN table, l \in DOMAIN more : known[k].id # more[l].id
  <2> SUFFICES ASSUME NEW k \in DOMAIN table, NEW l \in DOMAIN more PROVE known[k].id # more[l].id
    OBVIOUS
  <2>1. BySourceId(known, IntId(ordered[l])) = 0
    BY <1>7, <1>8, <1>11
  <2>2. QED BY <1>9, <1>12, <2>1, EntryFacts DEF BySourceId
<1>16. DistinctIds(entries)
  <2> SUFFICES ASSUME NEW d \in DOMAIN entries, NEW e \in DOMAIN entries, entries[d].id = entries[e].id PROVE d = e
    BY DEF DistinctIds
  <2>1. CASE d \in DOMAIN table /\ e \in DOMAIN table
    BY <1>9, <1>10, <1>13, <2>1 DEF DistinctIds
  <2>2. ASSUME NEW k \in DOMAIN more, d = Len(table) + k, entries[d] = more[k],
               NEW l \in DOMAIN more, e = Len(table) + l, entries[e] = more[l]
        PROVE  d = e
    <3>1. ordered[k] = ordered[l]
      BY <1>12, <2>2, CategoryFacts
    <3>2. QED BY <1>8, <1>11, <2>2, <3>1 DEF Differ
  <2>3. CASE d \in DOMAIN table /\ e \notin DOMAIN table
    BY <1>9, <1>10, <1>13, <1>14, <1>15, <2>3
  <2>4. CASE d \notin DOMAIN table /\ e \in DOMAIN table
    BY <1>9, <1>10, <1>13, <1>14, <1>15, <2>4
  <2>5. QED BY <1>14, <2>1, <2>2, <2>3, <2>4
<1>17. ASSUME NEW i \in DOMAIN dets PROVE Fits(entries, dets[i])
  <2>1. ASSUME NEW e \in DOMAIN entries, dets[i].name # "", entries[e].id = dets[i].cat
        PROVE  entries[e].name = dets[i].name
    <3>1. PICK n \in Int : dets[i].cat = IntId(n) /\ SourceIdOf(dets[i]) = IntId(n) /\ dets[i].name = title[n]
      BY <1>2, <2>1
    <3>2. entries[e].id = IntId(n)
      BY <2>1, <3>1
    <3>3. CASE e \in DOMAIN table /\ entries[e].id = IntId(e - 1) /\ entries[e].name = table[e]
      <4>1. n = e - 1
        BY <3>2, <3>3, CategoryFacts
      <4>2. e \in 1 .. Len(table)
        BY <1>10, <3>3
      <4>3. n \in 0 .. Len(table) - 1 /\ n + 1 = e
        BY <1>10, <4>1, <4>2
      <4>4. QED BY <3>1, <3>3, <4>3
    <3>4. ASSUME NEW k \in DOMAIN more, entries[e] = more[k] PROVE entries[e].name = dets[i].name
      <4> DEFINE first == Min(With(IntId(n)))
      <4>1. IntId(ordered[k]) = IntId(n) /\ entries[e].name = Named(IntId(ordered[k]))
        BY <1>12, <3>2, <3>4
      <4>2. DOMAIN dets \subseteq Nat
        <5>1. Len(dets) \in Nat /\ DOMAIN dets = 1 .. Len(dets)
          BY SequenceFacts
        <5>2. QED BY <5>1
      <4>3. With(IntId(n)) \in SUBSET Nat /\ i \in With(IntId(n))
        BY <3>1, <4>2
      <4>4. first \in With(IntId(n))
        <5> HIDE DEF With
        <5>1. QED BY <4>3, SmallestFacts
      <4>5. first \in DOMAIN dets /\ SourceIdOf(dets[first]) = IntId(n)
        BY <4>4
      <4>6. Named(IntId(n)) = IF dets[first].name # "" THEN dets[first].name ELSE ToString(IntId(n)[2])
        BY DEF Named
      <4> HIDE DEF first, With
      <4>7. dets[first].name = title[n]
        <5>1. IntId(n) # None
          BY CategoryFacts
        <5>2. PICK m \in Int : SourceIdOf(dets[first]) = IntId(m) /\ dets[first].name = title[m]
          BY <1>3, <4>5, <5>1
        <5>3. m = n
          BY <4>5, <5>2, CategoryFacts
        <5>4. QED BY <5>2, <5>3
      <4>8. QED BY <2>1, <3>1, <4>1, <4>6, <4>7
    <3>5. QED BY <1>14, <3>3, <3>4
  <2>2. QED BY <1>13, <2>1, FitsAll
<1>18. QED BY <1>1, <1>13, <1>16, <1>17

LEMMA HfLoadOdFacts ==
  ASSUME NEW root, IsHfRoot(root)
  PROVE  DatasetOK(HfLoadOd(root)) /\ TaxonomyOK(HfLoadOd(root))
<1> DEFINE rows == KeptRows(root, FALSE)
           ds == HfLoadOd(root)
           table == TableOf(root, FALSE)
           parsed == [i \in DOMAIN rows |-> ParseObjects(rows[i], table)]
           read == FlattenSeq(parsed)
           all == ToSet(read)
           title == Titles(all, table)
           numbered == [i \in DOMAIN rows |-> AssignIds(parsed[i], all, table)]
           dets == FlattenSeq(numbered)
<1>1. IsSequence(rows) /\ \A i \in DOMAIN rows : IsRow(rows[i]) /\ IsName(rows[i].path)
  BY KeptRowFacts DEF AreKept, AreRows, IsHfRoot, IsImages
<1>2. /\ ds.task = "od" /\ ds.entries = HfOdEntries(dets, table) /\ ds.splits = SplitsOf(ds.samples)
      /\ ds.dense => IsDense(ds.entries)
      /\ ds.samples = [i \in DOMAIN rows |-> ds.samples[i]]
      /\ \A i \in DOMAIN rows :
            /\ ds.samples[i].name = rows[i].path /\ ds.samples[i].path = Below(<<"hf">>, rows[i].path)
            /\ ds.samples[i].id = StrId(rows[i].path) /\ ds.samples[i].dets = numbered[i]
  <2> HIDE DEF rows, table
  <2>1. QED BY DEF HfLoadOd, HfOdDataset, Dataset, rows, table
<1>3. IsSequence(table)
  BY TableFacts
<1> HIDE DEF rows, ds, table
<1>4. IsSequence(ds.samples) /\ DOMAIN ds.samples = DOMAIN rows
  BY <1>1, <1>2, MapFacts
<1>5. IsSequence(parsed) /\ DOMAIN parsed = DOMAIN rows /\ \A i \in DOMAIN rows : IsParsed(parsed[i], table)
  <2>1. parsed = [i \in DOMAIN rows |-> parsed[i]] /\ \A i \in DOMAIN rows : IsParsed(parsed[i], table)
    BY <1>1, ParseObjectsFacts
  <2> HIDE DEF parsed
  <2>2. QED BY <1>1, <2>1, MapFacts
<1> HIDE DEF parsed
<1>6. Flattened(read, parsed, Len(parsed)) /\ DOMAIN parsed = 1 .. Len(parsed)
  BY <1>5, FlattenedFacts, SequenceFacts DEF IsParsed
<1> HIDE DEF read
<1>7. IsFiniteSet(all)
  <2>1. IsSequence(read) /\ all = {read[k] : k \in DOMAIN read}
    BY <1>6 DEF Flattened, ToSet
  <2>2. QED BY <2>1, FiniteDomain, FiniteImage
<1>8. \A d \in all : ParsedDet(d, table)
  BY <1>5, <1>6 DEF Flattened, IsParsed, ToSet
<1>9. \A i \in DOMAIN rows : \A m \in DOMAIN parsed[i] : parsed[i][m] \in all
  BY <1>5, <1>6 DEF Flattened, ToSet
<1> HIDE DEF all
<1>10. \A n \in 0 .. Len(table) - 1 : title[n] = table[n + 1]
  BY <1>3, <1>7, <1>8, TitleFacts DEF InUse, Title
<1>11. /\ IsSequence(numbered) /\ DOMAIN numbered = DOMAIN rows
       /\ \A i \in DOMAIN rows : IsDetections(numbered[i]) /\ \A m \in DOMAIN numbered[i] : Classed(numbered[i][m], title)
  <2>1. numbered = [i \in DOMAIN rows |-> numbered[i]]
    OBVIOUS
  <2>2. \A i \in DOMAIN rows : IsDetections(numbered[i]) /\ \A m \in DOMAIN numbered[i] : Classed(numbered[i][m], title)
    <3> SUFFICES ASSUME NEW i \in DOMAIN rows
                 PROVE  IsDetections(numbered[i]) /\ \A m \in DOMAIN numbered[i] : Classed(numbered[i][m], title)
      OBVIOUS
    <3>1. numbered[i] = AssignIds(parsed[i], all, table)
      OBVIOUS
    <3>2. IsSequence(parsed[i]) /\ \A m \in DOMAIN parsed[i] : parsed[i][m] \in all
      BY <1>5, <1>9 DEF IsParsed
    <3> HIDE DEF numbered
    <3>3. QED BY <1>3, <1>7, <1>8, <3>1, <3>2, AssignIdsFacts
  <2> HIDE DEF numbered, title
  <2>3. QED BY <1>1, <2>1, <2>2, MapFacts
<1> HIDE DEF numbered, title
<1>12. Flattened(dets, numbered, Len(numbered)) /\ DOMAIN numbered = 1 .. Len(numbered)
  BY <1>11, FlattenedFacts, SequenceFacts DEF IsDetections
<1> HIDE DEF dets
<1>13. IsSequence(dets) /\ \A k \in DOMAIN dets : Classed(dets[k], title)
  BY <1>11, <1>12 DEF Flattened
<1>14. IsSequence(ds.entries) /\ DistinctIds(ds.entries) /\ \A k \in DOMAIN dets : Fits(ds.entries, dets[k])
  <2> DEFINE entries == HfOdEntries(dets, table)
  <2>1. IsSequence(entries) /\ DistinctIds(entries) /\ \A k \in DOMAIN dets : Fits(entries, dets[k])
    BY <1>3, <1>10, <1>13, HfOdEntriesFacts
  <2>2. ds.entries = entries
    BY <1>2
  <2> HIDE DEF entries
  <2>3. QED BY <2>1, <2>2
<1>15. \A i \in DOMAIN rows : \A m \in DOMAIN numbered[i] : Fits(ds.entries, numbered[i][m])
  BY <1>11, <1>12, <1>14 DEF Flattened
<1>16. IsFiniteSet(ds.splits)
  BY <1>2, <1>4, SplitsFinite
<1>17. \A i \in DOMAIN rows : IsName(Below(<<"hf">>, rows[i].path))
  BY <1>1, BelowFacts
<1>18. \A x : IsId(StrId(x))
  BY DEF IsId, IsInt, StrId
<1>19. IsDataset(ds)
  BY <1>1, <1>2, <1>4, <1>14, <1>16, <1>17 DEF IsDataset
<1>20. TaxonomyOK(ds)
  BY <1>2, <1>4, <1>14, <1>15, DenseFacts DEF TaxonomyOK
<1>21. QED BY <1>2, <1>4, <1>11, <1>18, <1>19, <1>20 DEF DatasetOK, ds

-----------------------------------------------------------------------------
(* YOLO directories of detections. *)

LEMMA DropFirstFacts ==
  ASSUME NEW name, IsName(name), NEW dirs
  PROVE  IsName(DropFirst(name, dirs))
<1> DEFINE dir == Tail(name.dir)
<1>1. DropFirst(name, dirs) \in {name, [name EXCEPT !.dir = dir]}
  BY DEF DropFirst
<1> HIDE DEF dir
<1>2. QED BY <1>1, NameElsewhere

LEMMA OdImageRelFacts ==
  ASSUME NEW s, IsName(s.name), IsName(s.path), NEW split
  PROVE  IsName(OdImageRel(s, split))
<1> DEFINE own == [NoName EXCEPT !.stem = s.id[2], !.ext = "jpg"]
           raw == IF s.name # NoName THEN s.name ELSE IF s.path # NoName THEN BaseName(s.path) ELSE own
<1>1. IsName(own)
  <2> DEFINE stem == s.id[2]
             named == [NoName EXCEPT !.stem = stem]
  <2>1. own = [named EXCEPT !.ext = "jpg"]
    OBVIOUS
  <2> HIDE DEF stem
  <2>2. IsName(named)
    BY NoNameFacts, NameWithStem
  <2> HIDE DEF named
  <2>3. QED BY <2>1, <2>2, NameWithSuffix
<1>2. IsName(raw)
  <2> HIDE DEF own
  <2>1. QED BY <1>1, BaseNameFacts
<1>3. OdImageRel(s, split) = DropFirst(DropFirst(DropFirst(raw, {"images"}), SplitAliases(split)), {"images"})
  BY DEF OdImageRel
<1> HIDE DEF raw
<1>4. QED BY <1>2, <1>3, DropFirstFacts

\* The paths of an image and of its label file have the count of its name.
LEMMA OdPathFacts ==
  ASSUME NEW name, IsName(name), NEW split
  PROVE  /\ IsName(ImagePath(split, name)) /\ ImagePath(split, name).count = name.count
         /\ IsName(LabelPath(split, name)) /\ LabelPath(split, name).count = name.count
<1>1. IsName(WithSuffix(name, "txt")) /\ WithSuffix(name, "txt").count = name.count
  BY NameWithSuffix DEF WithSuffix
<1>2. QED BY <1>1, BelowFacts DEF ImagePath, LabelPath

OdFree(c, root, split, include) ==
  /\ include => ImagePath(split, c) \notin DOMAIN root.images
  /\ LabelPath(split, c) \notin DOMAIN root.labels
OdTurn(a, sample, entries, include, scores, images) == OdWriteSample(a, sample, entries, include, scores)
OdInv(k, a, entries, include, scores, images) == IsYoloRoot(a.root) /\ Extends(a.root.images, images)
OdLoop == INSTANCE Loops WITH Body <- OdTurn, Inv <- OdInv, Free <- OdFree, Counted <- Candidate

\* Some counted name is free for the image and for its labels, and the writer finds one.
LEMMA OdTargetFacts ==
  ASSUME NEW root, IsYoloRoot(root), NEW split, NEW rel, IsName(rel), NEW include
  PROVE  LET target == UniqueOdTarget(root, split, rel, include)
         IN  IsName(target) /\ OdFree(target, root, split, include)
<1> DEFINE count == [f \in DOMAIN root.images \cup DOMAIN root.labels |-> f.count]
           counts == {count[f] : f \in DOMAIN root.images \cup DOMAIN root.labels}
           target == UniqueOdTarget(root, split, rel, include)
<1>1. IsFiniteSet(DOMAIN root.images \cup DOMAIN root.labels)
  BY FS_Union DEF IsYoloRoot, IsImages
<1>2. IsFiniteSet(counts)
  <2> HIDE DEF count
  <2>1. QED BY <1>1, FiniteImage
<1>3. PICK some \in Nat : some >= 1 /\ Candidate(rel, some).count \notin counts
  <2> HIDE DEF counts
  <2>1. QED BY <1>2, SomeCount
<1>4. OdFree(Candidate(rel, some), root, split, include)
  <2> DEFINE c == Candidate(rel, some)
  <2>1. IsName(c) /\ c.count \notin counts
    BY <1>3, CandidateFacts
  <2> HIDE DEF c
  <2>2. ImagePath(split, c).count = c.count /\ LabelPath(split, c).count = c.count
    BY <2>1, OdPathFacts
  <2>3. OdFree(c, root, split, include)
    BY <2>1, <2>2 DEF OdFree
  <2>4. QED BY <2>3 DEF c
<1>5. target = OdLoop!Search(rel, root, split, include)
  BY DEF UniqueOdTarget, FirstFree, OdLoop!Search, OdFree
<1> HIDE DEF target
<1>6. PICK m \in Nat : m >= 1 /\ target = Candidate(rel, m) /\ OdFree(Candidate(rel, m), root, split, include)
  BY <1>3, <1>4, <1>5, OdLoop!SearchFinds
<1>7. IsName(target) /\ OdFree(target, root, split, include)
  BY <1>6, CandidateFacts
<1>8. QED BY <1>7 DEF target

\* The rows of a label file, each of a class by its number.
AreLines(rows) == IsSequence(rows) /\ \A i \in DOMAIN rows : rows[i].class \in Int

LEMMA OdLabelLinesFacts ==
  ASSUME NEW s, IsSequence(s.dets), NEW entries, IsSequence(entries), NEW scores
  PROVE  AreLines(OdLabelLines(s, entries, scores))
<1> DEFINE dets == s.dets
           Box(d) == ClampToImage(d.box)
           Row(d) == [class |-> Resolve(entries, d), box |-> ToYolo(Box(d)), score |-> scores /\ d.score]
           Used(d) == Resolve(entries, d) >= 0 /\ Area(d.box) /\ Area(Box(d))
           parts == [i \in DOMAIN dets |-> IF Used(dets[i]) THEN <<Row(dets[i])>> ELSE <<>>]
           item == [i \in DOMAIN dets |-> Row(dets[i])]
           lines == OdLabelLines(s, entries, scores)
<1>1. lines = <<>> \/ lines = FlattenSeq(parts)
  BY DEF OdLabelLines, Collect
<1>2. /\ parts = [i \in DOMAIN dets |-> parts[i]]
      /\ \A i \in DOMAIN dets : parts[i] = <<>> \/ parts[i] = <<item[i]>>
  <2> HIDE DEF Row, Used, dets
  <2>1. QED OBVIOUS
<1>3. IsSequence(dets)
  OBVIOUS
<1>4. \A i \in DOMAIN dets : item[i].class \in Int
  <2>1. \A d : Resolve(entries, d) \in Int
    <3>1. \A field, value : EntryWith(entries, field, value) \in Nat
      BY EntryFacts
    <3>2. \A d : BySourceId(entries, SourceIdOf(d)) \in Nat /\ ByName(entries, d.name) \in Nat
      BY <3>1 DEF BySourceId, ByName
    <3> SUFFICES ASSUME NEW d PROVE Resolve(entries, d) \in Int
      OBVIOUS
    <3> DEFINE position == BySourceId(entries, SourceIdOf(d))
               named == IF d.name = "" THEN 0 ELSE ByName(entries, d.name)
    <3>3. position \in Nat /\ named \in Nat
      BY <3>2
    <3>4. Resolve(entries, d) = IF position # 0 THEN position - 1 ELSE named - 1
      BY DEF Resolve
    <3> HIDE DEF position, named
    <3>5. QED BY <3>3, <3>4
  <2>2. \A i \in DOMAIN dets : item[i].class = Resolve(entries, dets[i])
    OBVIOUS
  <2> HIDE DEF item
  <2>3. QED BY <2>1, <2>2
<1> HIDE DEF parts, item, dets
<1> DEFINE kept == FlattenSeq(parts)
<1>5. kept = FlattenSeq(parts)
  OBVIOUS
<1> HIDE DEF kept, lines
<1>6. IsSequence(kept) /\ \A j \in DOMAIN kept : \E i \in DOMAIN dets : kept[j] = item[i]
  BY <1>2, <1>3, <1>5, CollectFacts
<1>7. AreLines(kept)
  BY <1>4, <1>6 DEF AreLines
<1>8. AreLines(lines)
  BY <1>1, <1>7, EmptyFacts DEF AreLines, kept
<1>9. QED BY <1>8 DEF lines

LEMMA OdTurnFacts ==
  ASSUME NEW a, NEW s, IsName(s.name), IsName(s.path), IsSequence(s.dets),
         NEW entries, IsSequence(entries), NEW include, NEW scores, NEW images, OdInv(0, a, entries, include, scores, images)
  PROVE  OdInv(0, OdWriteSample(a, s, entries, include, scores), entries, include, scores, images)
<1> DEFINE split == IF s.split = "" THEN "train" ELSE s.split
           rel == OdImageRel(s, split)
           target == UniqueOdTarget(a.root, split, rel, include)
           image == ImagePath(split, target)
           label == LabelPath(split, target)
           lines == OdLabelLines(s, entries, scores)
           more == IF include THEN Put(a.root.images, image, s.image) ELSE a.root.images
           rows == Put(a.root.labels, label, lines)
           root == [a.root EXCEPT !.images = more, !.labels = rows]
           splits == a.splits \cup {Last(label.dir)}
<1>1. OdWriteSample(a, s, entries, include, scores) \in {a, [splits |-> splits, root |-> root]}
  BY DEF OdWriteSample
<1>2. IsName(rel)
  BY OdImageRelFacts
<1>3. IsYoloRoot(a.root) /\ Extends(a.root.images, images)
  BY DEF OdInv
<1> HIDE DEF rel, split
<1>4. IsName(target) /\ OdFree(target, a.root, split, include)
  BY <1>2, <1>3, OdTargetFacts
<1> HIDE DEF target
<1>5. IsName(image) /\ (include => image \notin DOMAIN a.root.images)
  BY <1>4, OdPathFacts DEF OdFree
<1>6. AreLines(lines)
  BY OdLabelLinesFacts
<1> HIDE DEF image, label, lines
<1>7. IsImages(more) /\ Extends(more, images)
  BY <1>3, <1>5, ImagesPut, ExtendsPut DEF IsYoloRoot
<1>8. DOMAIN rows = DOMAIN a.root.labels \cup {label} /\ \A file \in DOMAIN rows : AreLines(rows[file])
  <2>1. \A file \in DOMAIN a.root.labels : AreLines(a.root.labels[file])
    BY <1>3 DEF IsYoloRoot, IsLabels, AreLines
  <2>2. QED BY <1>6, <2>1 DEF Put
<1> HIDE DEF rows, more, splits
<1>9. IsFiniteSet(DOMAIN rows) /\ IsLabels(rows) /\ \A file \in DOMAIN rows : \A i \in DOMAIN rows[file] : rows[file][i].class \in Int
  BY <1>3, <1>8, FS_AddElement DEF IsYoloRoot, IsLabels, AreLines
<1>10. IsYoloRoot(root) /\ root.images = more
  BY <1>3, <1>7, <1>9 DEF IsYoloRoot
<1> HIDE DEF root
<1>11. QED BY <1>1, <1>3, <1>7, <1>10 DEF OdInv

\* The classes of a data.yaml are a list, those of the dataset or of its detections.
LEMMA ProjectionFacts ==
  ASSUME NEW ds, DatasetOK(ds), ds.task = "od"
  PROVE  IsSequence(Projection(ds))
<1> DEFINE lists == [i \in DOMAIN ds.samples |-> ds.samples[i].dets]
           dets == FlattenSeq(lists)
           source == [i \in DOMAIN dets |-> SourceIdOf(dets[i])]
           sources == {source[i] : i \in DOMAIN dets}
           ids == {SourceIdOf(dets[i]) : i \in DOMAIN dets} \ {None}
           integral == {i \in ids : IsInt(i)}
           number == [id \in integral |-> id[2]]
           ints == {id[2] : id \in integral}
           first == [k \in 1 .. Cardinality(ints) |-> IntId(Ascending(ints)[k])]
           texts == InOrder({id \in ids : ~IsInt(id)})
           ordered == first \o texts
           found == DiscoveredIds(ds)
<1>1. found = [k \in DOMAIN ordered |-> found[k]]
  BY DEF DiscoveredIds
<1>2. IsSequence(dets)
  <2>1. IsSequence(ds.samples) /\ \A i \in DOMAIN ds.samples : IsSequence(ds.samples[i].dets)
    BY DEF DatasetOK, IsDataset, IsDetections
  <2>2. lists = [i \in DOMAIN ds.samples |-> lists[i]] /\ \A i \in DOMAIN ds.samples : lists[i] = ds.samples[i].dets
    OBVIOUS
  <2> HIDE DEF lists
  <2>3. IsSequence(lists) /\ DOMAIN lists = DOMAIN ds.samples
    BY <2>1, <2>2, MapFacts
  <2>4. QED BY <2>1, <2>2, <2>3, FlattenFacts DEF Concatenates
<1> HIDE DEF dets
<1>3. IsFiniteSet(ids)
  <2>1. ids \subseteq sources
    OBVIOUS
  <2>2. IsFiniteSet(sources)
    <3> HIDE DEF source
    <3>1. QED BY <1>2, FiniteDomain, FiniteImage
  <2> HIDE DEF ids, sources
  <2>3. QED BY <2>1, <2>2, FS_Subset
<1> HIDE DEF ids
<1>4. IsFiniteSet(ints)
  <2>1. IsFiniteSet(integral)
    BY <1>3, FS_Subset
  <2>2. ints = {number[id] : id \in integral}
    OBVIOUS
  <2> HIDE DEF number, integral, ints
  <2>3. QED BY <2>1, <2>2, FiniteImage
<1> HIDE DEF ints
<1>5. IsSequence(first)
  <2> DEFINE n == Cardinality(ints)
  <2>1. n \in Nat
    BY <1>4, FS_CardinalityType
  <2>2. first = [k \in 1 .. n |-> first[k]]
    OBVIOUS
  <2> HIDE DEF n, first
  <2>3. first \in Seq({first[k] : k \in DOMAIN first})
    BY <2>1, <2>2
  <2>4. QED BY <2>3 DEF IsSequence
<1>6. IsSequence(texts)
  <2>1. IsFiniteSet({id \in ids : ~IsInt(id)})
    BY <1>3, FS_Subset
  <2>2. QED BY <2>1, InOrderFacts
<1> HIDE DEF first, texts
<1>7. IsSequence(ordered)
  BY <1>5, <1>6, ConcatFacts
<1> HIDE DEF ordered, found
<1>8. IsSequence(found)
  BY <1>1, <1>7, MapFacts
<1>9. QED BY <1>8 DEF Projection, DatasetOK, IsDataset, found

\* The writer of detections puts each image where no file is, and leaves the others.
LEMMA YoloWriteOdFacts ==
  ASSUME NEW ds, DatasetOK(ds), ds.task = "od", NEW existing, IsYoloRoot(existing), NEW include, NEW scores
  PROVE  LET root == YoloWriteOd(ds, existing, include, scores)
         IN  IsYoloRoot(root) /\ Extends(root.images, existing.images)
<1> DEFINE entries == Projection(ds)
           images == existing.images
           start == [root |-> existing, splits |-> {}]
           done == OdLoop!Loop(start, ds.samples, entries, include, scores, images)
           n == Len(ds.samples)
           splits == IF done.splits # {} \/ entries = <<>> THEN done.splits
                     ELSE IF ds.splits # {} THEN ds.splits ELSE {"train"}
           names == [i \in DOMAIN entries |-> entries[i].name]
           yaml == [task |-> "od", splits |-> splits \cap DeclaredSplits, names |-> names]
           root == YoloWriteOd(ds, existing, include, scores)
<1>1. n \in Nat /\ DOMAIN ds.samples = 1 .. n
  BY SequenceFacts DEF DatasetOK, IsDataset
<1> HIDE DEF n
<1>2. OdInv(0, start, entries, include, scores, images)
  BY DEF OdInv, Extends
<1>3. root = [done.root EXCEPT !.yaml = yaml]
  BY DEF YoloWriteOd, OdTurn, OdLoop!Loop, FoldLeft, MapThenFoldSet,
         OdLoop!FoldLeft, OdLoop!MapThenFoldSet, Max, OdLoop!Max
<1> HIDE DEF start
<1>4. IsSequence(entries)
  BY ProjectionFacts
<1> HIDE DEF entries
<1>5. OdLoop!Keeps(ds.samples, entries, include, scores, images)
  <2>1. ASSUME NEW a, NEW i \in DOMAIN ds.samples, OdInv(i - 1, a, entries, include, scores, images)
        PROVE  OdInv(i, OdTurn(a, ds.samples[i], entries, include, scores, images), entries, include, scores, images)
    <3>1. IsName(ds.samples[i].name) /\ IsName(ds.samples[i].path) /\ IsSequence(ds.samples[i].dets)
      BY DEF DatasetOK, IsDataset, IsDetections
    <3>2. OdInv(0, a, entries, include, scores, images)
      BY <2>1 DEF OdInv
    <3>3. OdInv(0, OdWriteSample(a, ds.samples[i], entries, include, scores), entries, include, scores, images)
      BY <1>4, <3>1, <3>2, OdTurnFacts
    <3>4. QED BY <3>3 DEF OdInv, OdTurn
  <2>2. QED BY <2>1 DEF OdLoop!Keeps
<1>6. OdInv(n, done, entries, include, scores, images)
  BY <1>1, <1>2, <1>5, OdLoop!LoopInvariant
<1>7. IsFiniteSet(yaml.splits)
  <2>1. IsFiniteSet(DeclaredSplits)
    <3>1. DeclaredSplits = {"train"} \cup {"val"} \cup {"test"}
      BY DEF DeclaredSplits
    <3>2. QED BY <3>1, FS_Singleton, FS_AddElement
  <2> HIDE DEF splits
  <2>2. QED BY <2>1, FS_Subset
<1>8. IsSequence(yaml.names)
  <2>1. names = [i \in DOMAIN entries |-> names[i]]
    OBVIOUS
  <2> HIDE DEF names
  <2>2. QED BY <1>4, <2>1, MapFacts
<1> HIDE DEF yaml, done, root
<1>9. IsYoloRoot(root) /\ root.images = done.root.images
  BY <1>3, <1>6, <1>7, <1>8 DEF OdInv, IsYoloRoot
<1>10. QED BY <1>6, <1>9 DEF OdInv, root

\* The records of a loader: finitely many, each of an image that is there, with a name.
AreRecords(records, images) ==
  IsFiniteSet(records) /\ \A r \in records : r.path \in DOMAIN images /\ IsName(r.name)

LEMMA RecordsOf ==
  ASSUME NEW images, IsImages(images), NEW files, files \subseteq DOMAIN images,
         NEW rec, \A p \in files : rec[p].path = p /\ IsName(rec[p].name)
  PROVE  AreRecords({rec[p] : p \in files}, images)
<1>1. IsFiniteSet(files)
  BY FS_Subset DEF IsImages
<1>2. IsFiniteSet({rec[p] : p \in files})
  BY <1>1, FiniteImage
<1>3. QED BY <1>2 DEF AreRecords

LEMMA RecordsTogether ==
  ASSUME NEW S, IsFiniteSet(S), NEW images, NEW parts, \A s \in S : AreRecords(parts[s], images)
  PROVE  AreRecords(UNION {parts[s] : s \in S}, images)
<1> DEFINE sets == {parts[s] : s \in S}
<1>1. IsFiniteSet(sets) /\ \A T \in sets : AreRecords(T, images)
  BY FiniteImage
<1> HIDE DEF sets
<1>2. IsFiniteSet(UNION sets)
  BY <1>1, FS_UNION DEF AreRecords
<1>3. AreRecords(UNION sets, images)
  BY <1>1, <1>2 DEF AreRecords
<1>4. QED BY <1>3 DEF sets

LEMMA RelativeFacts ==
  ASSUME NEW path, IsName(path), NEW dirs
  PROVE  IsName(RelativeTo(path, dirs))
<1> DEFINE dir == SubSeq(path.dir, Len(dirs) + 1, Len(path.dir))
<1>1. RelativeTo(path, dirs) = [path EXCEPT !.dir = dir]
  BY DEF RelativeTo
<1> HIDE DEF dir
<1>2. QED BY <1>1 DEF IsName

LEMMA IterImagesFacts ==
  ASSUME NEW root, IsImages(root.images), NEW dirs
  PROVE  IterImages(root, dirs) \subseteq DOMAIN root.images /\ \A p \in IterImages(root, dirs) : IsName(p)
BY DEF IterImages, IsImages

LEMMA SplitNamesFinite == IsFiniteSet(DOMAIN SplitOf)
<1> DEFINE A == {"train"} \cup {"training"} \cup {"val"}
           B == {"valid"} \cup {"validation"} \cup {"test"}
<1>1. DOMAIN SplitOf = A \cup B
  BY DEF SplitOf
<1>2. IsFiniteSet(A) /\ IsFiniteSet(B)
  BY FS_Singleton, FS_Union
<1> HIDE DEF A, B
<1>3. QED BY <1>1, <1>2, FS_Union

LEMMA YamlRecordFacts ==
  ASSUME NEW root, IsYoloRoot(root), NEW selected
  PROVE  AreRecords(YamlRecords(root, selected), root.images)
<1> DEFINE splits == root.yaml.splits \cap selected
           Dirs(split) == <<"images", split>>
           Rec(p, split) == Record(p, split, RelativeTo(p, Dirs(split)))
           parts == [split \in splits |-> {Rec(p, split) : p \in IterImages(root, Dirs(split))}]
<1>1. IsFiniteSet(splits)
  BY FS_Subset DEF IsYoloRoot
<1>2. YamlRecords(root, selected) = UNION {parts[split] : split \in splits}
  BY DEF YamlRecords
<1>3. ASSUME NEW split \in splits PROVE AreRecords(parts[split], root.images)
  <2> DEFINE dirs == Dirs(split)
             files == IterImages(root, dirs)
             rec == [p \in files |-> Rec(p, split)]
  <2>1. \A p \in files : rec[p].path = p /\ IsName(rec[p].name)
    <3> HIDE DEF dirs
    <3>1. \A p \in files : IsName(RelativeTo(p, Dirs(split)))
      BY IterImagesFacts, RelativeFacts DEF IsYoloRoot
    <3> HIDE DEF Dirs, files
    <3>2. QED BY <3>1 DEF Record
  <2>2. parts[split] = {rec[p] : p \in files}
    OBVIOUS
  <2> HIDE DEF rec, parts
  <2>3. IsImages(root.images) /\ files \subseteq DOMAIN root.images
    <3> HIDE DEF dirs
    <3>1. QED BY IterImagesFacts DEF IsYoloRoot
  <2> HIDE DEF files
  <2>4. AreRecords({rec[p] : p \in files}, root.images)
    BY <2>1, <2>3, RecordsOf
  <2>5. QED BY <2>2, <2>4
<1> HIDE DEF parts, splits
<1>4. QED BY <1>1, <1>2, <1>3, RecordsTogether

LEMMA StandardRecordFacts ==
  ASSUME NEW root, IsYoloRoot(root), NEW selected, NEW annDir
  PROVE  AreRecords(StandardRecords(root, selected, annDir), root.images)
<1> DEFINE SplitDir(p) == IF Len(p.dir) > 1 THEN InferSplit(p.dir[2]) ELSE ""
           Rec(p) == Record(p, SplitDir(p), RelativeTo(p, IF SplitDir(p) = "" THEN <<"images">> ELSE SubSeq(p.dir, 1, 2)))
           tree == IF annDir \/ HasDir(root.labels, <<"labels">>)
                   THEN {Rec(p) : p \in IterImages(root, <<"images">>)} ELSE {}
           Rec2(p, s) == Record(p, SplitOf[s], RelativeTo(p, <<s, "images">>))
           Below2(s) == IF annDir \/ HasDir(root.labels, <<s, "labels">>)
                        THEN {Rec2(p, s) : p \in IterImages(root, <<s, "images">>)} ELSE {}
           parts == [s \in DOMAIN SplitOf |-> Below2(s)]
           more == UNION {parts[s] : s \in DOMAIN SplitOf}
           records == StandardRecords(root, selected, annDir)
<1>1. records \subseteq tree \cup more
  BY DEF StandardRecords
<1>2. IsImages(root.images)
  BY DEF IsYoloRoot
<1>3. AreRecords({}, root.images)
  BY FS_EmptySet DEF AreRecords
<1>4. AreRecords(tree, root.images)
  <2> DEFINE dirs == <<"images">>
             files == IterImages(root, dirs)
             rec == [p \in files |-> Rec(p)]
  <2>1. \A p \in files : rec[p].path = p /\ IsName(rec[p].name)
    <3> HIDE DEF dirs, SplitDir
    <3>1. \A p \in files : IsName(p)
      BY <1>2, IterImagesFacts
    <3> HIDE DEF files
    <3>2. QED BY <3>1, RelativeFacts DEF Record
  <2>2. {Rec(p) : p \in files} = {rec[p] : p \in files}
    <3> HIDE DEF Rec, files
    <3>1. QED OBVIOUS
  <2>3. tree \in {{}, {Rec(p) : p \in files}}
    OBVIOUS
  <2>4. files \subseteq DOMAIN root.images
    <3> HIDE DEF dirs
    <3>1. QED BY <1>2, IterImagesFacts
  <2> HIDE DEF rec, files, tree, Rec
  <2>5. AreRecords({rec[p] : p \in files}, root.images)
    BY <1>2, <2>1, <2>4, RecordsOf
  <2>6. QED BY <1>3, <2>2, <2>3, <2>5
<1> HIDE DEF tree
<1>5. ASSUME NEW s \in DOMAIN SplitOf PROVE AreRecords(parts[s], root.images)
  <2> DEFINE dirs == <<s, "images">>
             files == IterImages(root, dirs)
             rec == [p \in files |-> Rec2(p, s)]
  <2>1. \A p \in files : rec[p].path = p /\ IsName(rec[p].name)
    <3>1. \A p \in files : IsName(RelativeTo(p, dirs))
      <4> HIDE DEF dirs
      <4>1. QED BY <1>2, IterImagesFacts, RelativeFacts
    <3>2. QED BY <3>1 DEF Record
  <2>2. {Rec2(p, s) : p \in files} = {rec[p] : p \in files}
    <3> HIDE DEF Rec2, files
    <3>1. QED OBVIOUS
  <2>3. parts[s] \in {{}, {Rec2(p, s) : p \in files}}
    OBVIOUS
  <2>4. files \subseteq DOMAIN root.images
    <3> HIDE DEF dirs
    <3>1. QED BY <1>2, IterImagesFacts
  <2> HIDE DEF rec, files, parts, Rec2
  <2>5. AreRecords({rec[p] : p \in files}, root.images)
    BY <1>2, <2>1, <2>4, RecordsOf
  <2>6. QED BY <1>3, <2>2, <2>3, <2>5
<1> HIDE DEF parts
<1>6. AreRecords(more, root.images)
  BY <1>5, SplitNamesFinite, RecordsTogether
<1> HIDE DEF more, records
<1>7. IsFiniteSet(records)
  BY <1>1, <1>4, <1>6, FS_Union, FS_Subset DEF AreRecords
<1>8. AreRecords(records, root.images)
  BY <1>1, <1>4, <1>6, <1>7 DEF AreRecords
<1>9. QED BY <1>8 DEF records

LEMMA LabelRowsFacts ==
  ASSUME NEW root, IsYoloRoot(root), NEW records, NEW r, NEW annDir
  PROVE  AreLines(LabelRows(root, records, r, annDir))
<1> DEFINE path == IF annDir THEN AnnClaim(root, r.path) ELSE InferLabelPath(r.path)
           rows == LabelRows(root, records, r, annDir)
<1>1. rows = <<>> \/ (path \in DOMAIN root.labels /\ rows = root.labels[path])
  BY DEF LabelRows
<1> HIDE DEF path, rows
<1>2. AreLines(rows)
  BY <1>1, EmptyFacts DEF IsYoloRoot, IsLabels, AreLines
<1>3. QED BY <1>2 DEF rows

LEMMA OdTaxonomyFacts ==
  ASSUME NEW root, IsYoloRoot(root), NEW records, IsFiniteSet(records),
         NEW rows, \A r \in records : AreLines(rows[r])
  PROVE  LET entries == OdTaxonomy(root, {rows[r] : r \in records})
         IN  IsSequence(entries) /\ DistinctIds(entries)
<1> DEFINE classes == [r \in records |-> {rows[r][i].class : i \in DOMAIN rows[r]}]
           used == UNION {{s[i].class : i \in DOMAIN s} : s \in {rows[r] : r \in records}}
           ids == Ascending(used)
           entries == NamedEntries(root.yaml.names)
           parts == [i \in DOMAIN entries |-> IF entries[i].name # "" THEN <<entries[i]>> ELSE <<>>]
           found == [i \in DOMAIN ids |-> [id |-> IntId(ids[i]), name |-> "id"]]
           kept == FlattenSeq(parts)
<1>1. IsSequence(kept) /\ DistinctIds(kept)
  <2>1. IsSequence(entries) /\ DistinctIds(entries)
    BY NamedEntryFacts DEF IsYoloRoot
  <2> HIDE DEF entries
  <2>2. parts = [i \in DOMAIN entries |-> parts[i]] /\ \A i \in DOMAIN entries : parts[i] = <<>> \/ parts[i] = <<entries[i]>>
    OBVIOUS
  <2> HIDE DEF parts
  <2>3. QED BY <2>1, <2>2, KeptEntryFacts
<1>2. IsFiniteSet(used) /\ used \in SUBSET Int
  <2>1. ASSUME NEW r \in records PROVE IsFiniteSet(classes[r])
    <3> DEFINE s == rows[r]
               class == [i \in DOMAIN s |-> s[i].class]
    <3>1. classes[r] = {class[i] : i \in DOMAIN s}
      OBVIOUS
    <3>2. IsFiniteSet(DOMAIN s)
      BY FiniteDomain DEF AreLines
    <3> HIDE DEF class, classes, s
    <3>3. QED BY <3>1, <3>2, FiniteImage
  <2>2. used \in SUBSET Int
    BY DEF AreLines
  <2>3. used = UNION {classes[r] : r \in records}
    OBVIOUS
  <2> HIDE DEF classes, used
  <2> DEFINE sets == {classes[r] : r \in records}
  <2>4. IsFiniteSet(sets) /\ \A T \in sets : IsFiniteSet(T)
    BY <2>1, FiniteImage
  <2> HIDE DEF sets
  <2>5. IsFiniteSet(UNION sets)
    BY <2>4, FS_UNION
  <2>6. QED BY <2>3, <2>5, <2>2 DEF sets
<1>3. OdTaxonomy(root, {rows[r] : r \in records}) \in {kept, found}
  BY DEF OdTaxonomy, Keep, Collect
<1> HIDE DEF kept, used
<1>4. IsSequence(found) /\ DistinctIds(found)
  <2>1. IsSequence(ids) /\ Differ(ids)
    BY <1>2, AscendingFacts, AscendingNumbers
  <2>2. found = [i \in DOMAIN ids |-> found[i]] /\ \A i \in DOMAIN ids : found[i].id = IntId(ids[i])
    OBVIOUS
  <2> HIDE DEF ids, found
  <2>3. IsSequence(found) /\ DOMAIN found = DOMAIN ids
    BY <2>1, <2>2, MapFacts
  <2>4. QED BY <2>1, <2>2, <2>3, CategoryFacts DEF DistinctIds, Differ
<1> HIDE DEF found
<1>5. QED BY <1>1, <1>3, <1>4

\* The detections of a label file have no ids.
ParsedRows(rows, entries) == Collect(rows, LAMBDA row : ParsedRow(row, entries))
LEMMA ParsedRowsFacts ==
  ASSUME NEW rows, AreLines(rows), NEW entries
  PROVE  /\ IsDetections(ParsedRows(rows, entries))
         /\ \A j \in DOMAIN ParsedRows(rows, entries) : Fits(entries, ParsedRows(rows, entries)[j])
<1> DEFINE Name(row) == LET i == BySourceId(entries, IntId(row.class)) IN IF i = 0 THEN "" ELSE entries[i].name
           Det(row) == [id |-> None, cat |-> IntId(row.class), src |-> IntId(row.class), name |-> Name(row),
                        box |-> FromYolo(row.box), score |-> row.score, fixed |-> None]
           parts == [i \in DOMAIN rows |-> ParsedRow(rows[i], entries)]
           item == [i \in DOMAIN rows |-> Det(rows[i])]
           dets == FlattenSeq(parts)
<1>1. parts = [i \in DOMAIN rows |-> parts[i]] /\ \A i \in DOMAIN rows : parts[i] = <<>> \/ parts[i] = <<item[i]>>
  BY DEF ParsedRow
<1>2. ASSUME NEW i \in DOMAIN rows
      PROVE  /\ item[i].id = None /\ IsCategory(item[i].cat) /\ IsCategory(item[i].src)
             /\ Fits(entries, item[i])
  <2>1. /\ item[i].id = None /\ item[i].cat = IntId(rows[i].class) /\ item[i].src = IntId(rows[i].class)
        /\ item[i].name = Name(rows[i])
    OBVIOUS
  <2> HIDE DEF item
  <2>2. Fits(entries, item[i])
    BY <2>1 DEF Fits
  <2>3. QED BY <2>1, <2>2, CategoryFacts DEF AreLines
<1>3. ParsedRows(rows, entries) = dets
  BY DEF ParsedRows, Collect
<1> HIDE DEF parts, item
<1>4. IsSequence(dets) /\ \A j \in DOMAIN dets : \E i \in DOMAIN rows : dets[j] = item[i]
  <2>1. IsSequence(rows) /\ dets = FlattenSeq(parts)
    BY DEF AreLines
  <2> HIDE DEF dets
  <2>2. QED BY <1>1, <2>1, CollectFacts
<1> HIDE DEF dets
<1>5. IsId(None)
  BY DEF IsId, IsInt, None
<1>6. IsDetections(dets) /\ \A j \in DOMAIN dets : Fits(entries, dets[j])
  BY <1>2, <1>4, <1>5 DEF IsDetections
<1>7. QED BY <1>3, <1>6

LEMMA YoloLoadOdFacts ==
  ASSUME NEW root, IsYoloRoot(root), NEW selected, NEW annDir
  PROVE  DatasetOK(YoloLoadOd(root, selected, annDir)) /\ TaxonomyOK(YoloLoadOd(root, selected, annDir))
<1> DEFINE records == OdRecords(root, selected, annDir)
           Rows(r) == LabelRows(root, records, r, annDir)
           rows == [r \in records |-> Rows(r)]
           entries == OdTaxonomy(root, {Rows(r) : r \in records})
           Readable(r) == root.images[r.path][2] \in SizeReadable
           Dets(r) == IF Readable(r) THEN ParsedRows(Rows(r), entries) ELSE <<>>
           Sample(r) == [id |-> StrId(r.path), name |-> r.name, path |-> Below(<<"yolo">>, r.path),
                         image |-> root.images[r.path], dims |-> Readable(r), split |-> r.split, dets |-> Dets(r)]
           ordered == InOrder(records)
           samples == [i \in DOMAIN ordered |-> Sample(ordered[i])]
           split == [r \in records |-> r.split]
           splits == IF records = {} THEN IF entries = <<>> THEN {} ELSE root.yaml.splits \cap selected
                     ELSE {r.split : r \in records} \ {""}
           ds == YoloLoadOd(root, selected, annDir)
<1>1. AreRecords(records, root.images)
  BY YamlRecordFacts, StandardRecordFacts DEF OdRecords
<1>2. \A r \in records : AreLines(Rows(r))
  <2> HIDE DEF records
  <2>1. QED BY LabelRowsFacts
<1>3. {split[r] : r \in records} = {r.split : r \in records}
  OBVIOUS
<1>4. ds = Dataset("od", samples, entries, \A i \in DOMAIN entries : entries[i].id = IntId(i - 1), splits)
  BY DEF YoloLoadOd, ParsedRows
<1> HIDE DEF records, ds
<1>5. ds.task = "od" /\ ds.entries = entries /\ ds.splits = splits /\ ds.samples = samples
      /\ (ds.dense => \A i \in DOMAIN entries : entries[i].id = IntId(i - 1))
  <2> HIDE DEF entries, splits, samples
  <2>1. QED BY <1>4 DEF Dataset
<1>6. IsSequence(entries) /\ DistinctIds(entries)
  <2>1. {Rows(r) : r \in records} = {rows[r] : r \in records} /\ \A r \in records : AreLines(rows[r])
    BY <1>2
  <2> HIDE DEF Rows, rows
  <2> DEFINE found == OdTaxonomy(root, {rows[r] : r \in records})
  <2>2. IsSequence(found) /\ DistinctIds(found)
    BY <1>1, <2>1, OdTaxonomyFacts DEF AreRecords
  <2>3. found = entries
    BY <2>1
  <2> HIDE DEF found, entries
  <2>4. QED BY <2>2, <2>3
<1> HIDE DEF entries, rows, Rows
<1>7. \A r \in records : IsDetections(Dets(r)) /\ \A j \in DOMAIN Dets(r) : Fits(entries, Dets(r)[j])
  <2> SUFFICES ASSUME NEW r \in records PROVE IsDetections(Dets(r)) /\ \A j \in DOMAIN Dets(r) : Fits(entries, Dets(r)[j])
    OBVIOUS
  <2>1. IsDetections(<<>>) /\ DOMAIN <<>> = {}
    BY EmptyFacts DEF IsDetections
  <2>2. AreLines(Rows(r))
    BY <1>2
  <2> DEFINE dets == ParsedRows(Rows(r), entries)
  <2>3. IsDetections(dets) /\ \A j \in DOMAIN dets : Fits(entries, dets[j])
    BY <2>2, ParsedRowsFacts
  <2>4. Dets(r) = dets \/ Dets(r) = <<>>
    OBVIOUS
  <2> HIDE DEF dets, Dets
  <2>5. QED BY <2>1, <2>3, <2>4
<1>8. /\ samples = [i \in DOMAIN ordered |-> samples[i]]
      /\ \A i \in DOMAIN ordered :
            /\ samples[i].id = StrId(ordered[i].path) /\ samples[i].name = ordered[i].name
            /\ samples[i].path = Below(<<"yolo">>, ordered[i].path)
            /\ samples[i].dets = Dets(ordered[i])
  <2> HIDE DEF ordered, Dets, Readable
  <2>1. QED OBVIOUS
<1> HIDE DEF Dets, samples
<1>9. IsFiniteSet(splits)
  <2>1. IsFiniteSet({split[r] : r \in records} \ {""})
    <3> HIDE DEF split
    <3>1. IsFiniteSet({split[r] : r \in records})
      BY <1>1, FiniteImage DEF AreRecords
    <3>2. QED BY <3>1, FS_Subset
  <2>2. IsFiniteSet(root.yaml.splits \cap selected)
    BY FS_Subset DEF IsYoloRoot
  <2>3. splits \in {{}, root.yaml.splits \cap selected, {split[r] : r \in records} \ {""}}
    BY <1>3
  <2> HIDE DEF splits, split
  <2>4. QED BY <2>1, <2>2, <2>3, FS_EmptySet
<1>10. IsSequence(ordered) /\ \A i \in DOMAIN ordered : ordered[i] \in records
  BY <1>1, InOrderFacts DEF AreRecords
<1> HIDE DEF ordered, splits
<1>11. IsSequence(samples) /\ DOMAIN samples = DOMAIN ordered
  BY <1>8, <1>10, MapFacts
<1>12. \A i \in DOMAIN ordered : IsName(ordered[i].name) /\ IsName(Below(<<"yolo">>, ordered[i].path))
  <2>1. \A i \in DOMAIN ordered : IsName(ordered[i].name) /\ IsName(ordered[i].path)
    BY <1>1, <1>10 DEF AreRecords, IsYoloRoot, IsImages
  <2>2. QED BY <2>1, BelowFacts
<1>13. \A x : IsId(StrId(x))
  BY DEF IsId, IsInt, StrId
<1>14. IsDataset(ds)
  BY <1>5, <1>6, <1>9, <1>11, <1>12, <1>8 DEF IsDataset
<1>15. \A i \in DOMAIN ds.samples : IsId(ds.samples[i].id) /\ IsDetections(ds.samples[i].dets)
  BY <1>5, <1>7, <1>10, <1>11, <1>13, <1>8
<1>16. \A i \in DOMAIN ds.samples : \A j \in DOMAIN ds.samples[i].dets : Fits(entries, ds.samples[i].dets[j])
  BY <1>5, <1>7, <1>10, <1>11, <1>8
<1>17. TaxonomyOK(ds)
  BY <1>5, <1>6, <1>16 DEF TaxonomyOK
<1>18. ds.task = "od"
  BY <1>5
<1>19. DatasetOK(ds)
  BY <1>14, <1>15, <1>18 DEF DatasetOK
<1>20. QED BY <1>17, <1>19 DEF ds

-----------------------------------------------------------------------------
(* YOLO directories of classes. *)

IcTurn(a, sample, ds, images, r, t) == IcWriteSample(a, sample, ds)
IcInv(k, a, ds, images, r, t) == IsYoloRoot(a) /\ Extends(a.images, images)
IcLoop == INSTANCE Loops WITH Body <- IcTurn, Inv <- IcInv, Free <- NotIn, Counted <- Candidate

LEMMA IcTurnFacts ==
  ASSUME NEW a, NEW s, IsName(s.name), IsName(s.path), NEW ds, NEW images, IsYoloRoot(a), Extends(a.images, images)
  PROVE  IsYoloRoot(IcWriteSample(a, s, ds)) /\ Extends(IcWriteSample(a, s, ds).images, images)
<1> DEFINE split == IF s.split = "" THEN "train" ELSE s.split
           class == ClassName(s.labels[1], ds)
           raw == IF s.name # NoName THEN s.name ELSE s.path
           dir == <<split, class>>
           seed == [raw EXCEPT !.dir = dir]
           target == FirstFree(seed, LAMBDA c : c \notin DOMAIN a.images)
           more == Put(a.images, target, s.image)
           dirs == a.dirs \cup {target.dir}
           root == [a EXCEPT !.images = more, !.dirs = dirs]
           next == IcWriteSample(a, s, ds)
<1>1. next \in {a, root}
  BY DEF IcWriteSample
<1>2. IsName(seed)
  <2> HIDE DEF dir
  <2>1. QED BY NameElsewhere
<1> HIDE DEF seed
<1>3. target = Names!Search(seed, DOMAIN a.images, 0, 0)
  BY DEF FirstFree, Names!Search, NotIn
<1> HIDE DEF target
<1>4. IsName(target) /\ target \notin DOMAIN a.images
  BY <1>2, <1>3, FreeNameFacts DEF IsYoloRoot, IsImages
<1>5. IsImages(more) /\ Extends(more, images)
  BY <1>4, ImagesPut, ExtendsPut DEF IsYoloRoot
<1>6. IsFiniteSet(dirs)
  BY FS_AddElement DEF IsYoloRoot
<1> HIDE DEF more, dirs
<1>7. IsYoloRoot(root) /\ Extends(root.images, images)
  BY <1>5, <1>6 DEF IsYoloRoot
<1> HIDE DEF root, next
<1>8. IsYoloRoot(next) /\ Extends(next.images, images)
  BY <1>1, <1>7
<1>9. QED BY <1>8 DEF next

LEMMA IcWrittenFacts ==
  ASSUME NEW ds, IsDataset(ds), NEW existing, IsYoloRoot(existing)
  PROVE  IsYoloRoot(IcWritten(ds, existing)) /\ Extends(IcWritten(ds, existing).images, existing.images)
<1> DEFINE images == existing.images
           start == [existing EXCEPT !.dirs = {}]
           done == IcLoop!Loop(start, ds.samples, ds, images, 0, 0)
           n == Len(ds.samples)
<1>1. n \in Nat /\ DOMAIN ds.samples = 1 .. n
  BY SequenceFacts DEF IsDataset
<1> HIDE DEF n
<1>2. IcInv(0, start, ds, images, 0, 0)
  BY FS_EmptySet DEF IcInv, Extends, IsYoloRoot
<1>3. IcWritten(ds, existing) = done
  BY DEF IcWritten, IcTurn, IcLoop!Loop, FoldLeft, MapThenFoldSet,
         IcLoop!FoldLeft, IcLoop!MapThenFoldSet, Max, IcLoop!Max
<1> HIDE DEF start
<1>4. IcLoop!Keeps(ds.samples, ds, images, 0, 0)
  <2>1. ASSUME NEW a, NEW i \in DOMAIN ds.samples, IcInv(i - 1, a, ds, images, 0, 0)
        PROVE  IcInv(i, IcTurn(a, ds.samples[i], ds, images, 0, 0), ds, images, 0, 0)
    <3>1. IsName(ds.samples[i].name) /\ IsName(ds.samples[i].path)
      BY DEF IsDataset
    <3>2. IsYoloRoot(a) /\ Extends(a.images, images)
      BY <2>1 DEF IcInv
    <3> HIDE DEF images
    <3>3. QED BY <3>1, <3>2, IcTurnFacts DEF IcInv, IcTurn
  <2>2. QED BY <2>1 DEF IcLoop!Keeps
<1>5. IcInv(n, done, ds, images, 0, 0)
  BY <1>1, <1>2, <1>4, IcLoop!LoopInvariant
<1>6. QED BY <1>3, <1>5 DEF IcInv

LEMMA ClassDirsFinite ==
  ASSUME NEW ds, IsDataset(ds), NEW written, IsFiniteSet(written.dirs)
  PROVE  IsFiniteSet(ClassDirs(written, ds))
<1> DEFINE split == [d \in written.dirs |-> d[1]]
           splits == {split[d] : d \in written.dirs}
           all == IF splits # {} THEN splits ELSE IF ds.splits # {} THEN ds.splits ELSE {"train"}
           name == [i \in DOMAIN ds.entries |-> ds.entries[i].name]
           names == {name[i] : i \in DOMAIN ds.entries}
<1>1. ClassDirs(written, ds) = {<<s, ds.entries[i].name>> : s \in all, i \in DOMAIN ds.entries}
  <2>1. splits = {d[1] : d \in written.dirs}
    OBVIOUS
  <2> HIDE DEF splits
  <2>2. QED BY <2>1 DEF ClassDirs
<1>2. IsFiniteSet(all)
  <2>1. IsFiniteSet(splits)
    <3> HIDE DEF split
    <3>1. QED BY FiniteImage
  <2> HIDE DEF splits
  <2>2. QED BY <2>1, FS_Singleton DEF IsDataset
<1> HIDE DEF all
<1>3. ClassDirs(written, ds) \subseteq all \X names
  BY <1>1
<1>4. IsFiniteSet(names)
  <2> HIDE DEF name
  <2>1. QED BY FiniteDomain, FiniteImage DEF IsDataset
<1> HIDE DEF names
<1>5. IsFiniteSet(all \X names)
  BY <1>2, <1>4, FS_Product
<1>6. QED BY <1>3, <1>5, FS_Subset

\* The writer of classes puts each image where no file is, and leaves the others.
LEMMA YoloWriteIcFacts ==
  ASSUME NEW ds, IsDataset(ds), NEW existing, IsYoloRoot(existing), NEW remote
  PROVE  LET root == YoloWriteIc(ds, existing, remote)
         IN  IsYoloRoot(root) /\ Extends(root.images, existing.images)
<1> DEFINE written == IcWritten(ds, existing)
           dirs == ClassDirs(written, ds)
           kept == IF remote \/ written.images # existing.images THEN dirs ELSE {}
           seen == written.dirs \cup dirs
           more == written.dirs \cup existing.dirs
           all == written.dirs \cup existing.dirs \cup kept
           markers == IF remote THEN written.markers \cup (dirs \ written.dirs) ELSE written.markers
           split == [d \in seen |-> d[1]]
           splits == {d[1] : d \in seen} \cap DeclaredSplits
           name == [d \in seen |-> d[2]]
           set == {d[2] : d \in seen}
           names == InOrder(set)
           yaml == [task |-> "ic", splits |-> splits, names |-> names]
           root == YoloWriteIc(ds, existing, remote)
           partial == [written EXCEPT !.dirs = more]
           complete == [written EXCEPT !.dirs = all, !.markers = markers, !.yaml = yaml]
<1>1. IsYoloRoot(written) /\ Extends(written.images, existing.images)
  BY IcWrittenFacts
<1>2. root \in {partial, complete}
  <2> HIDE DEF written
  <2>1. QED BY DEF YoloWriteIc, written
<1> HIDE DEF written, root
<1>3. IsFiniteSet(dirs)
  BY <1>1, ClassDirsFinite DEF IsYoloRoot
<1> HIDE DEF dirs
<1>4. IsFiniteSet(more) /\ IsFiniteSet(all) /\ IsFiniteSet(seen)
  <2>1. IsFiniteSet(written.dirs) /\ IsFiniteSet(existing.dirs) /\ IsFiniteSet(kept)
    BY <1>1, <1>3, FS_EmptySet DEF IsYoloRoot
  <2> HIDE DEF kept
  <2>2. QED BY <1>3, <2>1, FS_Union
<1> HIDE DEF more, all, seen, markers
<1>5. IsFiniteSet(splits)
  <2>1. {d[1] : d \in seen} = {split[d] : d \in seen}
    OBVIOUS
  <2> HIDE DEF split
  <2>2. IsFiniteSet({split[d] : d \in seen})
    BY <1>4, FiniteImage
  <2>3. QED BY <2>1, <2>2, FS_Subset
<1>6. IsSequence(names)
  <2>1. set = {name[d] : d \in seen}
    OBVIOUS
  <2> HIDE DEF name, set
  <2>2. IsFiniteSet(set)
    BY <1>4, <2>1, FiniteImage
  <2>3. QED BY <2>2, InOrderFacts
<1> HIDE DEF splits, names
<1>7. IsYoloRoot(partial) /\ partial.images = written.images
  BY <1>1, <1>4 DEF IsYoloRoot
<1>8. IsYoloRoot(complete) /\ complete.images = written.images
  <2>1. yaml.splits = splits /\ yaml.names = names
    OBVIOUS
  <2> HIDE DEF yaml
  <2>2. QED BY <1>1, <1>4, <1>5, <1>6, <2>1 DEF IsYoloRoot
<1> HIDE DEF partial, complete
<1>9. IsYoloRoot(root) /\ Extends(root.images, existing.images)
  BY <1>1, <1>2, <1>7, <1>8
<1>10. QED BY <1>9 DEF root

LEMMA ClassDirsOfFinite ==
  ASSUME NEW root, IsFiniteSet(root.dirs), NEW selected
  PROVE  IsFiniteSet(ClassDirsOf(root, selected))
<1> DEFINE deep == {e \in root.dirs : e[1] \in DOMAIN SplitOf /\ Visible(e[2]) /\ SplitOf[e[1]] \in selected}
           flat == {e \in root.dirs : Visible(e[1])}
           one == [d \in deep |-> [at |-> d, split |-> SplitOf[d[1]], class |-> d[2]]]
           two == [d \in flat |-> [at |-> <<d[1]>>, split |-> "", class |-> d[1]]]
           ones == {one[d] : d \in deep}
           twos == {two[d] : d \in flat}
<1>1. ClassDirsOf(root, selected) \in {ones, {}, twos}
  <2>1. ones = {[at |-> d, split |-> SplitOf[d[1]], class |-> d[2]] : d \in deep}
    OBVIOUS
  <2>2. twos = {[at |-> <<d[1]>>, split |-> "", class |-> d[1]] : d \in flat}
    OBVIOUS
  <2> HIDE DEF ones, twos
  <2>3. QED BY <2>1, <2>2 DEF ClassDirsOf
<1>2. IsFiniteSet(deep) /\ IsFiniteSet(flat)
  BY FS_Subset
<1>3. IsFiniteSet(ones) /\ IsFiniteSet(twos)
  <2> HIDE DEF one, two, deep, flat
  <2>1. QED BY <1>2, FiniteImage
<1> HIDE DEF ones, twos
<1>4. QED BY <1>1, <1>3, FS_EmptySet

LEMMA YoloLoadIcFacts ==
  ASSUME NEW root, IsYoloRoot(root), NEW selected
  PROVE  DatasetOK(YoloLoadIc(root, selected)) /\ TaxonomyOK(YoloLoadIc(root, selected))
<1> DEFINE dirs == ClassDirsOf(root, selected)
           set == {d.class : d \in dirs}
           class == [d \in dirs |-> d.class]
           split == [d \in dirs |-> d.split]
           classes == IF dirs = {} THEN root.yaml.names ELSE InOrder(set)
           entries == NamedEntries(classes)
           Sample(d, p) == [id |-> StrId(p), name |-> p, path |-> Below(<<"yolo">>, p),
                            image |-> root.images[p], dims |-> FALSE, split |-> d.split, region |-> FALSE,
                            labels |-> <<[cat |-> IntId(ByName(entries, d.class) - 1),
                                          src |-> IntId(ByName(entries, d.class) - 1), name |-> d.class, fixed |-> None]>>]
           In(d) == {Sample(d, p) : p \in IterImages(root, d.at)}
           all == UNION {In(d) : d \in dirs}
           samples == InOrder(all)
           splits == IF samples # <<>> THEN SplitsOf(samples)
                     ELSE IF dirs = {} THEN root.yaml.splits \cap selected ELSE {d.split : d \in dirs} \ {""}
           ds == YoloLoadIc(root, selected)
<1>1. IsFiniteSet(dirs)
  BY ClassDirsOfFinite DEF IsYoloRoot
<1>2. ds = Dataset("ic", samples, entries, TRUE, splits)
  BY DEF YoloLoadIc
<1> HIDE DEF ds, dirs
<1>3. ds.task = "ic" /\ ds.samples = samples /\ ds.entries = entries /\ ds.splits = splits
  <2> HIDE DEF samples, entries, splits
  <2>1. QED BY <1>2 DEF Dataset
<1>4. /\ IsSequence(entries) /\ DistinctIds(entries)
      /\ \A i \in DOMAIN entries : i \in Int /\ entries[i].id = IntId(i - 1)
  <2>1. IsFiniteSet(set)
    <3>1. set = {class[d] : d \in dirs}
      OBVIOUS
    <3> HIDE DEF class, set
    <3>2. QED BY <1>1, <3>1, FiniteImage
  <2> HIDE DEF set
  <2>2. IsSequence(classes)
    BY <2>1, InOrderFacts DEF IsYoloRoot
  <2> HIDE DEF classes
  <2>3. DOMAIN classes \subseteq Int
    BY <2>2, SequenceFacts
  <2>4. QED BY <2>2, <2>3, NamedEntryFacts
<1>5. ASSUME NEW d \in dirs, NEW p, NEW j \in DOMAIN Sample(d, p).labels
       PROVE  Fits(entries, Sample(d, p).labels[j])
  <2> DEFINE k == ByName(entries, d.class)
             l == [cat |-> IntId(k - 1), src |-> IntId(k - 1), name |-> d.class, fixed |-> None]
             one == <<l>>
  <2>1. Sample(d, p).labels = one
    OBVIOUS
  <2>2. j \in DOMAIN one
    BY <1>5, <2>1
  <2>3. one[1] = l /\ DOMAIN one = 1 .. 1
    BY SingleFacts
  <2>4. l.cat = IntId(k - 1) /\ l.name = d.class
    OBVIOUS
  <2> HIDE DEF one, l, Sample, entries
  <2>5. Sample(d, p).labels[j] = l
    BY <2>1, <2>2, <2>3
  <2>6. k \in Nat /\ (k # 0 => k \in DOMAIN entries /\ entries[k].name = d.class)
    BY <1>4, EntryFacts DEF ByName
  <2> HIDE DEF k
  <2>7. CASE k # 0
    BY <1>4, <2>4, <2>5, <2>6, <2>7, FitsAt
  <2>8. CASE k = 0
    <3>1. \A i \in DOMAIN entries : entries[i].id # l.cat
      <4> SUFFICES ASSUME NEW i \in DOMAIN entries, entries[i].id = l.cat PROVE FALSE
        OBVIOUS
      <4>1. i - 1 = k - 1
        BY <1>4, <2>4, CategoryFacts
      <4>2. i = 0
        BY <1>4, <2>8, <4>1
      <4>3. 0 \notin DOMAIN entries
        BY <1>4, SequenceFacts
      <4>4. QED BY <4>2, <4>3
    <3>2. Fits(entries, l)
      BY <1>4, <3>1, FitsAll
    <3>3. QED BY <2>5, <3>2
  <2>9. QED BY <2>7, <2>8
<1> HIDE DEF entries
<1>6. ASSUME NEW d \in dirs
      PROVE  IsFiniteSet(In(d)) /\ \A s \in In(d) : IsName(s.name) /\ IsName(s.path) /\ \A j \in DOMAIN s.labels : Fits(entries, s.labels[j])
  <2> DEFINE files == IterImages(root, d.at)
             one == [p \in files |-> Sample(d, p)]
  <2>1. files \subseteq DOMAIN root.images
    BY DEF IterImages
  <2>2. In(d) = {one[p] : p \in files}
    <3> HIDE DEF Sample
    <3>1. QED OBVIOUS
  <2>3. \A p \in files : \A j \in DOMAIN one[p].labels : Fits(entries, one[p].labels[j])
    <3>1. \A p \in files : one[p] = Sample(d, p)
      OBVIOUS
    <3> HIDE DEF Sample, one, files
    <3>2. QED BY <1>5, <3>1
  <2>4. \A p \in files : one[p].name = p /\ one[p].path = Below(<<"yolo">>, p)
    OBVIOUS
  <2> HIDE DEF files, one, In
  <2>5. IsFiniteSet(files) /\ \A p \in files : IsName(p)
    BY <2>1, FS_Subset DEF IsYoloRoot, IsImages
  <2>6. IsFiniteSet({one[p] : p \in files})
    BY <2>5, FiniteImage
  <2>7. \A p \in files : IsName(one[p].name) /\ IsName(one[p].path)
    BY <2>4, <2>5, BelowFacts
  <2>8. QED BY <2>2, <2>6, <2>7, <2>3
<1> HIDE DEF In
<1>7. IsFiniteSet(all) /\ \A s \in all : IsName(s.name) /\ IsName(s.path) /\ \A j \in DOMAIN s.labels : Fits(entries, s.labels[j])
  <2> DEFINE part == [d \in dirs |-> In(d)]
             parts == {part[d] : d \in dirs}
  <2>1. all = UNION parts
    OBVIOUS
  <2>2. \A T \in parts : IsFiniteSet(T) /\ \A s \in T : IsName(s.name) /\ IsName(s.path) /\ \A j \in DOMAIN s.labels : Fits(entries, s.labels[j])
    BY <1>6
  <2>3. IsFiniteSet(parts)
    <3> HIDE DEF part
    <3>1. QED BY <1>1, FiniteImage
  <2> HIDE DEF parts, all
  <2>4. IsFiniteSet(all)
    BY <2>1, <2>2, <2>3, FS_UNION
  <2>5. QED BY <2>1, <2>2, <2>4
<1> HIDE DEF all
<1>8. IsSequence(samples) /\ \A i \in DOMAIN samples : samples[i] \in all
  BY <1>7, InOrderFacts
<1> HIDE DEF samples
<1>9. IsFiniteSet(splits)
  <2>1. IsFiniteSet({d.split : d \in dirs} \ {""})
    <3>1. {d.split : d \in dirs} = {split[d] : d \in dirs}
      OBVIOUS
    <3> HIDE DEF split
    <3>2. IsFiniteSet({split[d] : d \in dirs})
      BY <1>1, FiniteImage
    <3>3. QED BY <3>1, <3>2, FS_Subset
  <2>2. IsFiniteSet(root.yaml.splits \cap selected)
    BY FS_Subset DEF IsYoloRoot
  <2>3. IsFiniteSet(SplitsOf(samples))
    BY <1>8, SplitsFinite
  <2>4. splits \in {SplitsOf(samples), root.yaml.splits \cap selected, {d.split : d \in dirs} \ {""}}
    OBVIOUS
  <2> HIDE DEF splits
  <2>5. QED BY <2>1, <2>2, <2>3, <2>4
<1> HIDE DEF splits
<1>10. IsDataset(ds)
  BY <1>3, <1>4, <1>7, <1>8, <1>9 DEF IsDataset
<1>11. TaxonomyOK(ds)
  BY <1>3, <1>4, <1>7, <1>8 DEF TaxonomyOK
<1>12. QED BY <1>3, <1>10, <1>11 DEF DatasetOK, ds

-----------------------------------------------------------------------------
(* Lists that are sorted, or kept in part. *)

\* Two lists of elements of a set make a list of them.
LEMMA BothFacts ==
  ASSUME NEW a, IsSequence(a), NEW b, IsSequence(b), NEW S, \A i \in DOMAIN a : a[i] \in S, \A i \in DOMAIN b : b[i] \in S
  PROVE  IsSequence(a \o b) /\ \A i \in DOMAIN (a \o b) : (a \o b)[i] \in S
<1> DEFINE both == a \o b
<1>1. /\ IsSequence(both) /\ DOMAIN both = 1 .. Len(a) + Len(b)
      /\ \A i \in 1 .. Len(a) : both[i] = a[i]
      /\ \A i \in 1 .. Len(b) : both[Len(a) + i] = b[i]
  BY ConcatFacts
<1>2. Len(a) \in Nat /\ DOMAIN a = 1 .. Len(a) /\ Len(b) \in Nat /\ DOMAIN b = 1 .. Len(b)
  BY SequenceFacts
<1> HIDE DEF both
<1>3. ASSUME NEW i \in DOMAIN both PROVE both[i] \in S
  <2>1. CASE i <= Len(a)
    BY <1>1, <1>2, <2>1
  <2>2. CASE i > Len(a)
    <3>1. i - Len(a) \in 1 .. Len(b) /\ Len(a) + (i - Len(a)) = i
      BY <1>1, <1>2, <2>2
    <3>2. QED BY <1>1, <1>2, <3>1
  <2>3. QED BY <1>1, <1>2, <2>1, <2>2
<1>4. QED BY <1>1, <1>3 DEF both

\* The elements at some of the places, all of them.
LEMMA ThoseFacts ==
  ASSUME NEW s, IsSequence(s), NEW places
  PROVE  /\ IsSequence(Those(s, places))
         /\ \A j \in DOMAIN Those(s, places) : \E i \in DOMAIN s : i \in places /\ Those(s, places)[j] = s[i]
         /\ \A i \in DOMAIN s : i \in places => \E j \in DOMAIN Those(s, places) : Those(s, places)[j] = s[i]
<1> DEFINE parts == [i \in DOMAIN s |-> IF i \in places THEN <<s[i]>> ELSE <<>>]
           flat == FlattenSeq(parts)
<1>1. parts = [i \in DOMAIN s |-> parts[i]]
  OBVIOUS
<1>2. \A i \in DOMAIN s : parts[i] = <<>> \/ parts[i] = <<s[i]>>
  OBVIOUS
<1>3. \A i \in DOMAIN s : (parts[i] # <<>> => i \in places) /\ (i \in places => parts[i] = <<s[i]>>)
  OBVIOUS
<1>4. Those(s, places) = flat
  BY DEF Those
<1> HIDE DEF parts, flat
<1>5. IsSequence(flat) /\ \A j \in DOMAIN flat : \E i \in DOMAIN s : flat[j] = s[i] /\ parts[i] # <<>>
  <2> HIDE DEF parts
  <2>1. QED BY <1>1, <1>2, CollectFacts DEF flat
<1>6. \A i \in DOMAIN s : parts[i] = <<s[i]>> => \E j \in DOMAIN flat : flat[j] = s[i]
  BY <1>1, <1>2, CollectedFacts DEF flat
<1>7. QED BY <1>3, <1>4, <1>5, <1>6

\* A list in the order of its keys is a list of its elements; each is there if the keys are numbers.
LEMMA SortedFacts ==
  ASSUME NEW s, IsSequence(s), NEW keys
  PROVE  /\ IsSequence(SortedBy(s, keys))
         /\ \A j \in DOMAIN SortedBy(s, keys) : \E i \in DOMAIN s : SortedBy(s, keys)[j] = s[i]
         /\ (\A i \in DOMAIN s : keys[i] \in Int) =>
               \A i \in DOMAIN s : \E j \in DOMAIN SortedBy(s, keys) : SortedBy(s, keys)[j] = s[i]
<1> DEFINE used == {keys[i] : i \in DOMAIN s}
           ranks == Ascending(used)
           places == [k \in DOMAIN ranks |-> {i \in DOMAIN s : keys[i] = ranks[k]}]
           parts == [k \in DOMAIN ranks |-> Those(s, places[k])]
           flat == FlattenSeq(parts)
<1>1. SortedBy(s, keys) = flat
  BY DEF SortedBy
<1>2. IsFiniteSet(used) /\ IsSequence(ranks)
  <2>1. IsFiniteSet(used)
    BY FiniteDomain, FiniteImage
  <2> HIDE DEF used
  <2>2. QED BY <2>1, AscendingFacts
<1>3. (\A i \in DOMAIN s : keys[i] \in Int) => \A i \in DOMAIN s : \E k \in DOMAIN ranks : i \in places[k]
  <2> SUFFICES ASSUME \A i \in DOMAIN s : keys[i] \in Int, NEW i \in DOMAIN s
               PROVE  \E k \in DOMAIN ranks : keys[i] = ranks[k]
    OBVIOUS
  <2>1. used \in SUBSET Int /\ keys[i] \in used
    OBVIOUS
  <2> HIDE DEF used
  <2>2. QED BY <1>2, <2>1, AscendingNumbers
<1>4. parts = [k \in DOMAIN ranks |-> parts[k]] /\ \A k \in DOMAIN ranks : parts[k] = Those(s, places[k])
  OBVIOUS
<1> HIDE DEF ranks, places, parts
<1>5. IsSequence(parts) /\ DOMAIN parts = DOMAIN ranks /\ \A k \in DOMAIN parts : IsSequence(parts[k])
  BY <1>2, <1>4, MapFacts, ThoseFacts
<1>6. Flattened(flat, parts, Len(parts)) /\ DOMAIN parts = 1 .. Len(parts)
  BY <1>5, FlattenedFacts, SequenceFacts
<1> HIDE DEF flat
<1>7. IsSequence(flat)
  BY <1>6 DEF Flattened
<1>8. ASSUME NEW j \in DOMAIN flat PROVE \E i \in DOMAIN s : flat[j] = s[i]
  <2>1. PICK k \in DOMAIN ranks : \E m \in DOMAIN parts[k] : flat[j] = parts[k][m]
    BY <1>5, <1>6 DEF Flattened
  <2>2. QED BY <1>4, <2>1, ThoseFacts
<1>9. ASSUME NEW i \in DOMAIN s, NEW k \in DOMAIN ranks, i \in places[k] PROVE \E j \in DOMAIN flat : flat[j] = s[i]
  <2>1. PICK m \in DOMAIN parts[k] : parts[k][m] = s[i]
    BY <1>4, <1>9, ThoseFacts
  <2>2. QED BY <1>5, <1>6, <2>1 DEF Flattened
<1>10. QED BY <1>1, <1>3, <1>7, <1>8, <1>9

\* How long a concatenation is depends on the lengths of its parts only.
LEMMA EqualLengths ==
  ASSUME NEW parts, IsSequence(parts), NEW others, IsSequence(others), Len(others) = Len(parts),
         \A i \in DOMAIN parts : IsSequence(parts[i]) /\ IsSequence(others[i]) /\ Len(others[i]) = Len(parts[i])
  PROVE  Len(FlattenSeq(others)) = Len(FlattenSeq(parts))
<1> DEFINE n == Len(parts)
<1>1. n \in Nat /\ DOMAIN parts = 1 .. n /\ DOMAIN others = 1 .. n
  BY SequenceFacts
<1>2. CASE n = 0
  <2>1. FlattenSeq(parts) = parts /\ FlattenSeq(others) = others
    BY <1>2 DEF FlattenSeq
  <2>2. QED BY <2>1
<1>3. CASE n # 0
  <2>1. PICK f : /\ f[1] = parts[1] /\ FlattenSeq(parts) = f[n]
                 /\ \A k \in 1 .. n - 1 : f[k + 1] = f[k] \o parts[k + 1]
    BY <1>3, FlattenTurns
  <2>2. PICK g : /\ g[1] = others[1] /\ FlattenSeq(others) = g[n]
                 /\ \A k \in 1 .. n - 1 : g[k + 1] = g[k] \o others[k + 1]
    <3>1. Len(others) # 0 /\ Len(others) = n
      BY <1>3
    <3> HIDE DEF n
    <3>2. QED BY <3>1, FlattenTurns
  <2> DEFINE Alike(k) == IsSequence(f[k]) /\ IsSequence(g[k]) /\ Len(f[k]) = Len(g[k])
             T == {k \in Nat : k + 1 <= n => Alike(k + 1)}
  <2>3. \A k \in 1 .. n : IsSequence(parts[k]) /\ IsSequence(others[k]) /\ Len(others[k]) = Len(parts[k])
    BY <1>1
  <2> HIDE DEF n
  <2>4. 0 \in T
    <3>1. 1 \in 1 .. n
      BY <1>1, <1>3
    <3>2. QED BY <2>1, <2>2, <2>3, <3>1
  <2>5. ASSUME NEW k \in Nat, k \in T PROVE k + 1 \in T
    <3>1. CASE (k + 1) + 1 <= n
      <4> DEFINE m == k + 1
      <4>1. m \in 1 .. n - 1 /\ m + 1 \in 1 .. n /\ Alike(m)
        BY <1>1, <2>5, <3>1
      <4> HIDE DEF m
      <4>2. f[m + 1] = f[m] \o parts[m + 1] /\ g[m + 1] = g[m] \o others[m + 1]
        BY <2>1, <2>2, <4>1
      <4> DEFINE a == parts[m + 1]
                 b == others[m + 1]
      <4>3. IsSequence(a) /\ IsSequence(b) /\ Len(b) = Len(a) /\ f[m + 1] = f[m] \o a /\ g[m + 1] = g[m] \o b
        BY <2>3, <4>1, <4>2
      <4> HIDE DEF a, b
      <4>4. IsSequence(f[m]) /\ IsSequence(g[m]) /\ Len(f[m]) = Len(g[m])
        BY <4>1
      <4> DEFINE x == f[m]
                 y == g[m]
      <4>5. IsSequence(x) /\ IsSequence(y) /\ Len(x) = Len(y) /\ f[m + 1] = x \o a /\ g[m + 1] = y \o b
        BY <4>3, <4>4
      <4> HIDE DEF x, y
      <4>6. IsSequence(x \o a) /\ Len(x \o a) = Len(x) + Len(a)
        BY <4>3, <4>5, ConcatFacts
      <4>7. IsSequence(y \o b) /\ Len(y \o b) = Len(y) + Len(b)
        BY <4>3, <4>5, ConcatFacts
      <4>8. Alike(m + 1)
        BY <4>3, <4>5, <4>6, <4>7
      <4>9. QED BY <4>8 DEF m
    <3>2. QED BY <3>1
  <2>6. n - 1 \in T
    <3> HIDE DEF T
    <3>1. Nat \subseteq T
      BY <2>4, <2>5, Names!UpTo
    <3>2. QED BY <1>1, <1>3, <3>1
  <2>7. Alike(n)
    BY <1>1, <1>3, <2>6
  <2>8. QED BY <2>1, <2>2, <2>7
<1>4. QED BY <1>2, <1>3

-----------------------------------------------------------------------------
(* Sequences of frames with their boxes. *)

AreBoxes(boxes) == IsSequence(boxes) /\ \A i \in DOMAIN boxes : boxes[i].frame \in Nat

LEMMA OrderFacts ==
  ASSUME NEW boxes, AreBoxes(boxes)
  PROVE  AreBoxes(FrameOrder(boxes)) /\ AreBoxes(RowOrder(boxes))
<1>1. ASSUME NEW some, AreBoxes(some), NEW keys PROVE AreBoxes(SortedBy(some, keys))
  <2>1. /\ IsSequence(SortedBy(some, keys))
        /\ \A j \in DOMAIN SortedBy(some, keys) : \E i \in DOMAIN some : SortedBy(some, keys)[j] = some[i]
    BY <1>1, SortedFacts DEF AreBoxes
  <2>2. QED BY <1>1, <2>1 DEF AreBoxes
<1>2. ASSUME NEW some, AreBoxes(some) PROVE AreBoxes(FrameOrder(some))
  BY <1>1, <1>2 DEF FrameOrder
<1>3. QED BY <1>1, <1>2 DEF RowOrder

\* The frames that a writer copies are some of those of the sequence.
LEMMA MaterializedFacts ==
  ASSUME NEW seq, IsFrames(seq.frames), NEW before, IsFrames(before)
  PROVE  IsFrames(MaterializeFrames(seq)) /\ IsFrames(Over(MaterializeFrames(seq), before))
<1> DEFINE frames == MaterializeFrames(seq)
<1>1. DOMAIN frames \subseteq DOMAIN seq.frames
  BY DEF MaterializeFrames
<1> HIDE DEF frames
<1>2. IsFrames(frames)
  BY <1>1, FS_Subset DEF IsFrames
<1>3. DOMAIN Over(frames, before) = DOMAIN frames \cup DOMAIN before
  BY DEF Over
<1>4. IsFrames(Over(frames, before))
  BY <1>2, <1>3, FS_Union DEF IsFrames
<1>5. QED BY <1>2, <1>4 DEF frames

\* The rows that a format makes of the boxes are of the frames of the boxes.
LEMMA RowFacts ==
  ASSUME NEW boxes, AreBoxes(boxes), NEW parts, parts = [i \in DOMAIN RowOrder(boxes) |-> parts[i]],
         \A i \in DOMAIN RowOrder(boxes) :
            IsSequence(parts[i]) /\ \A m \in DOMAIN parts[i] : parts[i][m].frame = RowOrder(boxes)[i].frame
  PROVE  IsRowFile(<<FlattenSeq(parts)>>)
<1> DEFINE ordered == RowOrder(boxes)
           rows == FlattenSeq(parts)
           file == <<rows>>
<1>1. AreBoxes(ordered)
  BY OrderFacts
<1> HIDE DEF ordered
<1>2. IsSequence(parts) /\ DOMAIN parts = DOMAIN ordered
  BY <1>1, MapFacts DEF AreBoxes, ordered
<1>3. Concatenates(rows, parts)
  BY <1>2, FlattenFacts DEF ordered
<1> HIDE DEF rows
<1>4. IsSequence(rows) /\ \A j \in DOMAIN rows : rows[j].frame \in Int
  <2>1. ASSUME NEW j \in DOMAIN rows PROVE rows[j].frame \in Int
    <3>1. PICK i \in DOMAIN parts : \E m \in DOMAIN parts[i] : rows[j] = parts[i][m]
      BY <1>3 DEF Concatenates
    <3>2. rows[j].frame = ordered[i].frame
      BY <1>2, <3>1 DEF ordered
    <3>3. QED BY <1>1, <1>2, <3>1, <3>2 DEF AreBoxes
  <2>2. QED BY <1>3, <2>1 DEF Concatenates
<1>5. file[1] = rows
  OBVIOUS
<1>6. file = <<file[1]>>
  OBVIOUS
<1> HIDE DEF file
<1>7. IsRowFile(file)
  BY <1>4, <1>5, <1>6 DEF IsRowFile
<1>8. QED BY <1>7 DEF file, rows

LEMMA ResolvedFinite ==
  ASSUME NEW box, NEW attribute, NEW classMap, NEW table
  PROVE  IsFiniteSet(ResolveClass(box, attribute, classMap, table))
BY FS_Singleton, FS_EmptySet DEF ResolveClass

-----------------------------------------------------------------------------
(* MOTChallenge. *)

LEMMA MotRowFacts ==
  ASSUME NEW box, NEW source, NEW classMap
  PROVE  /\ IsSequence(MotRow(box, source, classMap))
         /\ \A m \in DOMAIN MotRow(box, source, classMap) : MotRow(box, source, classMap)[m].frame = box.frame
<1> DEFINE classes == {c \in ResolveClass(box, "mot_class_id", classMap, <<>>) : c.id > 0 /\ MotTrack(box) > 0}
           gt == [c \in classes |-> [frame |-> box.frame, id |-> MotTrack(box), bbox |-> box.bbox,
                                     conf |-> Attr(box, "confidence", 1), class |-> c.id]]
           rows == IF source = "gt" THEN MotGtRow(box, classMap) ELSE MotDetRow(box)
<1>1. IsFiniteSet(classes)
  BY ResolvedFinite, FS_Subset
<1>2. MotGtRow(box, classMap) = {gt[c] : c \in classes} /\ \A c \in classes : gt[c].frame = box.frame
  <2> HIDE DEF classes
  <2>1. QED BY DEF MotGtRow, classes
<1> HIDE DEF classes, gt
<1>3. IsFiniteSet(MotGtRow(box, classMap)) /\ \A row \in MotGtRow(box, classMap) : row.frame = box.frame
  BY <1>1, <1>2, FiniteImage
<1>4. IsFiniteSet(MotDetRow(box)) /\ \A row \in MotDetRow(box) : row.frame = box.frame
  <2> DEFINE row == [frame |-> box.frame, id |-> MotTrack(box), bbox |-> box.bbox,
                     conf |-> FirstAttr(box, <<"score", "confidence">>, 1), class |-> 0]
  <2>1. MotDetRow(box) = {row} /\ row.frame = box.frame
    BY DEF MotDetRow
  <2> HIDE DEF row
  <2>2. QED BY <2>1, FS_Singleton
<1>5. IsFiniteSet(rows) /\ \A row \in rows : row.frame = box.frame
  BY <1>3, <1>4
<1>6. MotRow(box, source, classMap) = InOrder(rows)
  BY DEF MotRow
<1> HIDE DEF rows
<1>7. QED BY <1>5, <1>6, InOrderFacts

MotTurn(acc, seq, p, q, r, t) == MotWriteSequence(acc, seq, p, q, r, t)
MotInv(k, a, p, q, r, t) == IsMotRoot(a.root)
MotLoop == INSTANCE Loops WITH Body <- MotTurn, Inv <- MotInv, Free <- NotIn, Counted <- Candidate

IsMotDir(dir) ==
  /\ dir = [frames |-> dir.frames, gt |-> dir.gt, det |-> dir.det, info |-> dir.info]
  /\ IsFrames(dir.frames) /\ IsRowFile(dir.gt) /\ IsRowFile(dir.det)
  /\ dir.info # <<>> => dir.info[1].rate \in Int

LEMMA MotTurnFacts ==
  ASSUME NEW acc, IsMotRoot(acc.root), NEW seq, IsTrackSequence(seq),
         NEW fallback, NEW preserve, NEW source \in {"gt", "det"}, NEW classMap
  PROVE  IsMotRoot(MotWriteSequence(acc, seq, fallback, preserve, source, classMap).root)
<1> DEFINE split == MotSplit(seq, fallback, preserve)
           name == UniqueSequenceName(seq, {n[2] : n \in {m \in acc.used : m[1] = split}})
           place == <<split, name>>
           earlier == IF place \in DOMAIN acc.root THEN acc.root[place] ELSE NoSequence
           frames == MaterializeFrames(seq)
           ordered == RowOrder(seq.boxes)
           parts == [i \in DOMAIN ordered |->
                       IF ordered[i].frame \in DOMAIN MaterializeFrames(seq) /\ Positive(ordered[i].bbox)
                       THEN MotRow(ordered[i], source, classMap) ELSE <<>>]
           file == <<FlattenSeq(parts)>>
           info == <<[name |-> name, length |-> Max(DOMAIN frames) + 1, rate |-> seq.fps]>>
           after == [earlier EXCEPT !.frames = Over(frames, @), ![source] = file, !.info = info]
           done == MotWriteSequence(acc, seq, fallback, preserve, source, classMap).root
<1>1. done = IF frames = <<>> THEN acc.root ELSE Put(acc.root, place, after)
  BY DEF MotWriteSequence, RowsOfBoxes
<1>2. IsMotDir(earlier)
  <2>1. IsFrames(<<>>) /\ IsRowFile(<<>>)
    BY EmptyFacts, FS_EmptySet DEF IsFrames, IsRowFile
  <2>2. IsMotDir(NoSequence)
    BY <2>1 DEF IsMotDir, NoSequence
  <2> HIDE DEF place
  <2>3. QED BY <2>2 DEF IsMotRoot, IsMotDir
<1>3. IsRowFile(file)
  <2>1. AreBoxes(seq.boxes)
    BY DEF IsTrackSequence, AreBoxes
  <2>2. parts = [i \in DOMAIN ordered |-> parts[i]]
    OBVIOUS
  <2>3. \A i \in DOMAIN ordered : parts[i] = MotRow(ordered[i], source, classMap) \/ parts[i] = <<>>
    OBVIOUS
  <2> HIDE DEF parts
  <2>4. \A i \in DOMAIN ordered :
           IsSequence(parts[i]) /\ \A m \in DOMAIN parts[i] : parts[i][m].frame = ordered[i].frame
    BY <2>3, MotRowFacts, EmptyFacts
  <2>5. QED BY <2>1, <2>2, <2>4, RowFacts
<1>4. info # <<>> => info[1].rate \in Int
  BY DEF IsTrackSequence
<1>5. IsFrames(Over(frames, earlier.frames))
  BY <1>2, MaterializedFacts DEF IsTrackSequence, IsMotDir
<1> HIDE DEF earlier, frames, file, info
<1>6. IsMotDir(after)
  <2> DEFINE more == Over(frames, earlier.frames)
  <2>1. earlier = [frames |-> earlier.frames, gt |-> earlier.gt, det |-> earlier.det, info |-> earlier.info]
    BY <1>2 DEF IsMotDir
  <2>2. IsRowFile(earlier.gt) /\ IsRowFile(earlier.det) /\ IsFrames(more)
    BY <1>2, <1>5 DEF IsMotDir
  <2>3. after = [[[earlier EXCEPT !.frames = more] EXCEPT ![source] = file] EXCEPT !.info = info]
    OBVIOUS
  <2> HIDE DEF more, after
  <2>4. CASE source = "gt"
    <3>1. after = [frames |-> more, gt |-> file, det |-> earlier.det, info |-> info]
      BY <2>1, <2>3, <2>4
    <3>2. QED BY <1>3, <1>4, <2>2, <3>1 DEF IsMotDir
  <2>5. CASE source = "det"
    <3>1. after = [frames |-> more, gt |-> earlier.gt, det |-> file, info |-> info]
      BY <2>1, <2>3, <2>5
    <3>2. QED BY <1>3, <1>4, <2>2, <3>1 DEF IsMotDir
  <2>6. QED BY <2>4, <2>5
<1> HIDE DEF after, place, done
<1> DEFINE more == Put(acc.root, place, after)
<1>7. DOMAIN more = DOMAIN acc.root \cup {place} /\ more[place] = after /\ \A x \in DOMAIN acc.root : x # place => more[x] = acc.root[x]
  BY DEF Put
<1> HIDE DEF more
<1>8. IsFiniteSet(DOMAIN acc.root) /\ \A x \in DOMAIN acc.root : IsMotDir(acc.root[x])
  BY DEF IsMotRoot, IsMotDir
<1>9. IsFiniteSet(DOMAIN more) /\ \A x \in DOMAIN more : IsMotDir(more[x])
  <2>1. IsFiniteSet(DOMAIN more)
    BY <1>7, <1>8, FS_AddElement
  <2>2. ASSUME NEW x \in DOMAIN more PROVE IsMotDir(more[x])
    <3>1. CASE x = place
      BY <1>6, <1>7, <3>1
    <3>2. CASE x # place
      BY <1>7, <1>8, <3>2
    <3>3. QED BY <3>1, <3>2
  <2>3. QED BY <2>1, <2>2
<1>10. IsMotRoot(more)
  BY <1>9 DEF IsMotRoot, IsMotDir
<1>11. QED BY <1>1, <1>10 DEF more, done

LEMMA MotWriteFacts ==
  ASSUME NEW ds, ds.task = "mot", DatasetOK(ds), NEW existing, IsMotRoot(existing),
         NEW fallback, NEW preserve, NEW source \in {"gt", "det"}, NEW classMap
  PROVE  IsMotRoot(MotWrite(ds, existing, fallback, preserve, source, classMap))
<1> DEFINE start == [used |-> {}, root |-> existing]
           done == MotLoop!Loop(start, ds.seqs, fallback, preserve, source, classMap)
           n == Len(ds.seqs)
<1>1. /\ n \in Nat /\ DOMAIN ds.seqs = 1 .. n
      /\ \A i \in DOMAIN ds.seqs : IsTrackSequence(ds.seqs[i])
  BY SequenceFacts DEF DatasetOK
<1>2. MotWrite(ds, existing, fallback, preserve, source, classMap) = done.root
  BY DEF MotWrite, MotTurn, MotLoop!Loop, FoldLeft, MapThenFoldSet,
         MotLoop!FoldLeft, MotLoop!MapThenFoldSet, Max, MotLoop!Max
<1>3. MotInv(0, start, fallback, preserve, source, classMap)
  BY DEF MotInv
<1>4. MotLoop!Keeps(ds.seqs, fallback, preserve, source, classMap)
  BY <1>1, MotTurnFacts DEF MotLoop!Keeps, MotInv, MotTurn
<1> HIDE DEF start, n
<1>5. MotInv(n, done, fallback, preserve, source, classMap)
  BY <1>1, <1>3, <1>4, MotLoop!LoopInvariant
<1>6. QED BY <1>2, <1>5 DEF MotInv

LEMMA MotBoxesFacts ==
  ASSUME NEW place, NEW rows, IsSequence(rows), \A i \in DOMAIN rows : rows[i].frame \in Int,
         NEW source, NEW ignored, NEW wanted
  PROVE  AreBoxes(MotBoxes(place, rows, source, ignored, wanted))
<1> DEFINE boxes == MotBoxes(place, rows, source, ignored, wanted)
           item == [line \in DOMAIN rows |-> MotBox(place, rows[line], line, source)]
           parts == [line \in DOMAIN rows |-> IF MotKept(rows[line], source, ignored, wanted)
                                              THEN <<MotBox(place, rows[line], line, source)>> ELSE <<>>]
<1>1. boxes = FlattenSeq(parts)
  BY DEF MotBoxes
<1>2. /\ parts = [line \in DOMAIN rows |-> parts[line]]
      /\ \A line \in DOMAIN rows : parts[line] = <<>> \/ parts[line] = <<item[line]>>
  OBVIOUS
<1>3. \A line \in DOMAIN rows : parts[line] # <<>> => rows[line].frame >= 0
  BY DEF MotKept
<1>4. \A line \in DOMAIN rows : item[line].frame = rows[line].frame
  BY DEF MotBox
<1> HIDE DEF item, parts, boxes
<1>5. IsSequence(boxes) /\ \A j \in DOMAIN boxes : \E line \in DOMAIN rows : boxes[j] = item[line] /\ parts[line] # <<>>
  <2>1. parts = [line \in DOMAIN rows |-> parts[line]]
    BY <1>2
  <2>2. \A line \in DOMAIN rows : parts[line] = <<>> \/ parts[line] = <<item[line]>>
    BY <1>2
  <2>3. /\ IsSequence(FlattenSeq(parts))
        /\ \A j \in DOMAIN FlattenSeq(parts) :
              \E line \in DOMAIN rows : FlattenSeq(parts)[j] = item[line] /\ parts[line] # <<>>
    BY <2>1, <2>2, CollectFacts, SMTT(60)
  <2>4. QED BY <1>1, <2>3
<1>6. ASSUME NEW j \in DOMAIN boxes PROVE boxes[j].frame \in Nat
  BY <1>3, <1>4, <1>5
<1>7. AreBoxes(boxes)
  BY <1>5, <1>6 DEF AreBoxes
<1>8. QED BY <1>7 DEF boxes

LEMMA MotLoadFacts ==
  ASSUME NEW root, IsMotRoot(root), NEW source \in {"gt", "det"}, NEW ignored, NEW wanted
  PROVE  DatasetOK(MotLoad(root, source, ignored, wanted))
<1> DEFINE With(split) == {place \in DOMAIN root : place[1] = split /\ root[place][source] # <<>>}
           places == InOrder(With("train")) \o InOrder(With("test"))
           Sequence(place, vid) == MotSequence(place, root[place], vid, source, ignored, wanted)
           seqs == [i \in DOMAIN places |-> Sequence(places[i], i - 1)]
           ds == MotLoad(root, source, ignored, wanted)
<1>1. ds.task = "mot" /\ ds.seqs = seqs
  BY DEF MotLoad, Tracks
<1>2. IsSequence(places) /\ \A i \in DOMAIN places : places[i] \in DOMAIN root /\ root[places[i]][source] # <<>>
  <2> DEFINE a == InOrder(With("train"))
             b == InOrder(With("test"))
  <2>1. \A split : IsFiniteSet(With(split))
    BY FS_Subset DEF IsMotRoot
  <2>2. /\ IsSequence(a) /\ \A i \in DOMAIN a : a[i] \in With("train")
        /\ IsSequence(b) /\ \A i \in DOMAIN b : b[i] \in With("test")
    <3> HIDE DEF With
    <3>1. QED BY <2>1, InOrderFacts
  <2>3. \A split : \A place \in With(split) : place \in DOMAIN root /\ root[place][source] # <<>>
    OBVIOUS
  <2> HIDE DEF With, a, b
  <2> DEFINE S == With("train") \cup With("test")
  <2>4. (\A i \in DOMAIN a : a[i] \in S) /\ \A i \in DOMAIN b : b[i] \in S
    BY <2>2
  <2>5. \A place \in S : place \in DOMAIN root /\ root[place][source] # <<>>
    BY <2>3
  <2> HIDE DEF S
  <2>6. IsSequence(a \o b) /\ \A i \in DOMAIN (a \o b) : (a \o b)[i] \in S
    BY <2>2, <2>4, BothFacts
  <2>7. QED BY <2>5, <2>6 DEF a, b
<1>3. ASSUME NEW place \in DOMAIN root, root[place][source] # <<>>, NEW vid \in Nat
      PROVE  IsTrackSequence(Sequence(place, vid))
  <2> DEFINE dir == root[place]
             file == dir[source]
             seq == Sequence(place, vid)
  <2>1. IsMotDir(dir) /\ file # <<>>
    BY <1>3 DEF IsMotRoot, IsMotDir
  <2>2. /\ seq.vid = vid /\ seq.video = <<>> /\ seq.frames = dir.frames
        /\ seq.boxes = MotBoxes(place, file[1], source, ignored, wanted)
        /\ seq.fps = IF dir.info = <<>> THEN 0 ELSE dir.info[1].rate
    BY DEF MotSequence
  <2> HIDE DEF seq, dir
  <2>3. IsRowFile(file)
    <3>1. source = "gt" \/ source = "det"
      OBVIOUS
    <3>2. QED BY <2>1, <3>1 DEF IsMotDir
  <2>4. AreBoxes(seq.boxes)
    BY <2>1, <2>2, <2>3, MotBoxesFacts DEF IsRowFile
  <2>5. seq.fps \in Int /\ IsFrames(seq.frames) /\ IsFilm(seq.video)
    BY <2>1, <2>2 DEF IsMotDir, IsFilm
  <2>6. IsTrackSequence(seq)
    BY <1>3, <2>2, <2>4, <2>5 DEF IsTrackSequence, AreBoxes
  <2>7. QED BY <2>6 DEF seq, dir
<1>4. seqs = [i \in DOMAIN places |-> seqs[i]] /\ \A i \in DOMAIN places : seqs[i] = Sequence(places[i], i - 1)
  OBVIOUS
<1> HIDE DEF seqs, places, ds, Sequence
<1>5. IsSequence(seqs) /\ DOMAIN seqs = DOMAIN places
  BY <1>2, <1>4, MapFacts
<1>6. ASSUME NEW i \in DOMAIN seqs PROVE IsTrackSequence(seqs[i])
  <2>1. i - 1 \in Nat
    BY <1>2, <1>5, SequenceFacts
  <2>2. QED BY <1>2, <1>3, <1>4, <1>5, <2>1
<1>7. DatasetOK(ds)
  BY <1>1, <1>5, <1>6 DEF DatasetOK
<1>8. QED BY <1>7 DEF ds

-----------------------------------------------------------------------------
(* VisDrone video. *)

LEMMA VisRowFacts ==
  ASSUME NEW box, NEW source, NEW classMap
  PROVE  /\ IsSequence(VisRow(box, source, classMap))
         /\ \A m \in DOMAIN VisRow(box, source, classMap) : VisRow(box, source, classMap)[m].frame = box.frame
<1> DEFINE target == Attr(box, "visdrone_target_id", box.track)
           score == FirstAttr(box, <<"visdrone_score", "score", "confidence">>, 1)
           classes == {c \in ResolveClass(box, "visdrone_category_id", classMap, VisClassNames) :
                         /\ c.id >= 0
                         /\ \/ source = "det" \/ target > 0 \/ score <= 0
                            \/ c.id = 0 /\ ~c.guessed}
           row == [c \in classes |-> [frame |-> box.frame, id |-> target, bbox |-> box.bbox, score |-> score, class |-> c.id]]
           rows == {row[c] : c \in classes}
<1>1. IsFiniteSet(classes)
  BY ResolvedFinite, FS_Subset
<1>2. VisRow(box, source, classMap) = InOrder(rows) /\ \A c \in classes : row[c].frame = box.frame
  <2> HIDE DEF classes, score
  <2>1. rows = {[frame |-> box.frame, id |-> target, bbox |-> box.bbox, score |-> score, class |-> c.id] : c \in classes}
    OBVIOUS
  <2>2. \A c \in classes : row[c].frame = box.frame
    OBVIOUS
  <2> HIDE DEF rows
  <2>3. QED BY <2>1, <2>2 DEF VisRow, classes, score
<1> HIDE DEF classes, row
<1>3. IsFiniteSet(rows) /\ \A r \in rows : r.frame = box.frame
  BY <1>1, <1>2, FiniteImage
<1> HIDE DEF rows
<1>4. QED BY <1>2, <1>3, InOrderFacts

VisTurn(acc, seq, p, q, r, t) == VisWriteSequence(acc, seq, p[1], p[2], q, r, t)
VisInv(k, a, p, q, r, t) == IsVisRoot(a.root)
VisLoop == INSTANCE Loops WITH Body <- VisTurn, Inv <- VisInv, Free <- NotIn, Counted <- Candidate

LEMMA VisTurnFacts ==
  ASSUME NEW acc, IsVisRoot(acc.root), NEW seq, IsTrackSequence(seq),
         NEW variant, NEW fallback, NEW preserve, NEW source, NEW classMap
  PROVE  IsVisRoot(VisWriteSequence(acc, seq, variant, fallback, preserve, source, classMap).root)
<1> DEFINE home == <<VisVariant(seq, variant), VisSplit(seq, fallback, preserve)>>
           name == UniqueSequenceName(seq, {n[3] : n \in {m \in acc.used : <<m[1], m[2]>> = home}})
           place == Append(home, name)
           earlier == IF place \in DOMAIN acc.root THEN acc.root[place].frames ELSE <<>>
           frames == MaterializeFrames(seq)
           ordered == RowOrder(seq.boxes)
           parts == [i \in DOMAIN ordered |->
                       IF ordered[i].frame \in DOMAIN MaterializeFrames(seq) /\ Positive(ordered[i].bbox)
                       THEN VisRow(ordered[i], source, classMap) ELSE <<>>]
           file == <<FlattenSeq(parts)>>
           after == [frames |-> Over(frames, earlier), rows |-> file]
           done == VisWriteSequence(acc, seq, variant, fallback, preserve, source, classMap).root
<1>1. done = IF frames = <<>> THEN acc.root ELSE Put(acc.root, place, after)
  BY DEF VisWriteSequence, RowsOfBoxes
<1>2. IsFrames(earlier)
  <2>1. IsFrames(<<>>)
    BY EmptyFacts, FS_EmptySet DEF IsFrames
  <2> HIDE DEF place
  <2>2. QED BY <2>1 DEF IsVisRoot
<1>3. IsRowFile(file)
  <2>1. AreBoxes(seq.boxes)
    BY DEF IsTrackSequence, AreBoxes
  <2>2. parts = [i \in DOMAIN ordered |-> parts[i]]
    OBVIOUS
  <2>3. \A i \in DOMAIN ordered : parts[i] = VisRow(ordered[i], source, classMap) \/ parts[i] = <<>>
    OBVIOUS
  <2> HIDE DEF parts
  <2>4. \A i \in DOMAIN ordered :
           IsSequence(parts[i]) /\ \A m \in DOMAIN parts[i] : parts[i][m].frame = ordered[i].frame
    BY <2>3, VisRowFacts, EmptyFacts
  <2>5. QED BY <2>1, <2>2, <2>4, RowFacts
<1>4. IsFrames(Over(frames, earlier))
  BY <1>2, MaterializedFacts DEF IsTrackSequence
<1>5. IsFrames(after.frames) /\ IsRowFile(after.rows)
  <2> HIDE DEF frames, earlier, file
  <2>1. QED BY <1>3, <1>4
<1> HIDE DEF earlier, frames, file, after, place, done
<1> DEFINE more == Put(acc.root, place, after)
<1>6. DOMAIN more = DOMAIN acc.root \cup {place} /\ more[place] = after /\ \A x \in DOMAIN acc.root : x # place => more[x] = acc.root[x]
  BY DEF Put
<1> HIDE DEF more
<1>7. IsFiniteSet(DOMAIN more)
  BY <1>6, FS_AddElement DEF IsVisRoot
<1>8. \A x \in DOMAIN more : IsFrames(more[x].frames) /\ IsRowFile(more[x].rows)
  BY <1>5, <1>6 DEF IsVisRoot
<1>9. IsVisRoot(more)
  BY <1>7, <1>8 DEF IsVisRoot
<1>10. QED BY <1>1, <1>9 DEF more, done

LEMMA VisWriteFacts ==
  ASSUME NEW ds, ds.task = "mot", DatasetOK(ds), NEW existing, IsVisRoot(existing),
         NEW variant, NEW fallback, NEW preserve, NEW source, NEW classMap
  PROVE  IsVisRoot(VisWrite(ds, existing, variant, fallback, preserve, source, classMap))
<1> DEFINE start == [used |-> {}, root |-> existing]
           way == <<variant, fallback>>
           done == VisLoop!Loop(start, ds.seqs, way, preserve, source, classMap)
           n == Len(ds.seqs)
<1>1. /\ n \in Nat /\ DOMAIN ds.seqs = 1 .. n
      /\ \A i \in DOMAIN ds.seqs : IsTrackSequence(ds.seqs[i])
  BY SequenceFacts DEF DatasetOK
<1>2. VisWrite(ds, existing, variant, fallback, preserve, source, classMap) \in {existing, done.root}
  BY DEF VisWrite, VisTurn, VisLoop!Loop, FoldLeft, MapThenFoldSet,
         VisLoop!FoldLeft, VisLoop!MapThenFoldSet, Max, VisLoop!Max
<1>3. VisInv(0, start, way, preserve, source, classMap)
  BY DEF VisInv
<1> HIDE DEF way
<1>4. VisLoop!Keeps(ds.seqs, way, preserve, source, classMap)
  BY <1>1, VisTurnFacts DEF VisLoop!Keeps, VisInv, VisTurn
<1> HIDE DEF start, n
<1>5. VisInv(n, done, way, preserve, source, classMap)
  BY <1>1, <1>3, <1>4, VisLoop!LoopInvariant
<1>6. QED BY <1>2, <1>5 DEF VisInv

LEMMA VisBoxesFacts ==
  ASSUME NEW place, NEW rows, IsSequence(rows), \A i \in DOMAIN rows : rows[i].frame \in Int,
         NEW source, NEW ignored, NEW wanted
  PROVE  AreBoxes(VisBoxes(place, rows, source, ignored, wanted))
<1> DEFINE boxes == VisBoxes(place, rows, source, ignored, wanted)
           item == [line \in DOMAIN rows |-> VisBox(place, rows[line], line, source)]
           parts == [line \in DOMAIN rows |-> IF VisKept(rows[line], source, ignored, wanted)
                                              THEN <<VisBox(place, rows[line], line, source)>> ELSE <<>>]
<1>1. boxes = FlattenSeq(parts)
  BY DEF VisBoxes
<1>2. /\ parts = [line \in DOMAIN rows |-> parts[line]]
      /\ \A line \in DOMAIN rows : parts[line] = <<>> \/ parts[line] = <<item[line]>>
  OBVIOUS
<1>3. \A line \in DOMAIN rows : parts[line] # <<>> => rows[line].frame >= 0
  BY DEF VisKept
<1>4. \A line \in DOMAIN rows : item[line].frame = rows[line].frame
  BY DEF VisBox
<1> HIDE DEF item, parts, boxes
<1>5. IsSequence(boxes) /\ \A j \in DOMAIN boxes : \E line \in DOMAIN rows : boxes[j] = item[line] /\ parts[line] # <<>>
  <2>1. parts = [line \in DOMAIN rows |-> parts[line]]
    BY <1>2
  <2>2. \A line \in DOMAIN rows : parts[line] = <<>> \/ parts[line] = <<item[line]>>
    BY <1>2
  <2>3. /\ IsSequence(FlattenSeq(parts))
        /\ \A j \in DOMAIN FlattenSeq(parts) :
              \E line \in DOMAIN rows : FlattenSeq(parts)[j] = item[line] /\ parts[line] # <<>>
    BY <2>1, <2>2, CollectFacts, SMTT(60)
  <2>4. QED BY <1>1, <2>3
<1>6. ASSUME NEW j \in DOMAIN boxes PROVE boxes[j].frame \in Nat
  BY <1>3, <1>4, <1>5
<1>7. AreBoxes(boxes)
  BY <1>5, <1>6 DEF AreBoxes
<1>8. QED BY <1>7 DEF boxes

LEMMA VisLoadFacts ==
  ASSUME NEW root, IsVisRoot(root), NEW variant, NEW source, NEW ignored, NEW wanted
  PROVE  DatasetOK(VisLoad(root, variant, source, ignored, wanted))
<1> DEFINE ranked == [k \in 1 .. Len(VisSplitOrder) + 1 |->
                        {place \in DOMAIN root : root[place].rows # <<>> /\ VisSplitRank(place[2]) = k}]
           Of(v, k) == InOrder({place \in ranked[k] : place[1] = v})
           parts == [k \in DOMAIN ranked |-> Of("mot", k) \o Of("vid", k)]
           places == FlattenSeq(parts)
           Sequence(place, vid) == VisSequence(place, root[place], vid, variant, source, ignored, wanted)
           seqs == [i \in DOMAIN places |-> Sequence(places[i], i - 1)]
           ds == VisLoad(root, variant, source, ignored, wanted)
           Listed_ == {place \in DOMAIN root : root[place].rows # <<>>}
<1>1. ds.task = "mot" /\ ds.seqs = seqs
  BY DEF VisLoad, Tracks
<1>2. IsSequence(ranked) /\ \A k \in DOMAIN ranked : ranked[k] \subseteq Listed_ /\ IsFiniteSet(ranked[k])
  <2>1. Len(VisSplitOrder) = 5
    BY DEF VisSplitOrder
  <2>2. Len(VisSplitOrder) + 1 \in Nat
    BY <2>1
  <2>3. \A k \in DOMAIN ranked : ranked[k] \subseteq Listed_ /\ ranked[k] \subseteq DOMAIN root
    OBVIOUS
  <2>4. \A k \in DOMAIN ranked : IsFiniteSet(ranked[k])
    <3> HIDE DEF ranked
    <3>1. QED BY <2>3, FS_Subset DEF IsVisRoot
  <2> DEFINE m == Len(VisSplitOrder) + 1
  <2>5. DOMAIN ranked = 1 .. m /\ ranked = [k \in 1 .. m |-> ranked[k]]
    OBVIOUS
  <2> HIDE DEF m, ranked
  <2>6. ranked \in Seq({ranked[k] : k \in DOMAIN ranked})
    BY <2>2, <2>5 DEF m
  <2>7. QED BY <2>3, <2>4, <2>6 DEF IsSequence
<1> HIDE DEF ranked
<1>3. ASSUME NEW k \in DOMAIN ranked
      PROVE  IsSequence(parts[k]) /\ \A m \in DOMAIN parts[k] : parts[k][m] \in Listed_
  <2> DEFINE a == Of("mot", k)
             b == Of("vid", k)
  <2>1. \A v : IsSequence(Of(v, k)) /\ \A i \in DOMAIN Of(v, k) : Of(v, k)[i] \in Listed_
    <3> TAKE v
    <3> DEFINE some == {place \in ranked[k] : place[1] = v}
    <3>1. some \subseteq ranked[k] /\ IsFiniteSet(some)
      BY <1>2, FS_Subset
    <3> HIDE DEF some, Listed_
    <3>2. IsSequence(InOrder(some)) /\ \A i \in DOMAIN InOrder(some) : InOrder(some)[i] \in some
      BY <3>1, InOrderFacts
    <3>3. QED BY <1>2, <3>1, <3>2 DEF some
  <2>2. parts[k] = a \o b
    OBVIOUS
  <2> HIDE DEF Listed_
  <2>3. /\ IsSequence(a) /\ \A i \in DOMAIN a : a[i] \in Listed_
        /\ IsSequence(b) /\ \A i \in DOMAIN b : b[i] \in Listed_
    BY <2>1
  <2> HIDE DEF a, b, parts
  <2>4. QED BY <2>2, <2>3, BothFacts
<1>4. parts = [k \in DOMAIN ranked |-> parts[k]]
  OBVIOUS
<1> HIDE DEF parts, Listed_
<1>5. IsSequence(places) /\ \A i \in DOMAIN places : places[i] \in Listed_
  <2>1. IsSequence(parts) /\ DOMAIN parts = DOMAIN ranked
    BY <1>2, <1>4, MapFacts
  <2>2. Concatenates(places, parts)
    BY <1>3, <2>1, FlattenFacts
  <2> HIDE DEF places
  <2>3. QED BY <1>3, <2>1, <2>2 DEF Concatenates
<1>6. ASSUME NEW place \in Listed_, NEW vid \in Nat
      PROVE  IsTrackSequence(Sequence(place, vid))
  <2> DEFINE dir == root[place]
             seq == Sequence(place, vid)
  <2>1. IsFrames(dir.frames) /\ IsRowFile(dir.rows) /\ dir.rows # <<>>
    BY <1>6 DEF IsVisRoot, Listed_
  <2>2. /\ seq.vid = vid /\ seq.video = <<>> /\ seq.frames = dir.frames /\ seq.fps = 0
        /\ seq.boxes = VisBoxes(place, dir.rows[1], source, ignored, wanted)
    BY DEF VisSequence
  <2> HIDE DEF seq, dir
  <2>3. AreBoxes(seq.boxes)
    BY <2>1, <2>2, VisBoxesFacts DEF IsRowFile
  <2>4. IsTrackSequence(seq)
    BY <1>6, <2>1, <2>2, <2>3 DEF IsTrackSequence, AreBoxes, IsFilm
  <2>5. QED BY <2>4 DEF seq, dir
<1>7. seqs = [i \in DOMAIN places |-> seqs[i]] /\ \A i \in DOMAIN places : seqs[i] = Sequence(places[i], i - 1)
  OBVIOUS
<1> HIDE DEF seqs, places, ds, Sequence
<1>8. IsSequence(seqs) /\ DOMAIN seqs = DOMAIN places
  BY <1>5, <1>7, MapFacts
<1>9. ASSUME NEW i \in DOMAIN seqs PROVE IsTrackSequence(seqs[i])
  <2>1. i - 1 \in Nat
    BY <1>5, <1>8, SequenceFacts
  <2>2. QED BY <1>5, <1>6, <1>7, <1>8, <2>1
<1>10. DatasetOK(ds)
  BY <1>1, <1>8, <1>9 DEF DatasetOK
<1>11. QED BY <1>10 DEF ds

-----------------------------------------------------------------------------
(* Flat folders of MP4. *)

Mp4Turn(a, seq, p, q, r, t) == FlatMp4WriteSequence(a, seq)
Mp4Inv(k, a, p, q, r, t) == IsMp4Root(a.root)
Mp4Loop == INSTANCE Loops WITH Body <- Mp4Turn, Inv <- Mp4Inv, Free <- NotIn, Counted <- Candidate

LEMMA Mp4TurnFacts ==
  ASSUME NEW acc, IsMp4Root(acc.root), NEW seq, IsTrackSequence(seq)
  PROVE  IsMp4Root(FlatMp4WriteSequence(acc, seq).root)
<1> DEFINE first == seq.video[1]
           name == FlatMp4Name(first.name, acc.used)
           copy == [first EXCEPT !.name = name]
           more == Put(acc.root, name, copy)
           done == FlatMp4WriteSequence(acc, seq)
<1>1. done.root = acc.root \/ (seq.video # <<>> /\ done.root = more)
  BY DEF FlatMp4WriteSequence
<1> HIDE DEF name, done
<1>2. ASSUME seq.video # <<>> PROVE IsMp4Root(more)
  <2>1. IsMedia(first)
    BY <1>2 DEF IsTrackSequence, IsFilm
  <2> HIDE DEF first
  <2>2. IsMedia(copy)
    <3>1. /\ copy.length \in Nat /\ copy.rate \in Int
          /\ copy = Media(copy.id, copy.ext, copy.length, copy.name, copy.rate, copy.faults)
      BY <2>1 DEF IsMedia, Media
    <3> HIDE DEF copy
    <3>2. QED BY <3>1 DEF IsMedia
  <2> HIDE DEF copy
  <2>3. DOMAIN more = DOMAIN acc.root \cup {name} /\ more[name] = copy /\ \A x \in DOMAIN acc.root : x # name => more[x] = acc.root[x]
    BY DEF Put
  <2> HIDE DEF more
  <2>4. IsFiniteSet(DOMAIN more)
    BY <2>3, FS_AddElement DEF IsMp4Root
  <2>5. QED BY <2>2, <2>3, <2>4 DEF IsMp4Root
<1>3. IsMp4Root(done.root)
  BY <1>1, <1>2
<1>4. QED BY <1>3 DEF done

LEMMA Mp4WriteFacts ==
  ASSUME NEW ds, ds.task = "mot", DatasetOK(ds), NEW existing, IsMp4Root(existing)
  PROVE  IsMp4Root(FlatMp4Write(ds, existing))
<1> DEFINE start == [used |-> {}, root |-> existing]
           done == Mp4Loop!Loop(start, ds.seqs, 0, 0, 0, 0)
           n == Len(ds.seqs)
<1>1. /\ n \in Nat /\ DOMAIN ds.seqs = 1 .. n
      /\ \A i \in DOMAIN ds.seqs : IsTrackSequence(ds.seqs[i])
  BY SequenceFacts DEF DatasetOK
<1>2. FlatMp4Write(ds, existing) = done.root
  BY DEF FlatMp4Write, Mp4Turn, Mp4Loop!Loop, FoldLeft, MapThenFoldSet,
         Mp4Loop!FoldLeft, Mp4Loop!MapThenFoldSet, Max, Mp4Loop!Max
<1>3. Mp4Inv(0, start, 0, 0, 0, 0)
  BY DEF Mp4Inv
<1>4. Mp4Loop!Keeps(ds.seqs, 0, 0, 0, 0)
  BY <1>1, Mp4TurnFacts DEF Mp4Loop!Keeps, Mp4Inv, Mp4Turn
<1> HIDE DEF start, n
<1>5. Mp4Inv(n, done, 0, 0, 0, 0)
  BY <1>1, <1>3, <1>4, Mp4Loop!LoopInvariant
<1>6. QED BY <1>2, <1>5 DEF Mp4Inv

LEMMA Mp4LoadFacts ==
  ASSUME NEW root, IsMp4Root(root)
  PROVE  DatasetOK(FlatMp4Load(root))
<1> DEFINE S == {n \in DOMAIN root : root[n].ext = "mp4" /\ root[n].length > 0}
           names == InOrder(S)
           Sequence(name, vid) == VideoSequence(vid, <<root[name]>>, "flat_mp4", <<>>, root[name].length, TRUE, root[name].rate)
           seqs == [i \in DOMAIN names |-> Sequence(names[i], i - 1)]
           ds == FlatMp4Load(root)
<1>1. ds.task = "mot" /\ ds.seqs = seqs
  BY DEF FlatMp4Load, Tracks
<1>2. S \subseteq DOMAIN root /\ IsFiniteSet(S)
  BY FS_Subset DEF IsMp4Root
<1> HIDE DEF S
<1>3. IsSequence(names) /\ \A i \in DOMAIN names : names[i] \in DOMAIN root
  BY <1>2, InOrderFacts
<1>4. ASSUME NEW name \in DOMAIN root, NEW vid \in Nat
      PROVE  IsTrackSequence(Sequence(name, vid))
  <2> DEFINE file == root[name]
             film == <<file>>
             seq == Sequence(name, vid)
  <2>1. IsMedia(file)
    BY <1>4 DEF IsMp4Root
  <2>2. film = <<film[1]>> /\ film[1] = file /\ film # <<>>
    <3> HIDE DEF file
    <3>1. QED OBVIOUS
  <2>3. seq.vid = vid /\ seq.video = film /\ seq.boxes = <<>> /\ seq.fps = file.rate /\ seq.frames = Decoded(file)
    BY <2>2 DEF VideoSequence
  <2> HIDE DEF seq, film, file
  <2> DEFINE n == file.length - 1
  <2>4. DOMAIN seq.frames = 0 .. n /\ n \in Int
    BY <2>1, <2>3 DEF Decoded, IsMedia
  <2> HIDE DEF n
  <2>5. IsFiniteSet(0 .. n) /\ 0 .. n \subseteq Nat
    <3>1. 0 \in Int
      OBVIOUS
    <3>2. QED BY <2>4, <3>1, FS_Interval, SMTT(60)
  <2>6. IsTrackSequence(seq)
    BY <1>4, <2>1, <2>2, <2>3, <2>4, <2>5, EmptyFacts DEF IsTrackSequence, IsFilm, IsFrames, IsMedia
  <2>7. QED BY <2>6 DEF seq
<1>5. seqs = [i \in DOMAIN names |-> seqs[i]] /\ \A i \in DOMAIN names : seqs[i] = Sequence(names[i], i - 1)
  OBVIOUS
<1> HIDE DEF seqs, names, ds, Sequence
<1>6. IsSequence(seqs) /\ DOMAIN seqs = DOMAIN names
  BY <1>3, <1>5, MapFacts
<1>7. ASSUME NEW i \in DOMAIN seqs PROVE IsTrackSequence(seqs[i])
  <2>1. i - 1 \in Nat
    BY <1>3, <1>6, SequenceFacts
  <2>2. QED BY <1>3, <1>4, <1>5, <1>6, <2>1
<1>8. DatasetOK(ds)
  BY <1>1, <1>6, <1>7 DEF DatasetOK
<1>9. QED BY <1>8 DEF ds

==============================================================================
