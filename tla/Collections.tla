------------------------------ MODULE Collections -----------------------------
(***************************************************************************)
(* The lists that the formats make of sets and of other lists: a set in an *)
(* order, what a loop collects, the rows of a table that are wanted, and   *)
(* those of a list in the order of a key.                                  *)
(***************************************************************************)
EXTENDS Integers, SequencesExt, FiniteSetsExt

\* A set in some order, which is always the same one; a set of numbers in theirs.
InOrder(S) == FoldSet(LAMBDA x, seq : Append(seq, x), <<>>, S)
Ascending(S) == [k \in 1 .. Cardinality(S) |-> CHOOSE n \in S : Cardinality({m \in S : m < n}) = k - 1]

\* A function with one more value, or another one.
Put(f, x, y) == [z \in DOMAIN f \cup {x} |-> IF z = x THEN y ELSE f[z]]
\* One function where it is defined, and another elsewhere.
Over(f, g) == [z \in DOMAIN f \cup DOMAIN g |-> IF z \in DOMAIN f THEN f[z] ELSE g[z]]

\* What a loop over a sequence collects: zero or more items per element.
Collect(seq, Items(_)) == FlattenSeq([i \in DOMAIN seq |-> Items(seq[i])])
Keep(seq, Test(_)) == Collect(seq, LAMBDA x : IF Test(x) THEN <<x>> ELSE <<>>)
\* The elements at some of the places.
Those(seq, places) == FlattenSeq([i \in DOMAIN seq |-> IF i \in places THEN <<seq[i]>> ELSE <<>>])

\* The elements in the order of their keys; those of the same key stay in the order they have.
SortedBy(seq, keys) ==
    LET ranks == Ascending({keys[i] : i \in DOMAIN seq})
    IN  FlattenSeq([k \in DOMAIN ranks |-> Those(seq, {i \in DOMAIN seq : keys[i] = ranks[k]})])
==============================================================================
