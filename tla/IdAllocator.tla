------------------------------ MODULE IdAllocator -----------------------------
(***************************************************************************)
(* The allocator of ids that the COCO and the TAO writers share in form:   *)
(* a preferred id is kept when it is free, else the next counter that is   *)
(* free is taken.  NoId stands for no preference.                          *)
(***************************************************************************)
EXTENDS Integers, FiniteSets

NoId == -1
Allocator(used) == [next |-> 1, used |-> used]

\* The loop over the counter: the first value that is not taken.
FirstUnused(ids) ==
    CHOOSE n \in ids.next .. ids.next + Cardinality(ids.used) :
        /\ n \notin ids.used
        /\ \A m \in ids.next .. n - 1 : m \in ids.used
\* Faulty variant: a preferred id is kept although it is taken.
Allocate_Preferred(ids, preferred) ==
    LET id == IF preferred >= 0 THEN preferred ELSE FirstUnused(ids)
    IN  [id |-> id, used |-> ids.used \cup {id}, next |-> id + 1]

Allocate(ids, preferred) ==
    IF preferred >= 0 /\ preferred \notin ids.used
    THEN [id |-> preferred, used |-> ids.used \cup {preferred},
          next |-> IF preferred >= ids.next THEN preferred + 1 ELSE ids.next]
    ELSE LET free == FirstUnused(ids)
         IN  [id |-> free, used |-> ids.used \cup {free}, next |-> free + 1]
==============================================================================
