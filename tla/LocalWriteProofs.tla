-------------------------- MODULE LocalWriteProofs --------------------------
(***************************************************************************)
(* What a call of convert or write to a local directory may delete, proved *)
(* for every file system, every call and every change other programs make  *)
(* meanwhile.  The invariant says what each guard has established by the   *)
(* time the clearing starts, and that the nodes still to be cleared and    *)
(* those already deleted lie strictly below dest.                          *)
(***************************************************************************)
EXTENDS LocalWrite, TLAPS

Args == Conversions \cup Writes

\* n lies strictly below the directory dest names.
BelowDest(n) == call.dest \in Above[n] /\ n # call.dest

\* A replace has passed its guards: dest is no link, no protected directory,
\* and no input resolves to a node below it.
Cleared ==
  /\ call.mode = "replace" /\ call.valid
  /\ ~Protected(call.dest)
  /\ ~SourceUnder(call.dest)

IInv ==
  /\ TypeOK
  /\ pc \in {"guarding", "preparing", "clearing"} => call.valid
  /\ pc \in {"preparing", "clearing"} /\ call.mode = "replace" => ~SourceUnder(call.dest)
  /\ entries # {} => pc = "clearing" /\ Cleared
  /\ removed # {} => pc \in {"clearing", "done"} /\ Cleared /\ outcome # "refused"
  /\ pc # "done" <=> outcome = "running"
  /\ \A n \in entries : BelowDest(n)
  /\ \A n \in removed : BelowDest(n)

-----------------------------------------------------------------------------
\* What lies below a node below dest lies below dest.
LEMMA SubtreeBelow ==
  ASSUME NEW n \in Nodes, call.dest \in Nodes, BelowDest(n)
  PROVE  \A m \in Nodes : n \in Above[m] => BelowDest(m)
BY TreeAssumption DEF BelowDest

\* The arguments of a call name nodes.
LEMMA ArgsTyping ==
  ASSUME call \in Args
  PROVE  call.dest \in Nodes /\ call.mode \in Modes /\ call.valid \in BOOLEAN
BY DEF Args, Conversions, Writes

\* The children of a directory that is no link lie below it.
LEMMA ChildrenBelow ==
  ASSUME call \in Args, present \subseteq Nodes, ~Protected(call.dest)
  PROVE  \A n \in Children(call.dest) : n \in Nodes /\ BelowDest(n)
<1>1. call.dest \in Nodes
  BY ArgsTyping
<1>2. Resolve[call.dest] = call.dest
  BY <1>1, LinksAssumption DEF Protected
<1>3. QED BY <1>1, <1>2, TreeAssumption DEF Children, BelowDest

-----------------------------------------------------------------------------
\* The guards have established nothing yet, and nothing is deleted.
LEMMA InvInit == Init => IInv
<1> SUFFICES ASSUME Init PROVE IInv
  OBVIOUS
<1>1. TypeOK
  BY TreeAssumption DEF Init, TypeOK
<1>2. pc \in {"checking", "validating"} /\ entries = {} /\ removed = {} /\ outcome = "running"
  BY DEF Init
<1>3. QED BY <1>1, <1>2 DEF IInv

\* Every step keeps what the guards established: one case per action.
LEMMA InvStep == IInv /\ [Next]_vars => IInv'
<1> SUFFICES ASSUME IInv, [Next]_vars PROVE IInv'
  OBVIOUS
<1> USE DEF IInv, TypeOK, Goto, Finish
<1>a. call \in Args
  BY DEF Args
<1>b. call.dest \in Nodes /\ call.mode \in Modes /\ call.valid \in BOOLEAN
  BY <1>a, ArgsTyping
<1>1. CASE CheckBeforeLoad
  BY <1>1 DEF CheckBeforeLoad, BelowDest, Cleared, SourceUnder, Within, Protected
<1>2. CASE Load
  BY <1>2 DEF Load, BelowDest, Cleared
<1>3. CASE Validate
  BY <1>3 DEF Validate, BelowDest, Cleared
<1>4. CASE Guard
  BY <1>4 DEF Guard, BelowDest, Cleared, SourceUnder, Within
<1>5. CASE Prepare
  <2>1. CASE Refused(call.dest, call.mode)
    BY <1>5, <2>1 DEF Prepare, BelowDest, Cleared
  <2>2. CASE ~Refused(call.dest, call.mode) /\ ~(call.mode = "replace" /\ IsDir(call.dest))
    BY <1>5, <2>2 DEF Prepare, BelowDest, Cleared, SourceUnder, Within
  <2>3. CASE ~Refused(call.dest, call.mode) /\ call.mode = "replace" /\ IsDir(call.dest)
    <3>1. ~Protected(call.dest) /\ Cleared
      BY <1>5, <2>3 DEF Prepare, Refused, Cleared
    <3>2. \A n \in Children(call.dest) : n \in Nodes /\ BelowDest(n)
      BY <1>a, <3>1, ChildrenBelow
    <3>3. Cleared' /\ UNCHANGED <<call, removed>> /\ entries' = Children(call.dest)
      BY <1>5, <2>3, <3>1 DEF Prepare, Cleared, SourceUnder, Within, Protected
    <3>4. \A n \in entries' : BelowDest(n)'
      BY <3>2, <3>3 DEF BelowDest
    <3>5. QED BY <1>5, <2>3, <3>1, <3>2, <3>3, <3>4 DEF Prepare, BelowDest, Cleared
  <2>4. QED BY <2>1, <2>2, <2>3
<1>6. CASE Write
  BY <1>6 DEF Write, BelowDest, Cleared, SourceUnder, Within
<1>7. ASSUME NEW n \in Nodes, ClearEntry(n) PROVE IInv'
  <2>1. BelowDest(n) /\ Cleared /\ n \in entries
    BY <1>7 DEF ClearEntry
  <2>2. \A m \in Subtree(n) : m \in Nodes /\ BelowDest(m)
    BY <1>b, <2>1, SubtreeBelow DEF Subtree
  <2>3. Cleared' /\ UNCHANGED <<call, pc, inputs, outcome>>
    BY <1>7, <2>1 DEF ClearEntry, Cleared, SourceUnder, Within
  <2>4. removed' = removed \cup Subtree(n) /\ present' = present \ Subtree(n)
    BY <1>7 DEF ClearEntry, Delete, Doomed
  <2>5. \A m \in removed' : m \in Nodes /\ BelowDest(m)'
    BY <2>2, <2>3, <2>4 DEF BelowDest
  <2>6. \A m \in entries' : m \in entries /\ BelowDest(m)'
    BY <1>7, <2>3 DEF ClearEntry, BelowDest
  <2>7. pc = "clearing" /\ outcome = "running"
    BY <1>7 DEF ClearEntry
  <2>8. TypeOK'
    BY <1>a, <2>3, <2>4, <2>5, <2>6, <2>7 DEF Args
  <2>9. (call.valid /\ ~SourceUnder(call.dest))'
    BY <2>3 DEF Cleared
  <2>10. QED BY <2>3, <2>5, <2>6, <2>7, <2>8, <2>9
<1>8. ASSUME NEW n \in Nodes, ClearFails(n) PROVE IInv'
  <2>1. BelowDest(n) /\ Cleared /\ n \in entries
    BY <1>8 DEF ClearFails
  <2>2. \A m \in Subtree(n) : m \in Nodes /\ BelowDest(m)
    BY <1>b, <2>1, SubtreeBelow DEF Subtree
  <2>3. PICK S \in SUBSET Subtree(n) : Delete(S)
    BY <1>8 DEF ClearFails, Doomed
  <2>4. Cleared' /\ UNCHANGED <<call, inputs>>
    BY <1>8, <2>1 DEF ClearFails, Cleared, SourceUnder, Within
  <2>5. \A m \in removed' : m \in Nodes /\ BelowDest(m)'
    BY <2>2, <2>3, <2>4 DEF BelowDest, Delete
  <2>6. entries' = {} /\ pc' = "done" /\ outcome' = "raised" /\ present' \subseteq present
    BY <1>8, <2>3 DEF ClearFails, Delete
  <2>7. TypeOK'
    BY <1>a, <2>4, <2>5, <2>6 DEF Args
  <2>8. QED BY <2>4, <2>5, <2>6, <2>7
<1>9. ASSUME NEW n \in Nodes, Meanwhile(n) PROVE IInv'
  BY <1>9 DEF Meanwhile, BelowDest, Cleared, SourceUnder, Within
<1>10. CASE UNCHANGED vars
  BY <1>10 DEF vars, BelowDest, Cleared, SourceUnder, Within
<1>11. QED
  BY <1>1, <1>2, <1>3, <1>4, <1>5, <1>6, <1>7, <1>8, <1>9, <1>10 DEF Next, Call

\* Whatever the file system and the call, the guards hold what they promise
\* until the call is over.
THEOREM Invariance == Spec => []IInv
BY InvInit, InvStep, PTL DEF Spec

\* Every variable of a call of convert or write keeps its type.
THEOREM TypeCorrect == Spec => []TypeOK
<1>1. IInv => TypeOK
  BY DEF IInv
<1>2. QED BY <1>1, Invariance, PTL

-----------------------------------------------------------------------------
\* Nothing is deleted by a call that is refused, nor in another mode.
THEOREM AcceptedThm == Spec => []DeletesOnlyWhenAccepted
<1>1. IInv => DeletesOnlyWhenAccepted
  BY DEF IInv, Cleared, DeletesOnlyWhenAccepted
<1>2. QED BY <1>1, Invariance, PTL

\* No replace deletes outside dest, or takes the home or the working directory
\* or one that holds them.
THEOREM ClearedThm == Spec => []OnlyDestinationCleared
<1>1. ASSUME IInv, NEW n \in removed
      PROVE  /\ call.dest \in Above[n] \ {n}
             /\ n \notin Above[Cwd] \cup Above[Home]
  <2>1. BelowDest(n) /\ ~Protected(call.dest) /\ n \in Nodes /\ call.dest \in Nodes
    BY <1>1, ArgsTyping DEF IInv, TypeOK, Cleared, Args
  <2>2. call.dest \notin Above[Cwd] \cup Above[Home]
    BY <2>1, LinksAssumption DEF Protected
  <2>3. QED BY <2>1, <2>2, TreeAssumption DEF BelowDest
<1>2. IInv => OnlyDestinationCleared
  BY <1>1 DEF OnlyDestinationCleared
<1>3. QED BY <1>2, Invariance, PTL

\* No file a record of the dataset leads to is deleted.
THEOREM InputsThm == Spec => []InputFilesSurvive
<1>1. ASSUME IInv, NEW n \in inputs, Resolve[n] \in removed PROVE FALSE
  <2>1. BelowDest(Resolve[n]) /\ ~Protected(call.dest) /\ ~SourceUnder(call.dest)
    BY <1>1 DEF IInv, Cleared
  <2>2. Resolve[call.dest] = call.dest
    BY <1>1, <2>1, ArgsTyping, LinksAssumption DEF Protected, IInv, TypeOK, Args
  <2>3. QED BY <2>1, <2>2 DEF SourceUnder, Within, BelowDest
<1>2. IInv => InputFilesSurvive
  BY <1>1 DEF InputFilesSurvive
<1>3. QED BY <1>2, Invariance, PTL
=============================================================================
