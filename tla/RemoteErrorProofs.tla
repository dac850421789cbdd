-------------------------- MODULE RemoteErrorProofs --------------------------
(***************************************************************************)
(* Error-mode writes to one prefix are safe in the sense of RemoteError    *)
(* for every set of calls, of names, of datasets and every size of the     *)
(* copy pools.                                                             *)
(***************************************************************************)
EXTENDS RemoteError, TLAPS

-----------------------------------------------------------------------------
(* The inductive invariant *)

\* A call that has not begun to promote, and one that never will.
NeverPut(w) == BeforePromotion(w) \/ outcome[w] = "refused"
Alone(w) == \A v \in Writers \ {w} : NeverPut(v)

\* The outcome and the pool follow the statements executed.
IFlow ==
  \A w \in Writers :
    /\ outcome[w] \in {"returned", "raised", "refused"} => pc[w] \in {"drop_stage", "done", "killed"}
    /\ pc[w] \notin {"promoting", "killed"} => pool[w].queued = {} /\ pool[w].running = {}

\* Where the objects of a call can be: nowhere before it promotes, then among the names it means
\* to promote, and after it has raised where it could not remove them.
IOwn ==
  \A w \in Writers :
    /\ NeverPut(w) => \A n \in Names : dest[n] # w
    /\ pc[w] = "promoting" =>
         /\ pool[w].queued \cup pool[w].running \subseteq promoted[w]
         /\ \A n \in Names : dest[n] = w => n \in promoted[w]
    /\ pc[w] = "undoing" => \A n \in Names : dest[n] = w => n \in promoted[w] \cup unremoved[w]
    /\ outcome[w] = "raised" => \A n \in Names : dest[n] = w => n \in unremoved[w]

\* What a call that no other one disturbs has promoted is there.
Arrives(w) ==
  /\ pc[w] = "promoting" /\ pool[w].abort = "no" =>
       \A n \in Files[w] :
         n \in pool[w].queued \cup pool[w].running \cup pool[w].failed \/ dest[n] = w
  /\ outcome[w] = "returned" => Whole(w)
IWhole == \A w \in Writers : Alone(w) => Arrives(w)

IInv == TypeOK /\ IFlow /\ IOwn /\ IWhole

\* The dataset of a call is whole, and no call is left that could touch it.
Settles(w) == Files[w] # {} /\ Whole(w) /\ \A v \in Writers : pc[v] \notin {"promoting", "undoing"}
-----------------------------------------------------------------------------
(* Typing *)

\* What a pool record may hold, named so that the leaves below can cite it.
PoolType == [queued : SUBSET Names, running : SUBSET Names, failed : SUBSET Names,
             abort : {"no", "exception", "interrupt"}]

\* The first states have the types.
LEMMA InitTyping == Init => TypeOK
<1> SUFFICES ASSUME Init PROVE TypeOK
  OBVIOUS
<1> USE FilesAssumption, AbsentAssumption
<1>1. PICK before \in Writers \cup {Absent} :
        /\ dest = [n \in Names |-> IF before \in Writers /\ n \in Files[before] THEN before ELSE Absent]
        /\ pc = [w \in Writers |-> IF w = before THEN "done" ELSE "check"]
        /\ outcome = [w \in Writers |-> IF w = before THEN "returned" ELSE "running"]
  BY DEF Init
<1>2. pool \in [Writers -> [queued : SUBSET Names, running : SUBSET Names, failed : SUBSET Names,
                           abort : {"no", "exception", "interrupt"}]]
  BY DEF Init, NoPool
<1>3. QED BY <1>1, <1>2 DEF Init, TypeOK

\* No step of a call leaves the types.
LEMMA StepTyping == TypeOK /\ [Next]_vars => TypeOK'
<1> SUFFICES ASSUME TypeOK, [Next]_vars
             PROVE  TypeOK'
  OBVIOUS
<1> USE FilesAssumption DEF TypeOK, Goto, End
<1>1. ASSUME NEW w \in Writers, FirstCheck(w) PROVE TypeOK'
  BY <1>1 DEF FirstCheck
<1>2. ASSUME NEW w \in Writers, WriteStage(w) PROVE TypeOK'
  BY <1>2 DEF WriteStage
<1>3. ASSUME NEW w \in Writers, SecondCheck(w) PROVE TypeOK'
  <2>1. [NoPool EXCEPT !.queued = Files[w]] \in PoolType
    BY DEF PoolType, NoPool
  <2>2. pool' = pool \/ pool' = [pool EXCEPT ![w] = [NoPool EXCEPT !.queued = Files[w]]]
    BY <1>3 DEF SecondCheck
  <2>3. pool' \in [Writers -> PoolType]
    BY <2>1, <2>2 DEF PoolType
  <2>4. promoted' \in [Writers -> SUBSET Names]
    BY <1>3 DEF SecondCheck
  <2>5. QED BY <1>3, <2>3, <2>4 DEF SecondCheck, PoolType
<1>4. ASSUME NEW w \in Writers, NEW n \in Names, CopyStart(w, n) PROVE TypeOK'
  <2>1. pool[w] \in PoolType
    BY DEF PoolType
  <2>2. pool' \in [Writers -> PoolType]
    BY <1>4, <2>1 DEF CopyStart, PoolType
  <2>3. QED BY <1>4, <2>2 DEF CopyStart, PoolType
<1>5. ASSUME NEW w \in Writers, NEW n \in Names, CopyOk(w, n) PROVE TypeOK'
  <2>1. pool[w] \in PoolType
    BY DEF PoolType
  <2>2. pool' \in [Writers -> PoolType]
    BY <1>5, <2>1 DEF CopyOk, PoolType
  <2>3. QED BY <1>5, <2>2 DEF CopyOk, PoolType
<1>6. ASSUME NEW w \in Writers, NEW n \in Names, CopyFail(w, n) PROVE TypeOK'
  <2>1. pool[w] \in PoolType
    BY DEF PoolType
  <2>2. pool' \in [Writers -> PoolType]
    <3> DEFINE new == [pool[w] EXCEPT !.running = @ \ {n}, !.failed = @ \cup {n}]
    <3>1. new \in PoolType
      BY <2>1 DEF PoolType
    <3>2. pool \in [Writers -> PoolType]
      BY DEF PoolType
    <3>3. pool' = [pool EXCEPT ![w] = new]
      BY <1>6 DEF CopyFail
    <3> HIDE DEF new
    <3>4. QED BY <3>1, <3>2, <3>3, Zenon
  <2>3. PICK left \in {dest[n], Absent, w} : dest' = [dest EXCEPT ![n] = left]
    BY <1>6 DEF CopyFail
  <2>4. dest' \in [Names -> Writers \cup {Absent}]
    BY <2>3
  <2>5. QED BY <1>6, <2>2, <2>4 DEF CopyFail, PoolType
<1>7. ASSUME NEW w \in Writers, NEW n \in Names, UndoOne(w, n) PROVE TypeOK'
  <2>1. /\ promoted' \in [Writers -> SUBSET Names] /\ unremoved' \in [Writers -> SUBSET Names]
        /\ dest' \in [Names -> Writers \cup {Absent}]
    <3>1. promoted' \in [Writers -> SUBSET Names]
      BY <1>7 DEF UndoOne
    <3>2. CASE dest' = [dest EXCEPT ![n] = Absent] /\ UNCHANGED unremoved
      BY <3>1, <3>2
    <3>3. CASE unremoved' = [unremoved EXCEPT ![w] = @ \cup {n}] /\ UNCHANGED dest
      BY <3>1, <3>3
    <3>4. QED BY <1>7, <3>2, <3>3 DEF UndoOne
  <2>2. QED BY <1>7, <2>1 DEF UndoOne
<1>8. ASSUME NEW w \in Writers, CopyNotice(w) PROVE TypeOK'
  BY <1>8 DEF CopyNotice
<1>9. ASSUME NEW w \in Writers, CopyDone(w) PROVE TypeOK'
  BY <1>9 DEF CopyDone
<1>10. ASSUME NEW w \in Writers, CopyAborts(w) PROVE TypeOK'
  BY <1>10 DEF CopyAborts
<1>11. ASSUME NEW w \in Writers, UndoDone(w) PROVE TypeOK'
  BY <1>11 DEF UndoDone
<1>12. ASSUME NEW w \in Writers, DropStage(w) PROVE TypeOK'
  BY <1>12 DEF DropStage
<1>13. ASSUME NEW w \in Writers, Interrupt(w) PROVE TypeOK'
  <2>1. pool[w] \in PoolType
    BY DEF PoolType
  <2>2. pool' \in [Writers -> PoolType]
    BY <1>13, <2>1 DEF Interrupt, PoolType
  <2>3. QED BY <1>13, <2>2 DEF Interrupt, PoolType
<1>14. ASSUME NEW w \in Writers, Kill(w) PROVE TypeOK'
  BY <1>14 DEF Kill
<1>15. CASE UNCHANGED vars
  BY <1>15 DEF vars
<1>16. QED
  BY <1>1, <1>2, <1>3, <1>4, <1>5, <1>6, <1>7, <1>8, <1>9, <1>10, <1>11, <1>12, <1>13, <1>14, <1>15 DEF Next, Call

-----------------------------------------------------------------------------
(* The invariant *)

\* Nothing is promoted in the first states, and an earlier dataset is whole.
LEMMA InitInv == Init => IInv
<1> SUFFICES ASSUME Init PROVE IInv
  OBVIOUS
<1> USE FilesAssumption, AbsentAssumption
<1>1. TypeOK
  BY InitTyping
<1>2. PICK before \in Writers \cup {Absent} :
        /\ dest = [n \in Names |-> IF before \in Writers /\ n \in Files[before] THEN before ELSE Absent]
        /\ pc = [w \in Writers |-> IF w = before THEN "done" ELSE "check"]
        /\ outcome = [w \in Writers |-> IF w = before THEN "returned" ELSE "running"]
  BY DEF Init
<1>3. IFlow
  BY <1>2 DEF Init, IFlow, NoPool
<1>4. IOwn
  BY <1>2 DEF IOwn, NeverPut, BeforePromotion
<1>5. IWhole
  BY <1>2 DEF IWhole, Arrives, Whole
<1>6. QED BY <1>1, <1>3, <1>4, <1>5 DEF IInv

\* Each action changes the state of its own call only, and of dest one name at most.
LEMMA StepInv == IInv /\ [Next]_vars => IInv'
<1> SUFFICES ASSUME IInv, [Next]_vars
             PROVE  IInv'
  OBVIOUS
<1>0. TypeOK'
  BY StepTyping DEF IInv
<1> USE FilesAssumption, AbsentAssumption DEF IInv, TypeOK, Goto, End
<1>1. ASSUME NEW w \in Writers, FirstCheck(w) PROVE IFlow' /\ IOwn' /\ IWhole'
  <2>1. IFlow'
    BY <1>1 DEF FirstCheck, IFlow
  <2>2. IOwn'
    BY <1>1 DEF FirstCheck, IFlow, IOwn, NeverPut, BeforePromotion
  <2>3. IWhole'
    <3>1. \A v \in Writers : NeverPut(v)' => NeverPut(v)
      BY <1>1 DEF FirstCheck, NeverPut, BeforePromotion
    <3>2. SUFFICES ASSUME NEW u \in Writers, Alone(u)' PROVE Arrives(u)'
      BY DEF IWhole
    <3>3. Alone(u)
      BY <3>1, <3>2 DEF Alone
    <3>4. Arrives(u)
      BY <3>3 DEF IWhole
    <3>5. CASE u = w
      BY <1>1, <3>4, <3>5 DEF FirstCheck, IFlow, Arrives, Whole
    <3>6. CASE u # w
      <4>1. NeverPut(w) /\ NeverPut(w)'
        BY <3>2, <3>3, <3>6 DEF Alone
      <4>2. QED BY <1>1, <3>4, <3>6, <4>1 DEF FirstCheck, IFlow, Arrives, NeverPut, BeforePromotion, Whole
    <3>7. QED BY <3>5, <3>6
  <2>4. QED BY <2>1, <2>2, <2>3
<1>2. ASSUME NEW w \in Writers, WriteStage(w) PROVE IFlow' /\ IOwn' /\ IWhole'
  <2>1. IFlow'
    BY <1>2 DEF WriteStage, IFlow
  <2>2. IOwn'
    BY <1>2 DEF WriteStage, IFlow, IOwn, NeverPut, BeforePromotion
  <2>3. IWhole'
    <3>1. \A v \in Writers : NeverPut(v)' => NeverPut(v)
      BY <1>2 DEF WriteStage, NeverPut, BeforePromotion
    <3>2. SUFFICES ASSUME NEW u \in Writers, Alone(u)' PROVE Arrives(u)'
      BY DEF IWhole
    <3>3. Alone(u)
      BY <3>1, <3>2 DEF Alone
    <3>4. Arrives(u)
      BY <3>3 DEF IWhole
    <3>5. CASE u = w
      BY <1>2, <3>4, <3>5 DEF WriteStage, IFlow, Arrives, Whole
    <3>6. CASE u # w
      <4>1. NeverPut(w) /\ NeverPut(w)'
        BY <3>2, <3>3, <3>6 DEF Alone
      <4>2. QED BY <1>2, <3>4, <3>6, <4>1 DEF WriteStage, IFlow, Arrives, NeverPut, BeforePromotion, Whole
    <3>7. QED BY <3>5, <3>6
  <2>4. QED BY <2>1, <2>2, <2>3
<1>3. ASSUME NEW w \in Writers, SecondCheck(w) PROVE IFlow' /\ IOwn' /\ IWhole'
  <2>1. IFlow'
    <3>1. CASE DestEmpty
      BY <1>3, <3>1 DEF SecondCheck, IFlow, NoPool
    <3>2. CASE ~DestEmpty
      BY <1>3, <3>2 DEF SecondCheck, IFlow
    <3>3. QED BY <3>1, <3>2
  <2>2. IOwn'
    BY <1>3 DEF SecondCheck, IFlow, IOwn, NeverPut, BeforePromotion, NoPool
  <2>3. IWhole'
    <3>1. \A v \in Writers : NeverPut(v)' => NeverPut(v)
      BY <1>3 DEF SecondCheck, NeverPut, BeforePromotion
    <3>2. SUFFICES ASSUME NEW u \in Writers, Alone(u)' PROVE Arrives(u)'
      BY DEF IWhole
    <3>3. Alone(u)
      BY <3>1, <3>2 DEF Alone
    <3>4. Arrives(u)
      BY <3>3 DEF IWhole
    <3>5. CASE u = w
      BY <1>3, <3>4, <3>5 DEF SecondCheck, IFlow, Arrives, Whole, NoPool
    <3>6. CASE u # w
      <4>1. NeverPut(w) /\ NeverPut(w)'
        BY <3>2, <3>3, <3>6 DEF Alone
      <4>2. QED BY <1>3, <3>4, <3>6, <4>1 DEF SecondCheck, IFlow, Arrives, NeverPut, BeforePromotion, Whole, NoPool
    <3>7. QED BY <3>5, <3>6
  <2>4. QED BY <2>1, <2>2, <2>3
<1>4. ASSUME NEW w \in Writers, NEW n \in Names, CopyStart(w, n) PROVE IFlow' /\ IOwn' /\ IWhole'
  <2>1. IFlow'
    BY <1>4 DEF CopyStart, IFlow
  <2>2. IOwn'
    BY <1>4 DEF CopyStart, IFlow, IOwn, NeverPut, BeforePromotion
  <2>3. IWhole'
    BY <1>4 DEF CopyStart, IFlow, IOwn, IWhole, Arrives, Alone, NeverPut, BeforePromotion, Whole
  <2>4. QED BY <2>1, <2>2, <2>3
<1>5. ASSUME NEW w \in Writers, NEW n \in Names, CopyOk(w, n) PROVE IFlow' /\ IOwn' /\ IWhole'
  <2>1. IFlow'
    BY <1>5 DEF CopyOk, IFlow
  <2>2. IOwn'
    BY <1>5 DEF CopyOk, IFlow, IOwn, NeverPut, BeforePromotion
  <2>3. IWhole'
    <3>1. \A v \in Writers : NeverPut(v)' => NeverPut(v)
      BY <1>5 DEF CopyOk, NeverPut, BeforePromotion
    <3>2. SUFFICES ASSUME NEW u \in Writers, Alone(u)' PROVE Arrives(u)'
      BY DEF IWhole
    <3>3. Alone(u)
      BY <3>1, <3>2 DEF Alone
    <3>4. Arrives(u)
      BY <3>3 DEF IWhole
    <3>5. CASE u = w
      BY <1>5, <3>4, <3>5 DEF CopyOk, IFlow, Arrives, Whole
    <3>6. CASE u # w
      <4>1. NeverPut(w) /\ NeverPut(w)'
        BY <3>2, <3>3, <3>6 DEF Alone
      <4>2. QED BY <1>5, <3>4, <3>6, <4>1 DEF CopyOk, IFlow, Arrives, NeverPut, BeforePromotion, Whole
    <3>7. QED BY <3>5, <3>6
  <2>4. QED BY <2>1, <2>2, <2>3
<1>6. ASSUME NEW w \in Writers, NEW n \in Names, CopyFail(w, n) PROVE IFlow' /\ IOwn' /\ IWhole'
  <2>1. IFlow'
    BY <1>6 DEF CopyFail, IFlow
  <2>2. IOwn'
    BY <1>6 DEF CopyFail, IFlow, IOwn, NeverPut, BeforePromotion
  <2>3. IWhole'
    <3>1. \A v \in Writers : NeverPut(v)' => NeverPut(v)
      BY <1>6 DEF CopyFail, NeverPut, BeforePromotion
    <3>2. SUFFICES ASSUME NEW u \in Writers, Alone(u)' PROVE Arrives(u)'
      BY DEF IWhole
    <3>3. Alone(u)
      BY <3>1, <3>2 DEF Alone
    <3>4. Arrives(u)
      BY <3>3 DEF IWhole
    <3>5. CASE u = w
      BY <1>6, <3>4, <3>5, SMTT(40) DEF CopyFail, IFlow, Arrives, Whole
    <3>6. CASE u # w
      <4>1. NeverPut(w) /\ NeverPut(w)'
        BY <3>2, <3>3, <3>6 DEF Alone
      <4>2. QED BY <1>6, <3>4, <3>6, <4>1 DEF CopyFail, IFlow, Arrives, NeverPut, BeforePromotion, Whole
    <3>7. QED BY <3>5, <3>6
  <2>4. QED BY <2>1, <2>2, <2>3
<1>7. ASSUME NEW w \in Writers, NEW n \in Names, UndoOne(w, n) PROVE IFlow' /\ IOwn' /\ IWhole'
  <2>1. IFlow'
    BY <1>7 DEF UndoOne, IFlow
  <2>2. IOwn'
    BY <1>7 DEF UndoOne, IFlow, IOwn, NeverPut, BeforePromotion
  <2>3. IWhole'
    BY <1>7 DEF UndoOne, IFlow, IOwn, IWhole, Arrives, Alone, NeverPut, BeforePromotion, Whole
  <2>4. QED BY <2>1, <2>2, <2>3
<1>8. ASSUME NEW w \in Writers, CopyNotice(w) PROVE IFlow' /\ IOwn' /\ IWhole'
  <2>1. IFlow'
    BY <1>8 DEF CopyNotice, IFlow
  <2>2. IOwn'
    BY <1>8 DEF CopyNotice, IFlow, IOwn, NeverPut, BeforePromotion
  <2>3. IWhole'
    BY <1>8 DEF CopyNotice, IFlow, IOwn, IWhole, Arrives, Alone, NeverPut, BeforePromotion, Whole
  <2>4. QED BY <2>1, <2>2, <2>3
<1>9. ASSUME NEW w \in Writers, CopyDone(w) PROVE IFlow' /\ IOwn' /\ IWhole'
  <2>1. IFlow'
    BY <1>9 DEF CopyDone, IFlow, Settled
  <2>2. IOwn'
    BY <1>9 DEF CopyDone, IFlow, IOwn, NeverPut, BeforePromotion
  <2>3. IWhole'
    BY <1>9 DEF CopyDone, IFlow, IOwn, IWhole, Arrives, Alone, NeverPut, BeforePromotion, Whole, Settled
  <2>4. QED BY <2>1, <2>2, <2>3
<1>10. ASSUME NEW w \in Writers, CopyAborts(w) PROVE IFlow' /\ IOwn' /\ IWhole'
  <2>1. IFlow'
    BY <1>10 DEF CopyAborts, IFlow, Settled
  <2>2. IOwn'
    BY <1>10 DEF CopyAborts, IFlow, IOwn, NeverPut, BeforePromotion
  <2>3. IWhole'
    BY <1>10, SMTT(40) DEF CopyAborts, IFlow, IOwn, IWhole, Arrives, Alone, NeverPut, BeforePromotion, Whole, Settled
  <2>4. QED BY <2>1, <2>2, <2>3
<1>11. ASSUME NEW w \in Writers, UndoDone(w) PROVE IFlow' /\ IOwn' /\ IWhole'
  <2>1. IFlow'
    BY <1>11 DEF UndoDone, IFlow
  <2>2. IOwn'
    BY <1>11 DEF UndoDone, IFlow, IOwn, NeverPut, BeforePromotion
  <2>3. IWhole'
    BY <1>11 DEF UndoDone, IFlow, IOwn, IWhole, Arrives, Alone, NeverPut, BeforePromotion, Whole
  <2>4. QED BY <2>1, <2>2, <2>3
<1>12. ASSUME NEW w \in Writers, DropStage(w) PROVE IFlow' /\ IOwn' /\ IWhole'
  <2>1. IFlow'
    BY <1>12 DEF DropStage, IFlow
  <2>2. IOwn'
    BY <1>12 DEF DropStage, IFlow, IOwn, NeverPut, BeforePromotion
  <2>3. IWhole'
    BY <1>12 DEF DropStage, IFlow, IOwn, IWhole, Arrives, Alone, NeverPut, BeforePromotion, Whole
  <2>4. QED BY <2>1, <2>2, <2>3
<1>13. ASSUME NEW w \in Writers, Interrupt(w) PROVE IFlow' /\ IOwn' /\ IWhole'
  <2>1. IFlow'
    BY <1>13 DEF Interrupt, IFlow
  <2>2. IOwn'
    BY <1>13 DEF Interrupt, IFlow, IOwn, NeverPut, BeforePromotion
  <2>3. IWhole'
    BY <1>13 DEF Interrupt, IFlow, IOwn, IWhole, Arrives, Alone, NeverPut, BeforePromotion, Whole
  <2>4. QED BY <2>1, <2>2, <2>3
<1>14. ASSUME NEW w \in Writers, Kill(w) PROVE IFlow' /\ IOwn' /\ IWhole'
  <2>1. IFlow'
    BY <1>14 DEF Kill, IFlow
  <2>2. IOwn'
    BY <1>14 DEF Kill, IFlow, IOwn, NeverPut, BeforePromotion
  <2>3. IWhole'
    BY <1>14 DEF Kill, IFlow, IOwn, IWhole, Arrives, Alone, NeverPut, BeforePromotion, Whole
  <2>4. QED BY <2>1, <2>2, <2>3
<1>15. CASE UNCHANGED vars
  BY <1>15 DEF vars, IFlow, IOwn, IWhole, Arrives, Alone, NeverPut, BeforePromotion, Whole
<1>16. QED
  BY <1>0, <1>1, <1>2, <1>3, <1>4, <1>5, <1>6, <1>7, <1>8, <1>9, <1>10, <1>11, <1>12, <1>13, <1>14, <1>15 DEF Next, Call
-----------------------------------------------------------------------------
(* The theorems *)

\* Every variable of concurrent error-mode writes keeps its type, whatever the calls do, fail at
\* or are killed in.
THEOREM TypeCorrect == Spec => []TypeOK
<1>1. QED BY InitTyping, StepTyping, PTL DEF Spec

\* The inductive invariant: where the objects of a call can be at each of its statements.
THEOREM Invariance == Spec => []IInv
<1>1. QED BY InitInv, StepInv, PTL DEF Spec

\* The except clause of _write_remote_error takes back all that a call promoted: the objects of a
\* call that raised are among the names whose removal failed, for any number of calls and copies.
THEOREM RaisedLeavesNothingHolds == Spec => []RaisedLeavesNothing
<1>1. IInv => RaisedLeavesNothing
  BY DEF IInv, IOwn, RaisedLeavesNothing
<1>2. QED BY <1>1, Invariance, PTL

-----------------------------------------------------------------------------
(* A completed dataset *)

\* A call that no other one disturbed has settled when it returns.
LEMMA AloneSettles == ASSUME NEW w \in Writers, IInv, CompletedAlone(w) PROVE Settles(w)
<1> USE DEF CompletedAlone, IInv, TypeOK
<1>1. Whole(w)
  BY DEF IWhole, Arrives, Alone, NeverPut
<1>2. ASSUME NEW v \in Writers PROVE pc[v] \notin {"promoting", "undoing"}
  BY DEF IFlow, BeforePromotion
<1>3. QED BY <1>1, <1>2 DEF Settles

\* No call gets past its second check while the dataset is whole, hence none touches it.
LEMMA SettlesStays == ASSUME NEW w \in Writers, IInv, Settles(w), [Next]_vars PROVE Settles(w)'
<1> USE FilesAssumption, AbsentAssumption DEF IInv, TypeOK, Goto, End, Settles
<1>1. ~DestEmpty
  BY DEF DestEmpty, Whole
<1>2. \A v \in Writers : pool[v].running = {} \/ pc[v] = "killed"
  BY DEF IFlow
<1>3. ASSUME NEW v \in Writers, Call(v) PROVE UNCHANGED dest /\ pc'[v] \notin {"promoting", "undoing"}
                                             /\ \A x \in Writers \ {v} : pc'[x] = pc[x]
  <2>1. CASE FirstCheck(v) \/ WriteStage(v) \/ SecondCheck(v)
    BY <1>1, <2>1 DEF FirstCheck, WriteStage, SecondCheck
  <2>2. CASE \E n \in Names : CopyStart(v, n) \/ CopyOk(v, n) \/ CopyFail(v, n) \/ UndoOne(v, n)
    BY <1>2, <2>2 DEF CopyStart, CopyOk, CopyFail, UndoOne
  <2>3. CASE CopyNotice(v) \/ CopyDone(v) \/ CopyAborts(v) \/ UndoDone(v) \/ DropStage(v)
    BY <2>3 DEF CopyNotice, CopyDone, CopyAborts, UndoDone, DropStage
  <2>4. QED BY <1>3, <2>1, <2>2, <2>3 DEF Call
<1>4. ASSUME NEW v \in Writers, Interrupt(v) \/ Kill(v)
      PROVE UNCHANGED dest /\ pc'[v] \notin {"promoting", "undoing"}
            /\ \A x \in Writers \ {v} : pc'[x] = pc[x]
  BY <1>4 DEF Interrupt, Kill
<1>5. CASE UNCHANGED vars
  BY <1>5 DEF vars, Whole
<1>6. CASE Next
  <2>1. PICK v \in Writers : Call(v) \/ Interrupt(v) \/ Kill(v)
    BY <1>6 DEF Next
  <2>2. UNCHANGED dest /\ pc'[v] \notin {"promoting", "undoing"}
        /\ \A x \in Writers \ {v} : pc'[x] = pc[x]
    BY <2>1, <1>3, <1>4
  <2>3. QED BY <2>2 DEF Whole
<1>7. QED BY <1>5, <1>6

\* A dataset that one error-mode write has completed stays whole for ever, whatever the calls that
\* had not begun to promote go on to do: the check after the staging refuses them.
THEOREM CompletedSurvivesHolds == Spec => CompletedSurvives
<1>1. ASSUME NEW w \in Writers PROVE Spec => [](CompletedAlone(w) => []Whole(w))
  <2>1. IInv /\ CompletedAlone(w) => Settles(w)
    BY AloneSettles
  <2>2. IInv /\ Settles(w) /\ [Next]_vars => Settles(w)'
    BY SettlesStays
  <2>3. Settles(w) => Whole(w)
    BY DEF Settles
  <2>4. QED BY <2>1, <2>2, <2>3, Invariance, PTL DEF Spec
<1>2. QED BY <1>1 DEF CompletedSurvives
=============================================================================
