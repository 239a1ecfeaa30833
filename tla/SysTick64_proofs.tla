-------------------------- MODULE SysTick64_proofs --------------------------
(***************************************************************************)
(* SysTickCnt64 is exact, for halves of every size, as long as no gap      *)
(* between two of its readings is longer than half a period.               *)
(***************************************************************************)
EXTENDS SysTick64, TLAPS

(***************************************************************************)
(* The counter and the call's readings, in mid-call.  After a gap of ticks *)
(* the high half is as it was, or has moved on once; which of the two, the *)
(* low half tells.                                                         *)
(***************************************************************************)

\* hiBefore has been read, the low half has not.
BeforeLo ==
  pc = "lo" =>
    \/ hi = hiBefore /\ lo >= gap
    \/ hi = hiBefore + 1 /\ lo < gap

\* The low half has been read: a first reading of the high half that will be
\* used was right.
AfterLo ==
  pc = "hiAfter" =>
    /\ at[2] = loRead
    /\ loRead >= Half => at[1] = hiBefore
    /\ \/ hi = at[1] /\ lo = loRead + gap
       \/ hi = at[1] + 1 /\ lo + 2 * Half = loRead + gap

Inv ==
  /\ TypeOK
  /\ BeforeLo /\ AfterLo
  /\ pc # "hiAfter" => result = at
  /\ Earlier(result, at) /\ Earlier(at, <<hi, lo>>)

LEMMA InitInv == Init => Inv
  BY TickAssumption DEF Init, Inv, TypeOK, BeforeLo, AfterLo, Earlier

LEMMA TickInv ==
  ASSUME Inv, Tick
  PROVE  Inv' /\ UNCHANGED result
<1> USE TickAssumption
<1>1. TypeOK'
  BY DEF Inv, TypeOK, Tick
<1>2. (BeforeLo /\ AfterLo)'
  BY DEF Inv, TypeOK, Tick, BeforeLo, AfterLo
<1>3. Earlier(at, <<hi, lo>>)'
  BY DEF Inv, TypeOK, Tick, Earlier
<1> QED BY <1>1, <1>2, <1>3 DEF Inv, Tick, Earlier

LEMMA ReadInv ==
  ASSUME Inv, ReadHiBefore \/ ReadLo
  PROVE  Inv' /\ UNCHANGED result
<1> USE TickAssumption
<1>1. CASE ReadHiBefore
  BY <1>1 DEF Inv, TypeOK, ReadHiBefore, BeforeLo, AfterLo, Earlier
<1>2. CASE ReadLo
  <2>1. loRead' >= Half => at'[1] = hiBefore'
    BY <1>2 DEF Inv, TypeOK, ReadLo, BeforeLo
  <2>2. TypeOK' /\ (BeforeLo /\ AfterLo)'
    BY <1>2, <2>1 DEF Inv, TypeOK, ReadLo, BeforeLo, AfterLo
  <2>3. (Earlier(result, at) /\ Earlier(at, <<hi, lo>>))'
    BY <1>2 DEF Inv, TypeOK, ReadLo, Earlier
  <2> QED BY <1>2, <2>2, <2>3 DEF Inv, ReadLo
<1> QED BY <1>1, <1>2

LEMMA ReturnInv ==
  ASSUME Inv, ReadHiAfter
  PROVE  Inv' /\ result' = at /\ Earlier(result, result')
<1> USE TickAssumption
<1>1. Chosen(hiBefore, loRead, hi) = at[1]
  BY DEF Inv, TypeOK, ReadHiAfter, AfterLo, Chosen
<1>2. result' = at
  BY <1>1 DEF Inv, TypeOK, ReadHiAfter, AfterLo
<1> QED BY <1>2 DEF Inv, TypeOK, ReadHiAfter, BeforeLo, AfterLo, Earlier

LEMMA StepInv ==
  ASSUME Inv, [Next]_vars
  PROVE  Inv' /\ Earlier(result, result')
<1>1. CASE Tick \/ ReadHiBefore \/ ReadLo
  <2>1. Inv' /\ result' = result
    BY <1>1, TickInv, ReadInv
  <2> QED BY <2>1 DEF Inv, TypeOK, Earlier
<1>2. CASE ReadHiAfter
  BY <1>2, ReturnInv
<1>3. CASE UNCHANGED vars
  BY <1>3 DEF vars, Inv, TypeOK, BeforeLo, AfterLo, Earlier
<1> QED BY <1>1, <1>2, <1>3 DEF Next

THEOREM Invariance == Spec => []Inv
<1>1. Inv /\ [Next]_vars => Inv'
  BY StepInv
<1> QED BY <1>1, InitInv, PTL DEF Spec

\* All variables keep their types: the halves carry, none overflows.
THEOREM TypesHold == Spec => []TypeOK
  BY Invariance, PTL DEF Inv

\* The value SysTickCnt64 returns is the counter's at its second reading.
THEOREM ReadsExact == Spec => []ReadIsExact
<1>1. Inv => ReadIsExact
  BY DEF Inv, ReadIsExact
<1> QED BY <1>1, Invariance, PTL

\* Calls return times that never run back.
THEOREM ReadsInOrder == Spec => TimeNeverRunsBack
<1>1. Inv /\ [Next]_vars => [Earlier(result, result')]_vars
  BY StepInv
<1> QED BY <1>1, Invariance, PTL DEF Spec, TimeNeverRunsBack
=============================================================================
