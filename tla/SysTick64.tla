----------------------------- MODULE SysTick64 -----------------------------
(***************************************************************************)
(* SysTickCnt64 (src/src/systick.h): the 64-bit tick counter of the core,  *)
(* which the program can read only by halves, while it runs on.            *)
(*                                                                         *)
(* The counter is a pair of halves that carry; the reader is a process     *)
(* that reads the high half, the low half and the high half again, and     *)
(* takes the first or the second reading of the high half by the top bit   *)
(* of the low one.  Interrupts stretch the time between two readings: the  *)
(* number of ticks that pass is bounded by MaxGap and otherwise free.      *)
(***************************************************************************)
EXTENDS Integers

CONSTANTS
  Half,     \* 2^31: half of what the low half counts to
  MaxGap,   \* the most ticks between two readings of one call
  Horizon   \* the last value of the high half: 2^32 - 1

\* The comment on SysTickCnt64 trusts that "Interrupts are usually short"; what
\* it needs is that none of the two gaps is longer than half a period.
ASSUME TickAssumption ==
  /\ Half \in Nat \ {0} /\ Horizon \in Nat
  /\ MaxGap \in Nat /\ MaxGap <= Half

VARIABLES
  hi, lo,     \* SysTick->CNT, its two words
  pc,         \* the next reading of the call; "idle" outside of one
  hiBefore,   \* the call's first reading of the high half
  loRead,     \* its reading of the low half
  gap,        \* ticks since the last reading of the call
  at,         \* what the counter was when the low half was read
  result      \* what the last call returned

vars == <<hi, lo, pc, hiBefore, loRead, gap, at, result>>

Init ==
  /\ hi = 0 /\ lo = 0
  /\ pc = "idle"
  /\ hiBefore = 0 /\ loRead = 0 /\ gap = 0
  /\ at = <<0, 0>> /\ result = <<0, 0>>

\* The counter advances.
Tick ==
  /\ pc # "idle" => gap < MaxGap
  /\ gap' = IF pc = "idle" THEN 0 ELSE gap + 1
  /\ IF lo + 1 < 2 * Half
     THEN lo' = lo + 1 /\ hi' = hi
     ELSE hi < Horizon /\ lo' = 0 /\ hi' = hi + 1
  /\ UNCHANGED <<pc, hiBefore, loRead, at, result>>

\* uint32_t hiBefore = lohi[1];
ReadHiBefore ==
  /\ pc = "idle"
  /\ hiBefore' = hi
  /\ gap' = 0 /\ pc' = "lo"
  /\ UNCHANGED <<hi, lo, loRead, at, result>>

\* uint32_t lo = lohi[0];
ReadLo ==
  /\ pc = "lo"
  /\ loRead' = lo /\ at' = <<hi, lo>>
  /\ gap' = 0 /\ pc' = "hiAfter"
  /\ UNCHANGED <<hi, lo, hiBefore, result>>

\* Mutant of Chosen: a carry is added when the low half looks wrapped.
ChosenCarries(before, low, after) == IF low >= Half THEN before ELSE before + 1

\* Mutant of Chosen: the test of the top bit is the other way round.
ChosenSwapped(before, low, after) == IF low >= Half THEN after ELSE before

\* uint32_t hi = (lo & 0x80000000) ? hiBefore : hiAfter;
Chosen(before, low, after) == IF low >= Half THEN before ELSE after

\* Mutant of ReadHiAfter: the first reading is taken whatever the low half.
KeepHiBefore ==
  /\ pc = "hiAfter"
  /\ result' = <<hiBefore, loRead>>
  /\ gap' = 0 /\ pc' = "idle"
  /\ UNCHANGED <<hi, lo, hiBefore, loRead, at>>

\* uint32_t hiAfter = lohi[1]; and the return of the function.
ReadHiAfter ==
  /\ pc = "hiAfter"
  /\ result' = <<Chosen(hiBefore, loRead, hi), loRead>>
  /\ gap' = 0 /\ pc' = "idle"
  /\ UNCHANGED <<hi, lo, hiBefore, loRead, at>>

Next == Tick \/ ReadHiBefore \/ ReadLo \/ ReadHiAfter

Spec == Init /\ [][Next]_vars

(***************************************************************************)
(* Properties.                                                             *)
(***************************************************************************)

\* The types of all variables.
TypeOK ==
  /\ hi \in 0 .. Horizon /\ lo \in 0 .. 2 * Half - 1
  /\ pc \in {"idle", "lo", "hiAfter"}
  /\ hiBefore \in 0 .. Horizon /\ loRead \in 0 .. 2 * Half - 1
  /\ gap \in 0 .. MaxGap
  /\ at \in (0 .. Horizon) \X (0 .. 2 * Half - 1)
  /\ result \in (0 .. Horizon) \X (0 .. 2 * Half - 1)

\* A call returns what the counter was at one moment of the call, that of the
\* second reading, however the two halves moved on around it: never a pair of
\* halves that did not occur together (systick.h:14).
ReadIsExact == pc = "idle" => result = at

Earlier(s, t) == s[1] < t[1] \/ (s[1] = t[1] /\ s[2] <= t[2])

\* A later call never returns an earlier time: what SysTickDebugMain watches
\* for when it prints "Tick of ... from ... to ...", and what the counter mode
\* of CSPrngUInt64 needs to not encrypt one block twice.
TimeNeverRunsBack == [][Earlier(result, result')]_vars
=============================================================================
