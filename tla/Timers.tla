------------------------------- MODULE Timers -------------------------------
(***************************************************************************)
(* The timers that the clock of the emulated MCU drives: SysTick            *)
(* (periph/SysTickTimer.cpp) and a general-purpose TIM (Timer in            *)
(* periph/SimplePeriphs.cpp).  The machine ticks them late and by many      *)
(* cycles at a time (Machine::tickPeripherals), and asks each how many      *)
(* cycles it may execute before the next interrupt (cyclesToNextEvent).     *)
(***************************************************************************)
EXTENDS Integers

CONSTANTS
  Clocks,    (* <<HCLK, timer clock>> pairs that RCC writes select           *)
  HsiClock,  (* the pair of RCC's reset state                                *)
  Loads,     (* SysTick LOAD values                                          *)
  Mask,      (* counterMask(): the largest value of CNT and ARR              *)
  Period0,   (* the top that stands for ARR = 0, 0xFFFF also with 32 bits    *)
  Arrs, Pscs, Cnts,   (* ARR, PSC and CNT values that firmware writes        *)
  MaxChunk,  (* longest tick                                                 *)
  Firmwares  (* sets of timers that one firmware programs                    *)

ASSUME TimersAssumption ==
  /\ HsiClock \in Clocks
  /\ \A c \in Clocks : c[1] \in Nat \ {0} /\ c[2] \in 1 .. c[1]
  /\ Loads \subseteq Nat /\ Mask \in Nat /\ Period0 \in 1 .. Mask /\ Pscs \subseteq Nat
  /\ Arrs \subseteq 0 .. Mask /\ Cnts \subseteq 0 .. Mask
  /\ MaxChunk \in Nat \ {0}
  /\ Firmwares \subseteq SUBSET {"SysTick", "TIM"}

VARIABLES
  clk,    (* the current pair of Clocks                                      *)
  st,     (* SysTick: on, irq, core (clock source), flag, load, val, frac    *)
          (* and the NVIC's pending bit, pend                                *)
  tim,    (* TIM: cen, uie, uif, clocked, arr, psc, cnt, frac and pend       *)
  uses,   (* the timers that this firmware programs                          *)
  since   (* cycles since SysTick last pended with no write to its registers *)
          (* or to the clocks in between, or -1                              *)

vars == <<clk, st, tim, uses, since>>

Hclk   == clk[1]
Timclk == clk[2]

CeilDiv(a, b) == (a + b - 1) \div b
AtLeast(a, b) == IF a < b THEN b ELSE a
Never == -1

-----------------------------------------------------------------------------
(* SysTick.                                                                 *)

StReset == [on |-> FALSE, irq |-> FALSE, core |-> FALSE, flag |-> FALSE,
            load |-> 0, val |-> 0, frac |-> 0, pend |-> FALSE]

StHz(s) == AtLeast(IF s.core THEN Hclk ELSE Hclk \div 8, 1)

StStep(s) ==
  LET v == IF s.val = 0 THEN s.load ELSE s.val - 1 IN
  IF v = 0 THEN [s EXCEPT !.val = s.load, !.flag = TRUE, !.pend = s.irq \/ s.pend]
           ELSE [s EXCEPT !.val = v]

(* What k ticks of its clock do.                                            *)
StSteps(s, k) ==
  LET done[j \in Nat] == IF j = 0 THEN s ELSE StStep(done[j - 1])
  IN  done[k]

(* Mutant of StTick: the fraction of a tick is dropped.                     *)
StTickNoFraction(s, n) ==
  LET total == s.frac + n * StHz(s)
  IN  IF ~s.on \/ s.load = 0 THEN s ELSE [StSteps(s, total \div Hclk) EXCEPT !.frac = 0]

StTick(s, n) ==
  LET total == s.frac + n * StHz(s)
  IN  IF ~s.on \/ s.load = 0 THEN s ELSE [StSteps(s, total \div Hclk) EXCEPT !.frac = total % Hclk]

StPends(s, n) == StTick([s EXCEPT !.pend = FALSE], n).pend

(* Mutant of StCycles: the first reload costs no tick.                      *)
StCyclesNoReload(s) ==
  LET ticks == IF s.val # 0 THEN s.val ELSE s.load IN
  IF ~s.on \/ ~s.irq \/ s.load = 0 THEN Never
  ELSE AtLeast(CeilDiv(AtLeast(ticks * Hclk - s.frac, 0), StHz(s)), 1)

StCycles(s) ==
  LET ticks == IF s.val # 0 THEN s.val ELSE s.load + 1 IN
  IF ~s.on \/ ~s.irq \/ s.load = 0 THEN Never
  ELSE AtLeast(CeilDiv(AtLeast(ticks * Hclk - s.frac, 0), StHz(s)), 1)

-----------------------------------------------------------------------------
(* TIM2 .. TIM7: update events only.                                        *)

TimReset == [cen |-> FALSE, uie |-> FALSE, uif |-> FALSE, clocked |-> FALSE,
             arr |-> Mask, psc |-> 0, cnt |-> 0, frac |-> 0, pend |-> FALSE]

updateIrq(t) == [t EXCEPT !.pend = t.uif /\ t.uie]

Top(t) == IF t.arr # 0 THEN t.arr ELSE Period0

StepsToUpdate(t) == IF t.cnt >= Top(t) THEN 1 ELSE Top(t) - t.cnt + 1

(* Mutant of TimSteps: a counter above its top counts on instead of         *)
(* wrapping.                                                                *)
TimStepsAbove(t, steps) ==
  IF steps + t.cnt = Top(t) + 1
  THEN updateIrq([t EXCEPT !.cnt = 0, !.uif = TRUE])
  ELSE [t EXCEPT !.cnt = t.cnt + steps]

(* Many counter steps at once; each taken at or above the top wraps to 0.   *)
TimSteps(t, steps) ==
  IF steps >= StepsToUpdate(t)
  THEN updateIrq([t EXCEPT !.cnt = (steps - StepsToUpdate(t)) % (Top(t) + 1), !.uif = TRUE])
  ELSE [t EXCEPT !.cnt = t.cnt + steps]

TimTick(t, n) ==
  LET total == t.frac + n * Timclk
      div   == Hclk * (t.psc + 1)
      new   == [t EXCEPT !.frac = total % div]
  IN  IF ~t.cen \/ ~t.clocked THEN t ELSE TimSteps(new, total \div div)

TimCycles(t) ==
  IF ~t.cen \/ ~t.uie \/ ~t.clocked THEN Never
  ELSE AtLeast(CeilDiv(StepsToUpdate(t) * Hclk * (t.psc + 1) - t.frac, Timclk), 1)

-----------------------------------------------------------------------------
(* The machine.                                                             *)

cyclesToNextEvent ==
  LET events == {StCycles(st), TimCycles(tim)} \ {Never} IN
  IF events = {} THEN Never ELSE CHOOSE c \in events : \A d \in events : c <= d

(* Time passes, in the core or asleep; no chunk goes past the next event.   *)
Advance(n) ==
  /\ cyclesToNextEvent # Never => n <= cyclesToNextEvent
  /\ st' = StTick(st, n)
  /\ tim' = TimTick(tim, n)
  /\ since' = CASE StPends(st, n) -> 0
                [] since # -1 /\ ~StPends(st, n) -> since + n
                [] OTHER -> -1
  /\ UNCHANGED <<clk, uses>>

(* The core enters the handler.                                             *)
Take ==
  \/ st.pend /\ st' = [st EXCEPT !.pend = FALSE] /\ UNCHANGED <<clk, tim, uses, since>>
  \/ tim.pend /\ tim' = [tim EXCEPT !.pend = FALSE] /\ UNCHANGED <<clk, st, uses, since>>

(* Register accesses.  syncTimers() has ticked before each of them.         *)
StAccess(s) ==
  /\ "SysTick" \in uses
  /\ st' = s /\ since' = -1
  /\ UNCHANGED <<clk, tim, uses>>

SysTickAccess ==
  \/ StAccess([st EXCEPT !.flag = FALSE])
  \/ \E on, irq, core \in BOOLEAN : StAccess([st EXCEPT !.on = on, !.irq = irq, !.core = core])
  \/ \E l \in Loads : StAccess([st EXCEPT !.load = l])
  \/ StAccess([st EXCEPT !.val = 0, !.flag = FALSE])

TimWrite(t) == "TIM" \in uses /\ tim' = updateIrq(t) /\ UNCHANGED <<clk, st, uses, since>>

TimAccess ==
  \/ \E b \in BOOLEAN : TimWrite([tim EXCEPT !.cen = b]) \/ TimWrite([tim EXCEPT !.uie = b])
  \/ TimWrite([tim EXCEPT !.uif = FALSE])
  \/ TimWrite([tim EXCEPT !.cnt = 0, !.uif = TRUE])
  \/ \E c \in Cnts : TimWrite([tim EXCEPT !.cnt = c])
  \/ \E p \in Pscs : TimWrite([tim EXCEPT !.psc = p])
  \/ \E a \in Arrs : TimWrite([tim EXCEPT !.arr = a])

(* RCC: the clock tree and the timer's clock enable.                        *)
SetClocks == clk' \in Clocks /\ since' = -1 /\ UNCHANGED <<st, tim, uses>>

EnableClock ==
  /\ "TIM" \in uses
  /\ \E b \in BOOLEAN : tim' = [tim EXCEPT !.clocked = b]
  /\ UNCHANGED <<clk, st, uses, since>>

(* resetMcu() resets the timers together with RCC.                          *)
ResetMcu ==
  /\ clk' = HsiClock /\ st' = StReset /\ tim' = TimReset /\ since' = -1
  /\ UNCHANGED uses

Init ==
  /\ clk = HsiClock /\ uses \in Firmwares
  /\ st = StReset /\ tim = TimReset /\ since = -1

Next ==
  \/ \E n \in 1 .. MaxChunk : Advance(n)
  \/ Take \/ SysTickAccess \/ TimAccess \/ SetClocks \/ EnableClock \/ ResetMcu

Spec == Init /\ [][Next]_vars

-----------------------------------------------------------------------------
(* Properties.                                                              *)

Quotients == {c[1] * (p + 1) : c \in Clocks, p \in Pscs \cup {0}}

TypeOK ==
  /\ clk \in Clocks /\ uses \in Firmwares
  /\ st \in [on : BOOLEAN, irq : BOOLEAN, core : BOOLEAN, flag : BOOLEAN, pend : BOOLEAN,
             load : Loads \cup {0}, val : Nat, frac : Nat]
  /\ \E l \in Loads \cup {0} : st.val <= l
  /\ \E c \in Clocks : st.frac < c[1]
  /\ tim \in [cen : BOOLEAN, uie : BOOLEAN, uif : BOOLEAN, clocked : BOOLEAN, pend : BOOLEAN,
              arr : 0 .. Mask, psc : Pscs \cup {0}, cnt : 0 .. Mask, frac : Nat]
  /\ \E q \in Quotients : tim.frac < q
  /\ since \in Nat \cup {-1}

(* It does not matter how the machine cuts time into chunks, register       *)
(* accesses and sleeps: ticking a cycles and then b is ticking a + b.       *)
TickSplits ==
  \A a, b \in 1 .. MaxChunk :
    /\ StTick(StTick(st, a), b) = StTick(st, a + b)
    /\ TimTick(TimTick(tim, a), b) = TimTick(tim, a + b)

PendsWithin(n) ==
  \/ StPends(st, n)
  \/ TimTick([tim EXCEPT !.pend = FALSE], n).pend

(* cyclesToNextEvent mirrors tick(): in every state, also with a fraction   *)
(* left over from other clocks or another prescaler, an interrupt is pended *)
(* in exactly that many cycles and not in one less; with no event, never.   *)
EventExact ==
  LET c == cyclesToNextEvent IN
  IF c = Never THEN ~PendsWithin(2 * MaxChunk)
  ELSE PendsWithin(c) /\ (c > 1 => ~PendsWithin(c - 1))

(* A pending update interrupt has its flag and enable set: once the handler *)
(* has cleared UIF, or firmware UIE, the interrupt does not come again.     *)
PendMeansUpdate == tim.pend => tim.uif /\ tim.uie

EventsExact == EventExact /\ PendMeansUpdate

(* The tests count on LOAD + 1 cycles from one SysTick interrupt to the     *)
(* next (core clock, nothing written in between).                           *)
PeriodStep ==
  \A n \in 1 .. MaxChunk :
    Advance(n) /\ StPends(st, n) /\ since # -1 /\ st.core => since + n = st.load + 1

SysTickPeriod == [][PeriodStep]_vars
=============================================================================
