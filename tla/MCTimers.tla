------------------------------ MODULE MCTimers ------------------------------
(* Instances of Timers for TLC: a 2-bit counter, HCLK 8 and 12 units with   *)
(* timer clocks that divide it or not, and firmware that programs one of    *)
(* the timers.                                                              *)
EXTENDS Timers

MCHsiClock  == <<8, 4>>
MCClocks    == {MCHsiClock, <<12, 12>>}
MCFirmwares == {{"SysTick"}, {"TIM"}}
=============================================================================
