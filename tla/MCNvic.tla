------------------------------- MODULE MCNvic -------------------------------
(* Instances of Nvic for TLC.  EXTI0 (line 6), NMI, SysTick and UsageFault;  *)
(* under PRIGROUP 4 the two priority bytes share a preemption group.        *)
EXTENDS Nvic

MCIrqs      == {6}
MCSysPend   == {NMI, SysTick}
MCFaults    == {UsageFault}
MCTuned     == {SysTick, Line(6)}
MCLevels    == {64, 80}
MCGroupings == {4}
MCBasepris  == {64}
=============================================================================
