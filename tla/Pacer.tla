-------------------------------- MODULE Pacer --------------------------------
(***************************************************************************)
(* RealTimePacer and the part of the worker's tick that uses it: chunks of  *)
(* cycles, the host's clock, and the sleep between two ticks that keeps     *)
(* the emulated time in step with the real time.                           *)
(***************************************************************************)
EXTENDS Integers

CONSTANTS
    Second,     \* the code's 1 000 000 000 ns
    Resolution, \* the code's 1 ms: QTimer sleeps multiples of it
    ChunkTime,  \* chunkNs, 2 ms
    MaxLag,     \* kMaxLagNs, 200 ms
    Least, Most, Unpaced,  \* 64, 50 000 and 12 000 instructions
    Hclks,      \* values of HCLK
    Speeds,     \* <<emulated, real>> ratios; <<0, 1>> is unlimited
    Delays,     \* what a tick takes longer than its sleep
    MaxReal     \* bound: real time from one start to the next

PacerAssumption ==
    /\ {Second, Resolution} \subseteq Nat \ {0}
    /\ {ChunkTime, MaxLag, Least, Most, Unpaced, MaxReal} \subseteq Nat
    /\ Hclks \subseteq Nat \ {0} /\ Delays \subseteq Nat
    /\ <<1, 1>> \in Speeds /\ Speeds \subseteq Nat \X (Nat \ {0})

VARIABLES
    pacer,      \* real: nowNs - startNs_; emu: emuNs_; frac: fracCycles_
    speed,      \* speed_
    hz,         \* HCLK
    wait,       \* what advance has returned
    spent       \* history: cycles since start(), or -1 once HCLK has changed

pacerVars == <<pacer, speed, hz, wait, spent>>

None == -1
Anchored == [real |-> 0, emu |-> 0, frac |-> 0]

PacerTypeOK ==
    /\ pacer \in [real : 0..MaxReal, emu : Nat, frac : Nat]
    /\ \E h \in Hclks : pacer.frac \in 0..h - 1
    /\ speed \in Speeds /\ hz \in Hclks
    /\ wait \in Nat /\ spent \in Nat \cup {None}

PacerInit ==
    /\ pacer = Anchored /\ speed = <<1, 1>> /\ hz \in Hclks
    /\ wait = 0 /\ spent = 0

Unlimited == speed[1] = 0

-----------------------------------------------------------------------------

Clamped(n) == IF n < Least THEN Least ELSE IF n > Most THEN Most ELSE n

ChunkInstructions(h) ==
    IF Unlimited THEN Unpaced
    ELSE Clamped((h * speed[1] * ChunkTime) \div (speed[2] * Second))

\* Real time by which emulated time emu is due.
Target(emu) == (emu * speed[2]) \div speed[1]

\* scheduleTick: shorter waits are left to the next chunk.
Sleep == Resolution * (wait \div Resolution)

\* Mutant of Counted: the remainder is not taken.
CountedTwice(cycles) ==
    LET scaled == cycles * Second + pacer.frac
    IN [pacer EXCEPT !.emu = @ + scaled \div hz, !.frac = scaled]

\* advance: cycles become nanoseconds at the present clock.
Counted(cycles) ==
    LET scaled == cycles * Second + pacer.frac
    IN [pacer EXCEPT !.emu = @ + scaled \div hz, !.frac = scaled % hz]

\* tick: a chunk runs, or less of it, and advance is told the time.
Tick(cycles, delay) ==
    LET p == Counted(cycles)
        real == p.real + Sleep + delay
        lag == real - Target(p.emu)
    IN /\ cycles <= ChunkInstructions(hz) /\ real <= MaxReal
       /\ IF Unlimited THEN pacer' = [p EXCEPT !.real = real] /\ wait' = 0
          ELSE IF Target(p.emu) > real
          THEN pacer' = [p EXCEPT !.real = real] /\ wait' = Target(p.emu) - real
          ELSE pacer' = [p EXCEPT !.real = IF lag > MaxLag THEN Target(p.emu) ELSE real]
               /\ wait' = 0
       /\ spent' = IF spent = None THEN None ELSE spent + cycles
       /\ UNCHANGED <<speed, hz>>

\* Run after a pause or a resume of gdb; ticks of the old run are void.
StartPacer ==
    /\ pacer' = Anchored /\ wait' = 0 /\ spent' = 0
    /\ UNCHANGED <<speed, hz>>

\* Mutant of SetSpeed: the anchor stays where it was.
SetSpeedUnanchored(s) == speed' = s /\ UNCHANGED <<pacer, hz, wait, spent>>

\* setSpeed anchors emulated and real time anew; the rest of the sleep that is
\* under way is slept.
SetSpeed(s) ==
    /\ speed' = s /\ pacer' = Anchored /\ spent' = 0
    /\ wait' \in {0, Sleep}
    /\ UNCHANGED hz

\* The firmware writes RCC: the next tick counts at the new clock.
SetHclk(h) ==
    /\ h # hz
    /\ hz' = h /\ spent' = None
    /\ UNCHANGED <<pacer, speed, wait>>

PacerNext ==
    \/ \E cycles \in 0..Most, delay \in Delays : Tick(cycles, delay)
    \/ StartPacer
    \/ \E s \in Speeds : SetSpeed(s)
    \/ \E h \in Hclks : SetHclk(h)

PacerSpec == PacerInit /\ [][PacerNext]_pacerVars

-----------------------------------------------------------------------------
(* Properties *)

\* What a tick can ask to wait: the emulated time of a chunk at clock h, with
\* a fraction left over from clock g, after a sleep cut short by the timer.
Longest(h, g) == Resolution + Target((ChunkInstructions(h) * Second + g) \div h)

\* Emulated time is exact over a long run; it is never more than one chunk and
\* the resolution of the timer ahead of the real time, whatever the speed and
\* the clock were before; and never more than MaxLag behind it, so that a
\* stalled host is not followed by a burst.
KeepsPace ==
    /\ spent # None => pacer.emu = (spent * Second) \div hz
    /\ ~ Unlimited =>
          /\ pacer.emu > 0 => \E h, g \in Hclks : wait <= Longest(h, g)
          /\ pacer.real - Target(pacer.emu) <= MaxLag

=============================================================================
