------------------------------ MODULE ClockTree ------------------------------
(***************************************************************************)
(* The clock configurator: a configuration is computed and checked          *)
(* (ClockConfig::compute), written into the project as code for the HAL or  *)
(* for the registers, run by the firmware on the RCC (periph/Rcc.cpp) and   *)
(* read back ("From Emulator").  One step is one register write; the ready  *)
(* flags follow it at once, so that the loops waiting for them do nothing.  *)
(***************************************************************************)
EXTENDS Integers, Sequences

CONSTANTS Settings   \* configurations that the user may set in the dialog

\* What the dialog can set; Ok() has the limits.
Configurations ==
    [sysclk : {"hsi", "hse", "pll"}, src : {"hsi", "hse"}, m : Nat, n : Nat, p : Nat, q : Nat,
     ahb : Nat, apb1 : Nat, apb2 : Nat]

ClockAssumption == Settings \subseteq Configurations

VARIABLES
    rcc,     \* CR: hse, pll (on); PLLCFGR: src, m, n, p, q; CFGR: sw, hpre,
             \* ppre1, ppre2; the wait states in FLASH_ACR; SystemCoreClock
    target,  \* the configuration of the code that runs or has run
    code,    \* "hal" or "registers"; "none" since the reset
    todo,    \* what it has still to do
    failed   \* it is in the endless loop of a HAL error

clockVars == <<rcc, target, code, todo, failed>>

MHz == 1000000
HsiHz == 16 * MHz
HseHz == 8 * MHz

\* a * n / m in the 64-bit arithmetic of the code.
MulDiv(a, n, m) == (a \div m) * n + ((a % m) * n) \div m

-----------------------------------------------------------------------------
(* ClockConfig *)

AhbDivs == <<1, 2, 4, 8, 16, 64, 128, 256, 512>>
ApbDivs == {1, 2, 4, 8, 16}

SourceHz(source) == IF source = "hse" THEN HseHz ELSE HsiHz

\* The prescalers, with the timer clocks, that compute() and Rcc have alike.
Tree(sysclk, ahb, apb1, apb2) ==
    LET hclk == sysclk \div ahb
        Timer(pclk, div) == IF div = 1 THEN pclk ELSE 2 * pclk
    IN [sysclk |-> sysclk, hclk |-> hclk, pclk1 |-> hclk \div apb1, pclk2 |-> hclk \div apb2,
        tim1 |-> Timer(hclk \div apb1, apb1), tim2 |-> Timer(hclk \div apb2, apb2)]

VcoOut(c) == MulDiv(SourceHz(c.src), c.n, c.m)

Computed(c) ==
    Tree(IF c.sysclk = "pll" THEN VcoOut(c) \div c.p ELSE SourceHz(c.sysclk), c.ahb, c.apb1, c.apb2)

FlashLatency(hclk) == (hclk - 1) \div (30 * MHz)

\* No errors; the dialog writes nothing otherwise.
Ok(c) ==
    /\ c.sysclk = "pll" =>
          /\ c.m \in 2 .. 63 /\ SourceHz(c.src) \div c.m \in MHz .. 2 * MHz
          /\ c.n \in 50 .. 432 /\ VcoOut(c) \in 100 * MHz .. 432 * MHz
          /\ c.p \in {2, 4, 6, 8} /\ VcoOut(c) \div c.p <= 168 * MHz
          /\ c.q \in 2 .. 15 /\ VcoOut(c) \div c.q <= 48 * MHz
    /\ c.ahb \in {AhbDivs[i] : i \in 1 .. 9} /\ {c.apb1, c.apb2} \subseteq ApbDivs
    /\ Computed(c).pclk1 <= 42 * MHz /\ Computed(c).pclk2 <= 84 * MHz

\* HPRE has no divider of 32.
HpreBits(div) == IF div = 1 THEN 0 ELSE 6 + CHOOSE i \in 2 .. 9 : AhbDivs[i] = div

PpreBits(div) ==
    CASE div = 2 -> 4 [] div = 4 -> 5 [] div = 8 -> 6 [] div = 16 -> 7 [] OTHER -> 0

-----------------------------------------------------------------------------
(* The registers *)

Reset ==
    [hse |-> FALSE, pll |-> FALSE, src |-> "hsi", m |-> 16, n |-> 192, p |-> 0, q |-> 4,
     sw |-> "hsi", hpre |-> 0, ppre1 |-> 0, ppre2 |-> 0, acr |-> 0, core |-> HsiHz]

Ahb(r) == IF r.hpre < 8 THEN 1 ELSE <<2, 4, 8, 16, 64, 128, 256, 512>>[r.hpre - 7]
Apb(bits) == IF bits < 4 THEN 1 ELSE <<2, 4, 8, 16>>[bits - 3]

\* Rcc::sysclk and SystemCoreClockUpdate divide before they multiply.
Sysclk(r) ==
    IF r.sw = "pll" THEN ((SourceHz(r.src) \div r.m) * r.n) \div (2 * (r.p + 1)) ELSE SourceHz(r.sw)

\* HAL_RCC_GetSysClockFreq, like compute(), does not.
HalSysclk(r) ==
    IF r.sw = "pll" THEN MulDiv(SourceHz(r.src), r.n, r.m) \div (2 * (r.p + 1)) ELSE SourceHz(r.sw)

Live(r) == Tree(Sysclk(r), Ahb(r), Apb(r.ppre1), Apb(r.ppre2))

\* "From Emulator".
FromRegisters(r) ==
    [sysclk |-> r.sw, src |-> r.src, m |-> r.m, n |-> r.n, p |-> 2 * (r.p + 1), q |-> r.q,
     ahb |-> Ahb(r), apb1 |-> Apb(r.ppre1), apb2 |-> Apb(r.ppre2)]

PllOf(r) == [src |-> r.src, m |-> r.m, n |-> r.n, p |-> 2 * (r.p + 1), q |-> r.q]
PllIn(c) == [src |-> c.src, m |-> c.m, n |-> c.n, p |-> c.p, q |-> c.q]

ClockInit ==
    /\ rcc = Reset /\ target = FromRegisters(Reset)
    /\ code = "none" /\ todo = <<>> /\ failed = FALSE

Registers ==
    [hse : BOOLEAN, pll : BOOLEAN, src : {"hsi", "hse"},
     m : 2 .. 63, n : 50 .. 432, p : 0 .. 3, q : 2 .. 15,
     sw : {"hsi", "hse", "pll"}, hpre : {0} \cup 8 .. 15,
     ppre1 : {0} \cup 4 .. 7, ppre2 : {0} \cup 4 .. 7, acr : 0 .. 7, core : Nat]

ClockTypeOK ==
    /\ rcc \in Registers /\ target \in Configurations
    /\ code \in {"none", "hal", "registers"} /\ failed \in BOOLEAN

-----------------------------------------------------------------------------
(* The generated code *)

UsesHse(c) == c.sysclk = "hse" \/ (c.sysclk = "pll" /\ c.src = "hse")

When(condition, steps) == IF condition THEN steps ELSE <<>>

\* Mutant of RegisterCode: the clock is selected before the prescalers.
RegisterCodeSelectFirst(c) ==
    <<"RunHsi">> \o When(UsesHse(c), <<"StartHse">>)
    \o When(c.sysclk = "pll", <<"StopPll", "WritePll", "StartPll">>)
    \o <<"RaiseLatency", "Select", "WritePrescalers", "SetLatency", "UpdateCore">>

RegisterCode(c) ==
    <<"RunHsi">> \o When(UsesHse(c), <<"StartHse">>)
    \o When(c.sysclk = "pll", <<"StopPll", "WritePll", "StartPll">>)
    \o <<"RaiseLatency", "WritePrescalers", "Select", "SetLatency", "UpdateCore">>

\* halCode with what HAL_RCC_OscConfig and HAL_RCC_ClockConfig make of it.
HalCode(c) ==
    When(UsesHse(c), <<"StartHse">>)
    \o When(c.sysclk = "pll", <<"CheckPll", "StopPll", "WritePll", "StartPll">>)
    \o <<"RaiseLatency", "SlowApb1", "SlowApb2", "WriteAhb", "Select", "LowerLatency",
         "WriteApb1", "WriteApb2", "HalCore">>

\* The registers after each kind of step.
After ==
    LET c == target
        latency == FlashLatency(Computed(c).hclk)
    IN [RunHsi   |-> [rcc EXCEPT !.sw = "hsi"],
        StartHse |-> [rcc EXCEPT !.hse = TRUE],
        StopPll  |-> [rcc EXCEPT !.pll = FALSE],
        WritePll |-> [rcc EXCEPT !.src = c.src, !.m = c.m, !.n = c.n, !.p = c.p \div 2 - 1, !.q = c.q],
        StartPll |-> [rcc EXCEPT !.pll = TRUE],
        RaiseLatency |-> [rcc EXCEPT !.acr = IF @ < latency THEN latency ELSE @],
        LowerLatency |-> [rcc EXCEPT !.acr = IF @ > latency THEN latency ELSE @],
        SetLatency   |-> [rcc EXCEPT !.acr = latency],
        SlowApb1  |-> [rcc EXCEPT !.ppre1 = 7],
        SlowApb2  |-> [rcc EXCEPT !.ppre2 = 7],
        WriteAhb  |-> [rcc EXCEPT !.hpre = HpreBits(c.ahb)],
        WriteApb1 |-> [rcc EXCEPT !.ppre1 = PpreBits(c.apb1)],
        WriteApb2 |-> [rcc EXCEPT !.ppre2 = PpreBits(c.apb2)],
        WritePrescalers |-> [rcc EXCEPT !.hpre = HpreBits(c.ahb), !.ppre1 = PpreBits(c.apb1),
                                        !.ppre2 = PpreBits(c.apb2)],
        Select     |-> [rcc EXCEPT !.sw = c.sysclk],
        UpdateCore |-> [rcc EXCEPT !.core = Sysclk(rcc) \div Ahb(rcc)],
        HalCore    |-> [rcc EXCEPT !.core = HalSysclk(rcc) \div Ahb(rcc)]]

\* The firmware calls the SystemClock_Config that was generated from c.  The
\* HAL's ways to leave a PLL in use are not the generated code's business.
BeginCode(c, kind) ==
    /\ todo = <<>> /\ ~ failed /\ Ok(c)
    /\ kind = "hal" => rcc.sw # "pll" \/ c.sysclk = "pll"
    /\ target' = c /\ code' = kind
    /\ todo' = IF kind = "hal" THEN HalCode(c) ELSE RegisterCode(c)
    /\ UNCHANGED <<rcc, failed>>

Step ==
    /\ todo # <<>> /\ Head(todo) # "CheckPll"
    /\ rcc' = After[Head(todo)] /\ todo' = Tail(todo)
    /\ UNCHANGED <<target, code, failed>>

\* HAL_RCC_OscConfig leaves a PLL in use alone if it is as asked for, and
\* returns an error if it is not.
CheckPll ==
    /\ todo # <<>> /\ Head(todo) = "CheckPll"
    /\ \/ rcc.sw # "pll" /\ todo' = Tail(todo) /\ UNCHANGED failed
       \/ /\ rcc.sw = "pll" /\ PllOf(rcc) = PllIn(target)
          /\ todo' = SubSeq(todo, 5, Len(todo)) /\ UNCHANGED failed
       \/ /\ rcc.sw = "pll" /\ PllOf(rcc) # PllIn(target)
          /\ todo' = <<>> /\ failed' = TRUE
    /\ UNCHANGED <<rcc, target, code>>

\* SystemCoreClock is initialised by the startup code.
ResetClocks ==
    /\ rcc' = Reset /\ todo' = <<>> /\ failed' = FALSE /\ code' = "none"
    /\ UNCHANGED target

ClockNext ==
    \/ \E c \in Settings \cup {FromRegisters(rcc)}, kind \in {"hal", "registers"} : BeginCode(c, kind)
    \/ Step \/ CheckPll \/ ResetClocks

ClockSpec == ClockInit /\ [][ClockNext]_clockVars

-----------------------------------------------------------------------------
(* Properties *)

\* No write on the way takes the chip out of its limits, from whatever
\* configuration the code starts: frequencies, wait states for the flash, a
\* source that runs, and a PLL that is off while it is changed.
ClockSafe ==
    /\ Live(rcc).hclk <= 168 * MHz /\ Live(rcc).pclk1 <= 42 * MHz /\ Live(rcc).pclk2 <= 84 * MHz
    /\ rcc.acr >= FlashLatency(Live(rcc).hclk)
    /\ rcc.sw = "hse" \/ (rcc.pll /\ rcc.src = "hse") => rcc.hse
    /\ rcc.sw = "pll" => rcc.pll
    /\ todo # <<>> /\ Head(todo) = "WritePll" => ~ rcc.pll

\* What sysclk may lose by dividing first.
Rounding(c) ==
    IF c.sysclk = "pll" /\ SourceHz(c.src) % c.m # 0 THEN c.n \div c.p + 1 ELSE 0

\* At its end the emulator runs at the frequencies that the dialog computed,
\* up to the rounding of Rcc; SystemCoreClock says the same; "From Emulator"
\* shows the configuration again; and the HAL fails only where it must.
Configured ==
    /\ todo = <<>> /\ code # "none" /\ ~ failed =>
          LET dialog == Computed(target) IN
          /\ dialog.sysclk - Live(rcc).sysclk \in 0 .. Rounding(target)
          /\ Rounding(target) = 0 => Live(rcc) = dialog
          /\ Computed(FromRegisters(rcc)) = dialog
          /\ rcc.core = IF code = "hal" THEN dialog.hclk ELSE Live(rcc).hclk
    /\ failed => rcc.sw = "pll" /\ PllOf(rcc) # PllIn(target)

ClocksRight == ClockSafe /\ Configured

=============================================================================
