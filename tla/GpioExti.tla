------------------------------ MODULE GpioExti ------------------------------
(***************************************************************************)
(* A GPIO bank (periph/Gpio.cpp), the EXTI and SYSCFG (periph/Exti.cpp) and *)
(* the pending bits of their interrupts in the NVIC: from the level of a   *)
(* pin, driven from outside or by the bank itself, to an interrupt.        *)
(***************************************************************************)
EXTENDS Naturals, MmioBus

CONSTANTS
    Lines,   \* EXTI lines, 0..15
    Pins,    \* the lines that are also pins of the bank
    PortA,   \* whether it is the bank that EXTICR selects when it reads 0
    Bytes    \* the lines in each byte of a register

VARIABLES
    exti,    \* imr_, rtsr_, ftsr_, pr_ as sets of lines
    select,  \* lines that EXTICR connects to this bank
    gpio,    \* out: pins in output mode; odr_, external_ and idr_ as sets
    pend,    \* pending interrupts (ISPR)
    due,     \* history: lines raised whose handler has not been entered since
    soft     \* history: interrupts that the firmware set pending itself

extiVars == <<exti, select, gpio, pend, due, soft>>

\* EXTI0 .. EXTI4, EXTI9_5, EXTI15_10
Irq(line) == IF line < 5 THEN line ELSE IF line < 10 THEN 5 ELSE 10
Irqs == {Irq(l) : l \in Lines}

ExtiTypeOK ==
    /\ exti \in [imr : SUBSET Lines, rtsr : SUBSET Pins, ftsr : SUBSET Pins, pr : SUBSET Lines]
    /\ select \subseteq Pins
    /\ gpio \in [out : SUBSET Pins, odr : SUBSET Pins, ext : SUBSET Pins, idr : SUBSET Pins]
    /\ pend \subseteq Irqs /\ soft \subseteq Irqs /\ due \subseteq Lines

ExticrReset == IF PortA THEN Pins ELSE {}

ExtiReset == [imr |-> {}, rtsr |-> {}, ftsr |-> {}, pr |-> {}]

ExtiInit ==
    /\ exti = ExtiReset /\ select = ExticrReset
    /\ gpio = [out |-> {}, odr |-> {}, ext |-> {}, idr |-> {}]
    /\ pend = {} /\ due = {} /\ soft = {}

-----------------------------------------------------------------------------
(* The EXTI *)

\* updateIrqs sets or clears the pending bit of every EXTI interrupt; raised
\* are the lines that the step raises, acked those whose bits it clears.
UpdateIrqs(e, raised, acked) ==
    /\ exti' = e
    /\ pend' = {Irq(l) : l \in e.pr \cap e.imr}
    /\ due' = (due \ acked) \cup raised
    /\ soft' = {}

\* raiseLine, for each of the lines: a masked line does not even set PR, and
\* an edge that sets nothing updates nothing.
Raise(e, lines) ==
    LET raised == lines \cap e.imr
    IN IF raised = {} THEN exti' = e /\ UNCHANGED <<pend, due, soft>>
       ELSE UpdateIrqs([e EXCEPT !.pr = @ \cup raised], raised, {})

WriteImr(access) ==
    /\ UpdateIrqs([exti EXCEPT !.imr = Written(@, access)], {}, {})
    /\ UNCHANGED <<select, gpio>>

WriteTriggers(access) ==
    /\ \/ UpdateIrqs([exti EXCEPT !.rtsr = Written(@, access)], {}, {})
       \/ UpdateIrqs([exti EXCEPT !.ftsr = Written(@, access)], {}, {})
    /\ UNCHANGED <<select, gpio>>

\* SWIER triggers, and reads as 0 afterwards.
WriteSwier(access) ==
    LET raised == Written({}, access) \cap exti.imr
    IN /\ UpdateIrqs([exti EXCEPT !.pr = @ \cup raised], raised, {})
       /\ UNCHANGED <<select, gpio>>

\* Mutant of PrBase: what a partial write leaves alone is read from PR.
PrBaseRead == exti.pr

\* partialWriteBase of PR, which is cleared by writing ones.
PrBase == {}

\* Mutant of WritePr: the pending bits stay.
WritePrNoUpdate(access) ==
    /\ exti' = [exti EXCEPT !.pr = @ \ Written(PrBase, access)]
    /\ due' = due \ Written(PrBase, access)
    /\ UNCHANGED <<select, gpio, pend, soft>>

WritePr(access) ==
    LET acked == Written(PrBase, access)
    IN /\ UpdateIrqs([exti EXCEPT !.pr = @ \ acked], {}, acked)
       /\ UNCHANGED <<select, gpio>>

\* SYSCFG_EXTICR: no edge comes of it.
WriteExticr(lines) ==
    /\ select' = lines
    /\ UNCHANGED <<exti, gpio, pend, due, soft>>

-----------------------------------------------------------------------------
(* The bank *)

\* IDR: outputs reflect ODR, the others the level outside.
InputData(g) == (g.out \cap g.odr) \cup (g.ext \ g.out)

\* onGpioChange for every pin of changed whose level is another than before.
LevelsChange(g, changed) ==
    LET idr == InputData(g)
        rising  == (idr \ gpio.idr) \cap exti.rtsr
        falling == (gpio.idr \ idr) \cap exti.ftsr
    IN /\ gpio' = [g EXCEPT !.idr = idr]
       /\ Raise(exti, (rising \cup falling) \cap select \cap changed)
       /\ UNCHANGED select

\* setExternalInput (setButtonPressed and the pins of the board view).
SetExternalInput(pin, high) ==
    LevelsChange([gpio EXCEPT !.ext = IF high THEN @ \cup {pin} ELSE @ \ {pin}], {pin})

WriteModer(out) == LevelsChange([gpio EXCEPT !.out = out], Pins)

WriteOdr(access) == LevelsChange([gpio EXCEPT !.odr = Written(@, access)], Pins)

\* BSRR: setting has priority over resetting.  It reads as 0.
WriteBsrr(set, reset) == LevelsChange([gpio EXCEPT !.odr = (@ \ reset) \cup set], Pins)

-----------------------------------------------------------------------------
(* The NVIC and the reset *)

\* enterException clears the pending bit.
EnterException(irq) ==
    /\ irq \in pend
    /\ pend' = pend \ {irq} /\ soft' = soft \ {irq}
    /\ due' = {l \in due : Irq(l) # irq}
    /\ UNCHANGED <<exti, select, gpio>>

\* ISPR, ICPR.
WritePending(irq, set) ==
    /\ pend' = IF set THEN pend \cup {irq} ELSE pend \ {irq}
    /\ soft' = IF set THEN soft \cup {irq} ELSE soft \ {irq}
    /\ due' = IF set THEN due ELSE {l \in due : Irq(l) # irq}
    /\ UNCHANGED <<exti, select, gpio>>

\* Mutant of ResetLevels: the inputs read as 0 until they change.
ResetLevelsLow == {}

\* GpioBank::reset: the world outside is not reset.
ResetLevels == gpio.ext

ResetPins ==
    /\ exti' = ExtiReset /\ select' = ExticrReset
    /\ gpio' = [gpio EXCEPT !.out = {}, !.odr = {}, !.idr = ResetLevels]
    /\ pend' = {} /\ due' = {} /\ soft' = {}

-----------------------------------------------------------------------------

Firmware ==
    \/ \E access \in Accesses(Lines, Bytes) :
          WriteImr(access) \/ WriteSwier(access) \/ WritePr(access)
    \/ \E access \in Accesses(Pins, {}) : WriteTriggers(access) \/ WriteOdr(access)
    \/ \E pins \in SUBSET Pins : WriteExticr(pins) \/ WriteModer(pins)
    \/ \E set, reset \in SUBSET Pins : WriteBsrr(set, reset)
    \/ \E irq \in Irqs, set \in BOOLEAN : WritePending(irq, set)

ExtiNext ==
    \/ Firmware
    \/ \E pin \in Pins, high \in BOOLEAN : SetExternalInput(pin, high)
    \/ \E irq \in Irqs : EnterException(irq)
    \/ ResetPins

ExtiSpec == ExtiInit /\ [][ExtiNext]_extiVars

-----------------------------------------------------------------------------
(* Properties *)

\* An event pends its interrupt until the handler is entered, also when the
\* lines that share the interrupt are raised and acknowledged in between; and
\* an acknowledged event does not come again: a pending interrupt has a line
\* in PR that is not masked, or the firmware has set it pending itself.
EventsPend ==
    /\ \A l \in due \cap exti.imr : Irq(l) \in pend
    /\ \A q \in pend \ soft : \E l \in exti.pr \cap exti.imr : Irq(l) = q

\* The level of the pins themselves, whatever has been read or stored of it.
Level == {p \in Pins : IF p \in gpio.out THEN p \in gpio.odr ELSE p \in gpio.ext}

Edges ==
    {p \in select \cap exti.imr :
        \/ p \in Level' \ Level /\ p \in exti.rtsr
        \/ p \in Level \ Level' /\ p \in exti.ftsr}

\* Whatever moves a pin (the button, ODR, BSRR, a change of its mode), PR gets
\* exactly the lines whose selected edge it was, and no step moves PR for an
\* edge that was not there, such as the first write after a reset with the
\* button held.  Only SWIER raises a line without an edge.
EdgeStep ==
    \/ exti'.pr \ exti.pr = Edges \ exti.pr
    \/ ResetPins
    \/ \E access \in Accesses(Lines, Bytes) : WriteSwier(access)

EdgesExact == [][EdgeStep]_extiVars

\* PR loses a line only by a one that the firmware wrote to its bit: a byte or
\* bit-band write next to it acknowledges nothing (partialWriteBase).
AckStep ==
    \/ exti.pr \subseteq exti'.pr
    \/ ResetPins
    \/ /\ \E access \in Accesses(Lines, Bytes) : WritePr(access)
       /\ \A access \in Accesses(Lines, Bytes) :
             WritePr(access) => exti'.pr = exti.pr \ access.value

AckExact == [][AckStep]_extiVars

=============================================================================
