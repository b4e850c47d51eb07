-------------------------------- MODULE Nvic --------------------------------
(***************************************************************************)
(* The exception controller of the emulated Cortex-M4 (core/Nvic.cpp): what *)
(* is pending, what is enabled, how priorities and masks decide which       *)
(* exception preempts the running code, how faults and SVC escalate, and    *)
(* how nested handlers return.  Exceptions carry the architecture's         *)
(* numbers; interrupt line n is exception 16 + n.                           *)
(*                                                                         *)
(* One step is one instruction of the firmware that matters to the          *)
(* controller (a register write, an MSR to a mask, SVC, a fault, a return), *)
(* one call of a peripheral, or one exception entry between instructions.   *)
(* The stack frames hold only what the controller reads back, the stacked   *)
(* IPSR; ExcFrame models stack pointers, alignment and the FP context.      *)
(***************************************************************************)
EXTENDS Integers, Sequences, FiniteSets

CONSTANTS
  Irqs,      (* interrupt lines in use                                     *)
  SysPend,   (* system exceptions in use among NMI, PendSV and SysTick     *)
  Faults,    (* configurable faults in use: BusFault, UsageFault           *)
  Tuned,     (* exceptions whose priority firmware configures              *)
  Levels,    (* priority bytes that firmware writes                        *)
  Groupings, (* PRIGROUP values that firmware writes                       *)
  Basepris,  (* BASEPRI values that firmware writes                        *)
  NoVector   (* exceptions whose vector table entry is 0 or 0xFFFFFFFF     *)

NMI        == 2
HardFault  == 3
BusFault   == 5
UsageFault == 6
SVCall     == 11
PendSV     == 14
SysTick    == 15
Line(irq)  == 16 + irq
Lines      == {Line(irq) : irq \in Irqs}

Configurable == {BusFault, UsageFault, SVCall, PendSV, SysTick} \cup Lines
Exceptions   == {NMI, HardFault} \cup Configurable

(* highestPending() scans the 82 lines of the STM32F407; the registers and  *)
(* the pending flag cover 240.                                              *)
Scanned == SysPend \cup {Line(irq) : irq \in Irqs \cap (0 .. 81)}

ASSUME NvicAssumption ==
  /\ Irqs \subseteq 0 .. 239
  /\ SysPend \subseteq {NMI, PendSV, SysTick}
  /\ Faults \subseteq {BusFault, UsageFault}
  /\ Tuned \subseteq Configurable
  /\ Levels \subseteq 0 .. 255
  /\ Groupings \subseteq 0 .. 7
  /\ Basepris \subseteq 0 .. 255
  /\ NoVector \subseteq {HardFault, BusFault, UsageFault, SVCall}

VARIABLES
  pend,        (* ispr_, nmiPending_, pendsvPending_, systickPending_       *)
  iser,        (* enabled lines                                             *)
  iabr,        (* interrupt active bit register                             *)
  prio,        (* ipr_ and shpr_                                            *)
  prigroup,    (* AIRCR.PRIGROUP                                            *)
  shcsr,       (* configurable faults enabled in SHCSR                      *)
  pendingFlag, (* pendingEnabled_, polled by the CPU before an instruction  *)
  current,     (* currentException_                                         *)
  resetReq,    (* resetRequested_                                           *)
  primask, basepri, faultmask, ipsr,   (* the CPU's special registers       *)
  stacked      (* IPSR fields of the exception frames, innermost last       *)

nvicVars == <<pend, iser, iabr, prio, prigroup, shcsr, pendingFlag, current, resetReq>>
cpuVars  == <<primask, basepri, faultmask, ipsr, stacked>>
vars     == <<nvicVars, cpuVars>>

TypeOK ==
  /\ pend \in SUBSET (SysPend \cup Lines)
  /\ iser \in SUBSET Lines
  /\ iabr \in SUBSET Lines
  /\ prio \in [Configurable -> 0 .. 255]
  /\ prigroup \in 0 .. 7
  /\ shcsr \in SUBSET Faults
  /\ pendingFlag \in BOOLEAN
  /\ current \in {0} \cup Exceptions
  /\ resetReq \in BOOLEAN
  /\ primask \in BOOLEAN
  /\ basepri \in 0 .. 255
  /\ faultmask \in BOOLEAN
  /\ ipsr \in {0} \cup Exceptions
  /\ stacked \in Seq({0} \cup Exceptions)

-----------------------------------------------------------------------------
(* Priorities: a lower number is more urgent.                               *)

PriorityOf(e) ==
  CASE e = NMI -> -2 [] e = HardFault -> -1 [] OTHER -> prio[e]

(* PRIGROUP = n: bits [7:n+1] are the preemption priority.                  *)
GroupSize == <<2, 4, 8, 16, 32, 64, 128, 256>>

GroupPriority(p) == IF p < 0 THEN p ELSE p - (p % GroupSize[prigroup + 1])

Urgency(e) == IF e = 0 THEN 256 ELSE GroupPriority(PriorityOf(e))

Lower(a, b) == IF a < b THEN a ELSE b

(* Mutant of ExecutionPriority: FAULTMASK forgotten.                        *)
ExecutionPriorityNoFaultmask ==
  LET base == IF basepri # 0 THEN Lower(Urgency(current), GroupPriority(basepri))
                             ELSE Urgency(current)
  IN  IF primask THEN Lower(base, 0) ELSE base

(* What the running code runs at: only the current exception counts, then   *)
(* each mask can make it more urgent.                                       *)
ExecutionPriority ==
  LET base == IF basepri # 0 THEN Lower(Urgency(current), GroupPriority(basepri))
                             ELSE Urgency(current)
      prim == IF primask THEN Lower(base, 0) ELSE base
  IN  IF faultmask THEN Lower(prim, -1) ELSE prim

-----------------------------------------------------------------------------
(* Pending exceptions.                                                      *)

Enabled(on, e) == e < 16 \/ e \in on

AnyPending(p, on) == \E e \in p : Enabled(on, e)

Deliverable == {e \in pend \cap Scanned : Enabled(iser, e)}

(* Mutant of Before: the exception number decides before the priority.      *)
BeforeByNumber(e, f) == e <= f

Before(e, f) ==
  \/ PriorityOf(e) < PriorityOf(f)
  \/ PriorityOf(e) = PriorityOf(f) /\ e <= f

HighestPending(e) == e \in Deliverable /\ \A f \in Deliverable : Before(e, f)

Preempts(e) == HighestPending(e) /\ GroupPriority(PriorityOf(e)) < ExecutionPriority

WouldPreempt == \E e \in Deliverable : Preempts(e)

(* The CPU polls this before every instruction, so firmware runs only while *)
(* it is false.                                                             *)
MustStop == pendingFlag /\ WouldPreempt

Executes == ~MustStop /\ ~resetReq

-----------------------------------------------------------------------------
(* enterException and exitException.                                        *)

(* Mutant of Enter: system exceptions set an active bit too.                *)
EnterAnyActiveBit(e) ==
  /\ stacked' = Append(stacked, ipsr)
  /\ ipsr' = e
  /\ current' = e
  /\ pend' = pend \ {e}
  /\ pendingFlag' = AnyPending(pend', iser)
  /\ iabr' = iabr \cup {e}
  /\ UNCHANGED <<iser, prio, prigroup, shcsr, resetReq, primask, basepri, faultmask>>

Enter(e) ==
  /\ stacked' = Append(stacked, ipsr)
  /\ ipsr' = e
  /\ current' = e
  /\ pend' = pend \ {e}
  /\ pendingFlag' = AnyPending(pend', iser)
  /\ iabr' = IF e >= 16 THEN iabr \cup {e} ELSE iabr
  /\ UNCHANGED <<iser, prio, prigroup, shcsr, resetReq, primask, basepri, faultmask>>

(* Mutant of Return: the controller forgets the exception it returns to.    *)
ReturnToThread ==
  /\ Executes
  /\ ipsr # 0
  /\ ipsr' = stacked[Len(stacked)]
  /\ current' = 0
  /\ stacked' = SubSeq(stacked, 1, Len(stacked) - 1)
  /\ iabr' = iabr \ {ipsr'}
  /\ UNCHANGED <<pend, iser, prio, prigroup, shcsr, pendingFlag, resetReq,
                 primask, basepri, faultmask>>

(* BX to an EXC_RETURN value in handler mode: the frame's IPSR becomes the  *)
(* current exception, and it is that exception whose active bit is cleared. *)
Return ==
  /\ Executes
  /\ ipsr # 0
  /\ ipsr' = stacked[Len(stacked)]
  /\ current' = ipsr'
  /\ stacked' = SubSeq(stacked, 1, Len(stacked) - 1)
  /\ iabr' = iabr \ {current'}
  /\ UNCHANGED <<pend, iser, prio, prigroup, shcsr, pendingFlag, resetReq,
                 primask, basepri, faultmask>>

(* service(), called by the machine between instructions.                   *)
ServiceException(e) == ~resetReq /\ Preempts(e) /\ Enter(e)

Service == \E e \in Deliverable : ServiceException(e)

InHardFaultOrNMI == current \in {NMI, HardFault}

(* Entering HardFault for an exception that cannot be taken; nothing is     *)
(* entered in HardFault or NMI (lockup) or without a handler.               *)
Escalate == ~InHardFaultOrNMI /\ HardFault \notin NoVector /\ Enter(HardFault)

(* Mutant of RaiseFault: an enabled fault is taken whatever is running.     *)
RaiseFaultIgnoringPriority(e) ==
  /\ Executes
  /\ IF e \in shcsr THEN e \notin NoVector /\ Enter(e) ELSE Escalate

(* A bus error, or an undefined, unaligned or coprocessor instruction.      *)
RaiseFault(e) ==
  /\ Executes
  /\ IF e \in shcsr /\ GroupPriority(PriorityOf(e)) < ExecutionPriority
     THEN e \notin NoVector /\ Enter(e)
     ELSE Escalate

(* FaultType::Other: HardFault whatever SHCSR says.                         *)
RaiseOther == Executes /\ Escalate

RaiseSvc ==
  /\ Executes
  /\ IF GroupPriority(PriorityOf(SVCall)) < ExecutionPriority
     THEN SVCall \notin NoVector /\ Enter(SVCall)
     ELSE Escalate

-----------------------------------------------------------------------------
(* Peripherals drive their lines and SysTick.                               *)

SetPending(e, on) ==
  /\ pend' = IF on THEN pend \cup {e} ELSE pend \ {e}
  /\ pendingFlag' = AnyPending(pend', iser)
  /\ UNCHANGED <<iser, iabr, prio, prigroup, shcsr, current, resetReq, cpuVars>>

-----------------------------------------------------------------------------
(* Register writes by firmware.                                             *)

(* ICSR: PENDSTSET, PENDSVSET and NMIPENDSET win over the clear bits.       *)
WriteIcsr(set, clear) ==
  /\ Executes
  /\ pend' = (pend \ clear) \cup set
  /\ pendingFlag' = AnyPending(pend', iser)
  /\ UNCHANGED <<iser, iabr, prio, prigroup, shcsr, current, resetReq, cpuVars>>

(* Mutant of WriteEnable: the polled flag is not refreshed.                 *)
WriteEnableStaleFlag(on) ==
  /\ Executes
  /\ iser' = on
  /\ UNCHANGED <<pend, pendingFlag, iabr, prio, prigroup, shcsr, current, resetReq, cpuVars>>

(* ISER and ICER; ISPR and ICPR below.                                      *)
WriteEnable(on) ==
  /\ Executes
  /\ iser' = on
  /\ pendingFlag' = AnyPending(pend, on)
  /\ UNCHANGED <<pend, iabr, prio, prigroup, shcsr, current, resetReq, cpuVars>>

WriteIser(lines) == WriteEnable(iser \cup lines)
WriteIcer(lines) == WriteEnable(iser \ lines)

WritePend(p) ==
  /\ Executes
  /\ pend' = p
  /\ pendingFlag' = AnyPending(p, iser)
  /\ UNCHANGED <<iser, iabr, prio, prigroup, shcsr, current, resetReq, cpuVars>>

WriteIspr(lines) == WritePend(pend \cup lines)
WriteIcpr(lines) == WritePend(pend \ lines)

ActiveNow == {e \in Exceptions : e = ipsr \/ \E i \in 1 .. Len(stacked) : stacked[i] = e}

(* IPR and SHPR keep the four implemented priority bits.  Firmware sets the *)
(* priority of an exception while no handler of it is active, and the       *)
(* grouping before any is: executionPriority() looks at the current         *)
(* exception alone, so the order of nested handlers relies on it.           *)
WritePriority(e, byte) ==
  /\ Executes
  /\ e \notin ActiveNow
  /\ prio' = [prio EXCEPT ![e] = byte - (byte % 16)]
  /\ pendingFlag' = IF e < 16 THEN pendingFlag ELSE AnyPending(pend, iser)
  /\ UNCHANGED <<pend, iser, iabr, prigroup, shcsr, current, resetReq, cpuVars>>

WriteAircr(group, sysresetreq) ==
  /\ Executes
  /\ group # prigroup => ipsr = 0
  /\ prigroup' = group
  /\ resetReq' = sysresetreq
  /\ UNCHANGED <<pend, iser, iabr, prio, shcsr, pendingFlag, current, cpuVars>>

WriteShcsr(faults) ==
  /\ Executes
  /\ shcsr' = faults
  /\ UNCHANGED <<pend, iser, iabr, prio, prigroup, pendingFlag, current, resetReq, cpuVars>>

(* MSR to PRIMASK, BASEPRI or FAULTMASK: the CPU's, not the controller's.   *)
WriteMasks(p, b, f) ==
  /\ Executes
  /\ primask' = p /\ basepri' = b /\ faultmask' = f
  /\ UNCHANGED <<nvicVars, ipsr, stacked>>

-----------------------------------------------------------------------------
(* Machine::resetMcu with Nvic::reset and applyResetCpu: BASEPRI and        *)
(* FAULTMASK are not among the registers that applyResetCpu writes.         *)

ResetMcu ==
  /\ pend' = {} /\ iser' = {} /\ iabr' = {}
  /\ prio' = [e \in Configurable |-> 0]
  /\ prigroup' = 0
  /\ shcsr' = {}
  /\ pendingFlag' = FALSE
  /\ current' = 0
  /\ resetReq' = FALSE
  /\ primask' = FALSE
  /\ ipsr' = 0
  /\ stacked' = <<>>
  /\ UNCHANGED <<basepri, faultmask>>

SystemReset == resetReq /\ ResetMcu  (* takeResetRequest() in runChunk      *)

Init ==
  /\ pend = {} /\ iser = {} /\ iabr = {}
  /\ prio = [e \in Configurable |-> 0]
  /\ prigroup = 0
  /\ shcsr = {}
  /\ pendingFlag = FALSE
  /\ current = 0
  /\ resetReq = FALSE
  /\ primask = FALSE /\ basepri = 0 /\ faultmask = FALSE
  /\ ipsr = 0
  /\ stacked = <<>>

Peripheral == \E e \in Lines \cup (SysPend \cap {SysTick}), on \in BOOLEAN : SetPending(e, on)

RegisterWrite ==
  \/ \E set \in SUBSET SysPend, clear \in SUBSET (SysPend \ {NMI}) : WriteIcsr(set, clear)
  \/ \E lines \in SUBSET Lines :
        WriteIser(lines) \/ WriteIcer(lines) \/ WriteIspr(lines) \/ WriteIcpr(lines)
  \/ \E e \in Tuned, byte \in Levels : WritePriority(e, byte)
  \/ \E group \in Groupings, r \in BOOLEAN : WriteAircr(group, r)
  \/ \E faults \in SUBSET Faults : WriteShcsr(faults)
  \/ \E p, f \in BOOLEAN, b \in Basepris \cup {0} : WriteMasks(p, b, f)

Synchronous == (\E e \in Faults : RaiseFault(e)) \/ RaiseOther \/ RaiseSvc

Next == Peripheral \/ RegisterWrite \/ Synchronous \/ Return \/ Service \/ SystemReset \/ ResetMcu

Spec == Init /\ [][Next]_vars

-----------------------------------------------------------------------------
(* Properties.                                                              *)

(* The flag that the per-instruction hook polls says exactly whether an     *)
(* enabled exception is pending: a stale FALSE would delay an interrupt to  *)
(* the end of the chunk and a stale TRUE would keep WFI from sleeping.      *)
PendingFlagExact == pendingFlag = AnyPending(pend, iser)

(* The controller's currentException_ is the exception the CPU is in.       *)
IpsrAgrees == current = ipsr

(* The interrupted thread and the active handlers, innermost last.          *)
Chain == Append(stacked, ipsr)

(* Every active handler is strictly more urgent than all the code below it  *)
(* on the stack, faults, SVC and escalations included; so no handler is     *)
(* entered again while it is active.                                        *)
NestingStrict ==
  /\ Chain[1] = 0
  /\ \A i, j \in 1 .. Len(Chain) : i < j => Urgency(Chain[j]) < Urgency(Chain[i])

(* No handler is entered again while it is active.                          *)
NoReentry ==
  \A i, j \in 1 .. Len(Chain) : i # j => Chain[i] # Chain[j]

(* Whenever firmware may execute, no deliverable exception is more urgent   *)
(* than all the active handlers and than every mask in force.               *)
NoPriorityInversion ==
  Executes =>
    \A e \in Deliverable :
      \/ \E a \in ActiveNow : Urgency(a) <= Urgency(e)
      \/ primask /\ Urgency(e) >= 0
      \/ faultmask /\ Urgency(e) >= -1
      \/ basepri # 0 /\ Urgency(e) >= GroupPriority(basepri)

(* An exception entered while a mask is set is one that the mask lets       *)
(* through: FAULTMASK leaves NMI, PRIMASK also HardFault, BASEPRI the more  *)
(* urgent groups; a fault or SVC that cannot be taken becomes HardFault.    *)
MaskStep ==
  Len(stacked') = Len(stacked) + 1 =>
    \/ ipsr' \in {NMI, HardFault}
    \/ /\ ~primask /\ ~faultmask
       /\ basepri # 0 => Urgency(ipsr') < GroupPriority(basepri)

MasksRespected == [][MaskStep]_vars

(* CMSIS documents IABR as the active bit of each device interrupt.         *)
IabrIsActive == iabr = ActiveNow \cap Lines

(* Reset restarts the whole MCU: no mask of the old run stays in force.     *)
ResetUnmasks == [][ResetMcu => ExecutionPriority' = 256]_vars
=============================================================================
