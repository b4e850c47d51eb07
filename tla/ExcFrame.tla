------------------------------ MODULE ExcFrame ------------------------------
(***************************************************************************)
(* Exception entry and return in full (Nvic::enterException, exitException) *)
(* under nested handlers and an RTOS that switches tasks in PendSV: the two *)
(* stack pointers, 8-byte alignment, basic and floating-point frames,       *)
(* EXC_RETURN, CONTROL, and Unicorn's banked stack pointer, whose rules the *)
(* order of the register writes has to respect.  Which exception may        *)
(* preempt is Nvic's matter; here a higher number preempts a lower one.     *)
(*                                                                         *)
(* Addresses count words.  A register file is named by the code that wrote  *)
(* it last: core for R0-R3, R12, PC and flags, s for S0-S15.                *)
(***************************************************************************)
EXTENDS Integers, Sequences

CONSTANTS
  Tasks,   (* tasks of the RTOS, each with its own stack; 0 is main()       *)
  Depth,   (* exceptions that can nest                                      *)
  Fpdscrs, (* values that firmware writes to FPDSCR                         *)
  StackSize  (* words of each stack                                         *)

ASSUME ExcFrameAssumption ==
  /\ Tasks \subseteq Nat \ {0}
  /\ Depth \in Nat \ {0}
  /\ Fpdscrs \subseteq Int
  /\ StackSize \in Nat /\ StackSize % 2 = 0
  /\ StackSize >= 28 * (Depth + 1)   \* a frame, its padding and a word for each level

VARIABLES
  cpu,    (* Unicorn's registers                                            *)
  mem,    (* the stacks: base address of a frame or pushed word -> content  *)
  fpdscr, (* fpdscr_                                                        *)
  cur,    (* the running task, 0 for main(), NoTask during a switch         *)
  tcb,    (* what the scheduler keeps of a parked task                      *)
  fresh,  (* history: {FPDSCR at its entry} of a handler that has not used  *)
          (* the FPU yet, {} otherwise                                      *)
  saved, parked  (* history: interrupted contexts and parked tasks          *)

rtos    == <<cur, tcb>>
history == <<fresh, saved, parked>>
vars    == <<cpu, mem, fpdscr, rtos, history>>

Levels == 1 .. Depth
Kernel == 1     (* PendSV and SVC of the RTOS, the least urgent exceptions  *)
NoTask == -1

Top(t) == StackSize * (t + 1)

StackOf(a) == (a - 1) \div StackSize

Owner == IF cpu.ipsr = 0 THEN cur ELSE 10 + cpu.ipsr

-----------------------------------------------------------------------------
(* EXC_RETURN by its last byte: F1, F9, FD and, with a floating-point       *)
(* frame (bit 4 = 0), E1, E9, ED.  Other values of LR are ordinary.  The    *)
(* bits of CONTROL are 0 or 1.                                              *)

ToHandler == 241
ToMsp     == 249
ToPsp     == 253
WithFp(exc)  == exc - 16
HasFp(exc)   == (exc \div 16) % 2 = 0
FpBit(exc)   == 1 - ((exc \div 16) % 2)
ThreadReturns == {ToMsp, ToPsp, WithFp(ToMsp), WithFp(ToPsp)}
ExcReturns    == ThreadReturns \cup {ToHandler, WithFp(ToHandler)}
BootLr == 255
CallLr == 0

-----------------------------------------------------------------------------
(* Unicorn's stack pointers: SP is the active one, the other is kept aside. *)

UsesPsp(c) == c.ipsr = 0 /\ c.spsel = 1

Rebank(c, d) ==
  IF UsesPsp(c) = UsesPsp(d) THEN d ELSE [d EXCEPT !.sp = c.other, !.other = c.sp]

SetXpsr(c, ipsr) == Rebank(c, [c EXCEPT !.ipsr = ipsr])

Unprivileged(c) == c.ipsr = 0 /\ c.npriv = 1

(* Unprivileged code cannot write CONTROL, and a handler cannot set SPSEL.  *)
SetControl(c, npriv, spsel, fpca) ==
  IF Unprivileged(c) THEN c
  ELSE Rebank(c, [c EXCEPT !.npriv = npriv, !.fpca = fpca,
                           !.spsel = IF c.ipsr = 0 THEN spsel ELSE @])

SetMsp(c, v) ==
  IF Unprivileged(c) THEN c
  ELSE IF UsesPsp(c) THEN [c EXCEPT !.other = v] ELSE [c EXCEPT !.sp = v]

SetPsp(c, v) ==
  IF Unprivileged(c) THEN c
  ELSE IF UsesPsp(c) THEN [c EXCEPT !.sp = v] ELSE [c EXCEPT !.other = v]

Msp(c) == IF UsesPsp(c) THEN c.other ELSE c.sp
Psp(c) == IF UsesPsp(c) THEN c.sp ELSE c.other

(* Clearing nPRIV for unprivileged code takes a detour through handler      *)
(* mode, where the active stack pointer is MSP for a moment.                *)
SetNPriv(c, on) ==
  IF c.npriv = on THEN c
  ELSE IF on = 0 /\ c.ipsr = 0
  THEN SetXpsr(SetControl(SetXpsr(c, 3), 0, c.spsel, c.fpca), 0)
  ELSE SetControl(c, on, c.spsel, c.fpca)

-----------------------------------------------------------------------------
(* Stack memory.  A store destroys whatever it overlaps, and what lies      *)
(* below the stack pointer is dead.                                         *)

FrameSize(fp) == IF fp = 1 THEN 26 ELSE 8

Store(m, a, content) ==
  [x \in {a} \cup {b \in DOMAIN m : b + m[b].size <= a \/ b >= a + content.size} |->
     IF x = a THEN content ELSE m[x]]

Free(m, from, to) == [x \in {b \in DOMAIN m : b < from \/ b >= to} |-> m[x]]

Word(own, lr) == [kind |-> "word", size |-> 1, own |-> own, lr |-> lr]

Frame(c, fp, align) ==
  [kind |-> "frame", size |-> FrameSize(fp), core |-> c.core, lr |-> c.lr, ipsr |-> c.ipsr,
   align |-> align, s |-> IF fp = 1 THEN c.s ELSE -1, fpscr |-> IF fp = 1 THEN c.fpscr ELSE -1]

(* What a return pops where no frame was pushed.                            *)
Garbage == [core |-> -1, lr |-> -1, ipsr |-> 0, align |-> 0, s |-> -1, fpscr |-> -1]

FrameAt(a) == IF a \in DOMAIN mem /\ mem[a].kind = "frame" THEN mem[a] ELSE Garbage

(* Everything that code can see of its own state: registers, stack pointer  *)
(* and stack, and the floating-point state while it has one.                *)
Context(c, m, new) ==
  [core |-> c.core, lr |-> c.lr, ipsr |-> c.ipsr, spsel |-> c.spsel, sp |-> c.sp,
   fpca |-> c.fpca, s |-> IF c.fpca = 1 THEN c.s ELSE 0, fpscr |-> IF c.fpca = 1 THEN c.fpscr ELSE 0,
   fresh |-> new,
   stack |-> [x \in {b \in DOMAIN m : StackOf(b) = StackOf(c.sp) /\ b >= c.sp} |-> m[x]]]

-----------------------------------------------------------------------------
(* Entry.                                                                   *)

ExcReturnFor(c) ==
  LET to == IF c.ipsr # 0 THEN ToHandler ELSE IF c.spsel = 1 THEN ToPsp ELSE ToMsp
  IN  IF c.fpca = 1 THEN WithFp(to) ELSE to

(* Mutant of EntryFrame: room for a basic frame only.                       *)
EntryFrameBasic(c) ==
  LET sp == IF UsesPsp(c) THEN Psp(c) ELSE Msp(c) IN sp - (sp % 2) - FrameSize(0)

EntryFrame(c) ==
  LET sp == IF UsesPsp(c) THEN Psp(c) ELSE Msp(c) IN sp - (sp % 2) - FrameSize(c.fpca)

(* Mutant of HandlerControl: FPDSCR ignored.                                *)
HandlerControlNoFpdscr(c) == SetControl(c, 0, 0, 0)

(* MSP active, and no floating-point context unless FPDSCR forces one.      *)
HandlerControl(c) ==
  IF fpdscr # 0 THEN SetControl([c EXCEPT !.fpscr = fpdscr], 0, 0, 1) ELSE SetControl(c, 0, 0, 0)

(* Mutant of RestoreNPriv: nPRIV is forgotten.                              *)
ForgetNPriv(c, npriv) == c

RestoreNPriv(c, npriv) == IF npriv = 1 THEN SetNPriv(c, 1) ELSE c

Entered(c0, e) ==
  LET c1  == SetNPriv(c0, 0)
      msp == IF UsesPsp(c0) THEN Msp(c1) ELSE EntryFrame(c1)
      psp == IF UsesPsp(c0) THEN EntryFrame(c1) ELSE Psp(c1)
      c2  == SetPsp(SetMsp(HandlerControl(c1), msp), psp)
      c3  == SetXpsr([c2 EXCEPT !.lr = ExcReturnFor(c0)], e)
  IN  RestoreNPriv(c3, c0.npriv)

EnterException(e) ==
  /\ e > cpu.ipsr
  /\ cpu' = Entered(cpu, e)
  /\ mem' = Store(mem, EntryFrame(cpu), Frame(cpu, cpu.fpca, cpu.sp % 2))
  /\ saved' = Append(saved, Context(cpu, mem, fresh))
  /\ fresh' = {fpdscr}
  /\ UNCHANGED <<fpdscr, rtos, parked>>

(* Return: BX or POP puts EXC_RETURN into PC without its bit 0, and the     *)
(* interrupt hook of the machine sets it again.                             *)
BranchedTo(exc) == exc - (exc % 2)

Hooked(pc) == pc - (pc % 2) + 1

IsToPsp(exc) == exc % 16 = 13

ReturnFrame(exc) == IF IsToPsp(exc) THEN Psp(cpu) ELSE Msp(cpu)

(* Mutant of ReturnTop: the alignment word stays on the stack.              *)
ReturnTopUnpadded(exc) == ReturnFrame(exc) + FrameSize(FpBit(exc))

ReturnTop(exc) ==
  ReturnFrame(exc) + FrameSize(FpBit(exc)) + FrameAt(ReturnFrame(exc)).align

(* Mutant of ReturnMode: SPSEL is written while still in handler mode.      *)
ReturnModeEarly(c, ipsr, toPsp) ==
  SetXpsr(IF toPsp THEN SetControl(c, c.npriv, 1, c.fpca) ELSE c, ipsr)

(* SPSEL can be set only once the CPU is in thread mode.                    *)
ReturnMode(c, ipsr, toPsp) ==
  LET d == SetXpsr(c, ipsr) IN IF toPsp THEN SetControl(d, d.npriv, 1, d.fpca) ELSE d

Returned(exc) ==
  LET f   == FrameAt(ReturnFrame(exc))
      msp == IF IsToPsp(exc) THEN Msp(cpu) ELSE ReturnTop(exc)
      psp == IF IsToPsp(exc) THEN ReturnTop(exc) ELSE Psp(cpu)
      c1  == IF HasFp(exc) THEN [cpu EXCEPT !.s = f.s, !.fpscr = f.fpscr] ELSE cpu
      c2  == SetControl(c1, 0, c1.spsel, FpBit(exc))
      c3  == ReturnMode([c2 EXCEPT !.core = f.core, !.lr = f.lr], f.ipsr, IsToPsp(exc))
  IN  RestoreNPriv(SetPsp(SetMsp(c3, msp), psp), cpu.npriv)

ExitException ==
  LET exc == Hooked(BranchedTo(cpu.lr)) IN
  /\ cpu.ipsr # 0 /\ cpu.lr \in ExcReturns
  /\ cpu.ipsr = Kernel => cur # NoTask
  /\ cpu' = Returned(exc)
  /\ mem' = Free(mem, ReturnFrame(exc), ReturnTop(exc))
  /\ fresh' = saved[Len(saved)].fresh
  /\ saved' = SubSeq(saved, 1, Len(saved) - 1)
  /\ UNCHANGED <<fpdscr, rtos, parked>>

-----------------------------------------------------------------------------
(* Firmware between exceptions.                                             *)

Compute ==
  /\ cpu' = [cpu EXCEPT !.core = Owner]
  /\ UNCHANGED <<mem, fpdscr, rtos, history>>

(* The first floating-point instruction without a context creates one, with *)
(* Unicorn's own FPDSCR, which is 0.                                        *)
WithFpContext(c) == IF c.fpca = 1 THEN c ELSE [c EXCEPT !.fpca = 1, !.fpscr = 0]

UseFp ==
  /\ cpu' = [WithFpContext(cpu) EXCEPT !.s = Owner]
  /\ fresh' = {}
  /\ UNCHANGED <<mem, fpdscr, rtos, saved, parked>>

WriteFpscr ==
  /\ cpu.fpca = 1 /\ fresh = {}
  /\ cpu' = [cpu EXCEPT !.fpscr = Owner]
  /\ UNCHANGED <<mem, fpdscr, rtos, history>>

HasPushed == cpu.sp \in DOMAIN mem /\ mem[cpu.sp].kind = "word" /\ mem[cpu.sp].own = Owner

(* A function saves LR and calls another one.                               *)
PushAndCall ==
  /\ ~HasPushed
  /\ mem' = Store(mem, cpu.sp - 1, Word(Owner, cpu.lr))
  /\ cpu' = [cpu EXCEPT !.sp = @ - 1, !.lr = CallLr]
  /\ UNCHANGED <<fpdscr, rtos, history>>

PopLr ==
  /\ HasPushed
  /\ cpu' = [cpu EXCEPT !.sp = @ + 1, !.lr = mem[cpu.sp].lr]
  /\ mem' = Free(mem, cpu.sp, cpu.sp + 1)
  /\ UNCHANGED <<fpdscr, rtos, history>>

(* MSR CONTROL: a task gives up its privileges, a handler grants them.      *)
WritePrivilege(npriv) ==
  /\ npriv = IF cpu.ipsr = 0 THEN 1 ELSE 0
  /\ cpu' = SetControl(cpu, npriv, cpu.spsel, cpu.fpca)
  /\ UNCHANGED <<mem, fpdscr, rtos, history>>

(* Any privileged code, a handler also for itself and those it interrupted. *)
WriteFpdscr(v) ==
  /\ ~Unprivileged(cpu)
  /\ fpdscr' = v
  /\ UNCHANGED <<cpu, mem, rtos, history>>

-----------------------------------------------------------------------------
(* The FreeRTOS port: PendSV keeps PSP and EXC_RETURN of the task, and its  *)
(* VSTM and VLDM of S16-S31 are floating-point instructions.                *)

InKernel == cpu.ipsr = Kernel /\ cpu.lr \in ThreadReturns

KernelFp(c, exc) == IF HasFp(exc) THEN WithFpContext(c) ELSE c

SwitchOut ==
  /\ InKernel /\ cur \in Tasks
  /\ tcb' = [tcb EXCEPT ![cur] = [psp |-> Psp(cpu), lr |-> cpu.lr]]
  /\ cpu' = KernelFp(cpu, cpu.lr)
  /\ fresh' = IF HasFp(cpu.lr) THEN {} ELSE fresh
  /\ cur' = NoTask
  /\ parked' = [parked EXCEPT ![cur] = saved[1]]
  /\ UNCHANGED <<mem, fpdscr, saved>>

(* prvPortStartFirstTask: main() empties the main stack, clears CONTROL and *)
(* calls SVC, whose handler loads the first task.                           *)
PrepareStart ==
  /\ cpu.ipsr = 0 /\ cur = 0 /\ cpu.npriv = 0
  /\ cpu' = SetControl(SetMsp(cpu, Top(0)), 0, 0, 0)
  /\ mem' = Free(mem, cpu.sp, Top(0))
  /\ UNCHANGED <<fpdscr, rtos, history>>

Prepared(c) == c.sp = Top(0) /\ c.fpca = 0

SwitchIn(t) ==
  /\ InKernel /\ cur \notin Tasks
  /\ cur = 0 => Prepared(saved[1])
  /\ cpu' = SetPsp([KernelFp(cpu, tcb[t].lr) EXCEPT !.lr = tcb[t].lr], tcb[t].psp)
  /\ fresh' = IF HasFp(tcb[t].lr) THEN {} ELSE fresh
  /\ cur' = t
  /\ saved' = <<parked[t]>>
  /\ UNCHANGED <<mem, fpdscr, tcb, parked>>

-----------------------------------------------------------------------------
(* Reset: applyResetCpu, then the firmware creates its tasks again.         *)

ResetCpu(c0) ==
  LET c1 == SetXpsr(SetNPriv(c0, 0), 0)
      c2 == SetPsp(SetMsp(SetControl(c1, 0, 0, 0), Top(0)), Top(0))
  IN  [c2 EXCEPT !.lr = BootLr, !.core = 0]

NewTaskPsp(t) == Top(t) - FrameSize(0)

NewTaskCpu(t) ==
  [sp |-> Top(t), other |-> 0, spsel |-> 1, npriv |-> 0, fpca |-> 0,
   ipsr |-> 0, lr |-> CallLr, core |-> t, s |-> 0, fpscr |-> 0]

(* pxPortInitialiseStack                                                    *)
NewTaskStacks ==
  [a \in {NewTaskPsp(t) : t \in Tasks} |-> Frame(NewTaskCpu(StackOf(a)), 0, 0)]

NewTcb == [t \in Tasks |-> [psp |-> NewTaskPsp(t), lr |-> ToPsp]]

NoMemory    == [a \in {} |-> 0]
BootCpu     == [sp |-> Top(0), other |-> Top(0), spsel |-> 0, npriv |-> 0,
                fpca |-> 0, ipsr |-> 0, lr |-> BootLr, core |-> 0, s |-> 0, fpscr |-> 0]
BootContext == Context(BootCpu, NoMemory, {})
Created     == [t \in Tasks |-> Context(NewTaskCpu(t), NoMemory, {})]

Reset ==
  /\ cpu' = ResetCpu(cpu)
  /\ mem' = NewTaskStacks
  /\ fpdscr' = 0
  /\ cur' = 0 /\ tcb' = NewTcb
  /\ fresh' = {} /\ saved' = <<>> /\ parked' = Created

Init ==
  /\ cpu = BootCpu
  /\ mem = NewTaskStacks
  /\ fpdscr = 0
  /\ cur = 0 /\ tcb = NewTcb
  /\ fresh = {} /\ saved = <<>> /\ parked = Created

Firmware ==
  \/ Compute \/ UseFp \/ WriteFpscr \/ PushAndCall \/ PopLr
  \/ \E npriv \in {0, 1} : WritePrivilege(npriv)
  \/ \E v \in Fpdscrs : WriteFpdscr(v)
  \/ PrepareStart \/ SwitchOut \/ (\E t \in Tasks : SwitchIn(t))

Next == (\E e \in Levels : EnterException(e)) \/ ExitException \/ Firmware \/ Reset

Spec == Init /\ [][Next]_vars

-----------------------------------------------------------------------------
(* Properties.                                                              *)

TypeOK ==
  /\ cpu.sp \in Nat /\ cpu.other \in Nat /\ cpu.ipsr \in 0 .. Depth
  /\ cpu.spsel \in {0, 1} /\ cpu.npriv \in {0, 1} /\ cpu.fpca \in {0, 1}
  /\ cpu.lr \in ExcReturns \cup {BootLr, CallLr}
  /\ cur \in Tasks \cup {0, NoTask}
  /\ fpdscr \in Fpdscrs \cup {0}
  /\ DOMAIN mem \subseteq 1 .. Top(0) \cup UNION {Top(t - 1) + 1 .. Top(t) : t \in Tasks}
  /\ fresh \in SUBSET (Fpdscrs \cup {0})
  /\ DOMAIN parked = Tasks /\ DOMAIN tcb = Tasks

(* Interrupted code and parked tasks resume with their registers, stack     *)
(* pointer, stack and floating-point state, whatever nested handlers, task  *)
(* switches and resets happened meanwhile.                                  *)
Promise == INSTANCE Contexts WITH
  Boot <- BootContext, running <- Context(cpu, mem, fresh), suspended <- saved

Implements == Promise!Spec

(* Handlers and main() run on the main stack, a task on its own, and the    *)
(* stack pointer that Unicorn keeps aside is the other one.                 *)
OnOwnStack ==
  /\ StackOf(cpu.sp) = IF cpu.ipsr = 0 THEN cur ELSE 0
  /\ cur \in Tasks => StackOf(cpu.other) = IF cpu.ipsr = 0 THEN 0 ELSE cur

(* Entry and return leave nPRIV as it was, though they work privileged.     *)
PrivilegeKept ==
  [][Reset \/ (cpu'.ipsr # cpu.ipsr => cpu'.npriv = cpu.npriv)]_vars

(* A handler's first floating-point instruction finds in FPSCR what FPDSCR  *)
(* was at its entry, whichever handlers used the FPU, switched tasks or     *)
(* wrote FPDSCR in between.                                                 *)
FirstFpStep ==
  fresh # {} /\ fresh' = {} /\ cpu'.ipsr = cpu.ipsr => fresh = {cpu'.fpscr}

FpscrDefault == [][FirstFpStep]_vars
=============================================================================
