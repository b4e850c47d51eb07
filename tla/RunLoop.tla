------------------------------ MODULE RunLoop ------------------------------
(***************************************************************************)
(* How firmware time advances: CpuEngine::run with its per-instruction      *)
(* hook, Machine::runChunk, step and runQuantum, and the resumes of the     *)
(* worker.  The loop runs chunks that must end exactly at timer events,     *)
(* ticks the timers late (at the end of a chunk or before a register        *)
(* access), and skips idle time in WFI; RefCpu says what must come out.     *)
(***************************************************************************)
EXTENDS ToyCore

CONSTANTS
  Quantum,  (* instructions of one runQuantum call                          *)
  Chunk,    (* kChunk                                                       *)
  BpSites,  (* addresses where breakpoints are set                          *)
  Ranges    (* ranges of range steps                                        *)

ASSUME RunLoopAssumption ==
  /\ Quantum \in Nat \ {0} /\ Chunk \in Nat \ {0}
  /\ BpSites \subseteq Addresses /\ Ranges \subseteq SUBSET Addresses

VARIABLES
  prog, pc, mode, saved, primask, pend, cnt, sleeping,
  phase,       (* where the worker is: "stopped", "tick" (between quanta),   *)
               (* "chunk", "run", "ran", "slept" or "after"                  *)
  op,          (* "run" or "step"                                            *)
  left, idle,  (* of runQuantum                                              *)
  runLimit, runExecuted, chunkTicked, lastCycles,
  lastStop, stopPc, firstInsn, forceResume,
  bps, range,
  resumePc     (* PC of the last resume while nothing has run since, else -1 *)

core   == <<prog, pc, mode, saved, primask, pend, cnt, sleeping>>
engine == <<runLimit, runExecuted, chunkTicked, lastStop, stopPc, firstInsn>>
vars   == <<core, engine, phase, op, left, idle, lastCycles, forceResume, bps, range, resumePc>>

MachineOK ==
  /\ prog \in Programs
  /\ pc \in Addresses /\ saved \in Addresses
  /\ mode \in {"thread", "handler"} /\ primask \in BOOLEAN
  /\ pend \subseteq {Timer, Button} /\ sleeping \in BOOLEAN

ControlOK ==
  /\ phase \in {"stopped", "tick", "chunk", "run", "ran", "slept", "after"}
  /\ op \in {"run", "step"}
  /\ lastStop \in {"None", "Quantum", "Sleep", "Breakpoint", "StepDone"}
  /\ stopPc \in Addresses /\ firstInsn \in BOOLEAN /\ forceResume \in BOOLEAN
  /\ bps \subseteq BpSites /\ range \in Ranges \cup {{}}
  /\ resumePc \in Addresses \cup {-1}

CountsOK ==
  /\ cnt \in Nat /\ left \in 0 .. Quantum /\ idle \in Nat
  /\ runLimit \in 0 .. Chunk /\ runExecuted \in 0 .. runLimit
  /\ chunkTicked \in 0 .. runExecuted /\ lastCycles \in 0 .. Chunk

TypeOK == MachineOK /\ ControlOK /\ CountsOK

MinOf(a, b) == IF a < b THEN a ELSE b
MaxOf(a, b) == IF a > b THEN a ELSE b

pendingFlag  == pend # {}
wouldPreempt == pend # {} /\ mode = "thread" /\ ~primask

(* Mutant of cyclesToNextEvent: one cycle late.                             *)
cyclesToNextEventLate == IF cnt = 0 THEN Chunk ELSE cnt + 1

(* A stopped timer has no event within a chunk.                             *)
cyclesToNextEvent == IF cnt = 0 THEN Chunk ELSE cnt

Init ==
  /\ prog \in Programs
  /\ pc = 0 /\ mode = "thread" /\ saved = 0 /\ primask = FALSE
  /\ pend = {} /\ cnt = Reload /\ sleeping = FALSE
  /\ phase = "stopped" /\ op = "run" /\ left = 0 /\ idle = 0
  /\ runLimit = 0 /\ runExecuted = 0 /\ chunkTicked = 0 /\ lastCycles = 0
  /\ lastStop = "None" /\ stopPc = 0 /\ firstInsn = FALSE /\ forceResume = FALSE
  /\ bps = {} /\ range = {} /\ resumePc = -1

-----------------------------------------------------------------------------
(* The worker: run, range step, step, pause, and what the UI changes        *)
(* between quanta.                                                          *)

StartRun ==
  /\ phase = "stopped"
  /\ forceResume' = TRUE
  /\ phase' = "tick" /\ op' = "run"
  /\ range' \in Ranges \cup {{}}
  /\ resumePc' = pc
  /\ UNCHANGED <<core, engine, left, idle, lastCycles, bps>>

Step ==
  /\ phase = "stopped"
  /\ forceResume' = TRUE
  /\ phase' = "chunk" /\ op' = "step" /\ left' = 1
  /\ resumePc' = pc
  /\ UNCHANGED <<core, engine, idle, lastCycles, bps, range>>

StartQuantum ==
  /\ phase = "tick"
  /\ left' = Quantum /\ idle' = 0
  /\ phase' = "chunk"
  /\ UNCHANGED <<core, engine, op, lastCycles, forceResume, bps, range, resumePc>>

Halt == phase' = "stopped" /\ range' = {}

Pause ==
  /\ phase = "tick"
  /\ Halt
  /\ UNCHANGED <<core, engine, op, left, idle, lastCycles, forceResume, bps, resumePc>>

Between == phase \in {"stopped", "tick"}

Press ==
  /\ Between
  /\ pend' = pend \cup {Button}
  /\ UNCHANGED <<prog, pc, mode, saved, primask, cnt, sleeping, engine, phase, op, left, idle,
                 lastCycles, forceResume, bps, range, resumePc>>

SetBreakpoints ==
  /\ Between
  /\ bps' \in SUBSET BpSites
  /\ UNCHANGED <<core, engine, phase, op, left, idle, lastCycles, forceResume, range, resumePc>>

-----------------------------------------------------------------------------
(* CpuEngine::run.                                                          *)

(* Mutant of FirstInsn: any stop at this PC counts as a resume.             *)
FirstInsnAnyStop == forceResume \/ pc = stopPc

FirstInsn == forceResume \/ (lastStop \in {"Breakpoint", "StepDone"} /\ pc = stopPc)

BeginRun ==
  /\ phase = "chunk" /\ ~sleeping
  /\ runLimit' = MaxOf(1, MinOf(MinOf(left, Chunk), cyclesToNextEvent))
  /\ runExecuted' = 0 /\ chunkTicked' = 0
  /\ firstInsn' = FirstInsn
  /\ forceResume' = FALSE
  /\ lastStop' = "Quantum"
  /\ phase' = "run"
  /\ UNCHANGED <<core, stopPc, op, left, idle, lastCycles, bps, range, resumePc>>

(* The hook before every instruction, in its order of checks.               *)
AtLimit   == runExecuted >= runLimit
IrqStop   == pendingFlag /\ wouldPreempt
OffRange  == range # {} /\ pc \notin range
StopCheck == ~firstInsn /\ (OffRange \/ pc \in bps)
FallsAsleep == prog[pc] = "wfi" /\ ~pendingFlag

StopEarly ==
  /\ phase = "run" /\ (AtLimit \/ IrqStop)
  /\ phase' = "ran"
  /\ UNCHANGED <<core, engine, op, left, idle, lastCycles, forceResume, bps, range, resumePc>>

StopForUser ==
  /\ phase = "run" /\ ~AtLimit /\ ~IrqStop /\ StopCheck
  /\ lastStop' = IF OffRange THEN "StepDone" ELSE "Breakpoint"
  /\ stopPc' = pc
  /\ phase' = "ran"
  /\ UNCHANGED <<core, runLimit, runExecuted, chunkTicked, firstInsn, op, left, idle,
                 lastCycles, forceResume, bps, range, resumePc>>

GoesOn == phase = "run" /\ ~AtLimit /\ ~IrqStop /\ ~StopCheck

(* WFI in flash with nothing pending: run() moves PC past it and counts it. *)
FallAsleep ==
  /\ GoesOn /\ FallsAsleep
  /\ pc' = Sequel(pc)
  /\ runExecuted' = runExecuted + 1
  /\ lastStop' = "Sleep"
  /\ firstInsn' = FALSE
  /\ phase' = "ran" /\ resumePc' = -1
  /\ UNCHANGED <<prog, mode, saved, primask, pend, cnt, sleeping, runLimit, chunkTicked,
                 stopPc, op, left, idle, lastCycles, forceResume, bps, range>>

(* Mutant of AccessEffects: the chunk is not shortened after the write.     *)
AccessEffectsNoLimit(kind) ==
  LET done == runExecuted + 1 IN
  /\ pend' = PendAfter(pend, cnt, done - chunkTicked)
               \cup (IF kind = "pend" THEN {Button} ELSE {})
  /\ cnt' = IF kind = "arm" THEN Short ELSE CountAfter(cnt, done - chunkTicked)
  /\ chunkTicked' = done
  /\ runLimit' = runLimit

(* Mutant of AccessEffects: the new limit replaces the old one.             *)
AccessEffectsRaisesLimit(kind) ==
  LET done == runExecuted + 1 IN
  /\ pend' = PendAfter(pend, cnt, done - chunkTicked)
               \cup (IF kind = "pend" THEN {Button} ELSE {})
  /\ cnt' = IF kind = "arm" THEN Short ELSE CountAfter(cnt, done - chunkTicked)
  /\ chunkTicked' = done
  /\ runLimit' = done + (IF cnt' = 0 THEN Chunk ELSE cnt')

(* A register access: syncTimers before it, and after the write the chunk   *)
(* ends no later than the next event.  The count includes this instruction. *)
AccessEffects(kind) ==
  LET done == runExecuted + 1 IN
  /\ pend' = PendAfter(pend, cnt, done - chunkTicked)
               \cup (IF kind = "pend" THEN {Button} ELSE {})
  /\ cnt' = IF kind = "arm" THEN Short ELSE CountAfter(cnt, done - chunkTicked)
  /\ chunkTicked' = done
  /\ runLimit' = MinOf(runLimit, done + (IF cnt' = 0 THEN Chunk ELSE cnt'))

Execute ==
  LET kind == prog[pc] IN
  /\ GoesOn /\ ~FallsAsleep
  /\ runExecuted' = runExecuted + 1
  /\ firstInsn' = FALSE
  /\ IF kind \in {"arm", "pend"}
     THEN AccessEffects(kind)
     ELSE UNCHANGED <<pend, cnt, chunkTicked, runLimit>>
  /\ pc' = IF kind = "ret" THEN saved ELSE Sequel(pc)
  /\ mode' = IF kind = "ret" THEN "thread" ELSE mode
  /\ primask' = CASE kind = "cpsid" -> TRUE [] kind = "cpsie" -> FALSE [] OTHER -> primask
  /\ resumePc' = -1
  /\ UNCHANGED <<prog, saved, sleeping, lastStop, stopPc, phase, op, left, idle, lastCycles,
                 forceResume, bps, range>>

-----------------------------------------------------------------------------
(* The rest of runChunk, and the loop of runQuantum around it.              *)

(* Nvic::service with the pending set p that the last tick left.            *)
ServiceOf(p) ==
  IF p # {} /\ mode = "thread" /\ ~primask
  THEN \E i \in p :
         /\ pend' = p \ {i}
         /\ pc' = Handler /\ mode' = "handler" /\ saved' = pc
  ELSE pend' = p /\ UNCHANGED <<pc, mode, saved>>

(* Mutant of EndChunk: the timers are not ticked to the end of the chunk.   *)
EndChunkUnsynced ==
  /\ phase = "ran"
  /\ sleeping' = (lastStop = "Sleep")
  /\ ServiceOf(pend)
  /\ lastCycles' = runExecuted
  /\ phase' = "after"
  /\ UNCHANGED <<prog, primask, cnt, chunkTicked, runLimit, runExecuted, lastStop, stopPc,
                 firstInsn, op, left, idle, forceResume, bps, range, resumePc>>

(* Mutant of EndChunk: service() is left to the sleeping branch.            *)
EndChunkNoService ==
  LET rest == runExecuted - chunkTicked IN
  /\ phase = "ran"
  /\ sleeping' = (lastStop = "Sleep")
  /\ cnt' = CountAfter(cnt, rest)
  /\ pend' = PendAfter(pend, cnt, rest)
  /\ chunkTicked' = runExecuted
  /\ lastCycles' = runExecuted
  /\ phase' = "after"
  /\ UNCHANGED <<prog, pc, mode, saved, primask, runLimit, runExecuted, lastStop, stopPc,
                 firstInsn, op, left, idle, forceResume, bps, range, resumePc>>

(* The core is asleep before the last tick, which may pend the interrupt    *)
(* that service() then enters.                                              *)
EndChunk ==
  LET rest == runExecuted - chunkTicked IN
  /\ phase = "ran"
  /\ sleeping' = (lastStop = "Sleep")
  /\ cnt' = CountAfter(cnt, rest)
  /\ ServiceOf(PendAfter(pend, cnt, rest))
  /\ chunkTicked' = runExecuted
  /\ lastCycles' = runExecuted
  /\ phase' = "after"
  /\ UNCHANGED <<prog, primask, runLimit, runExecuted, lastStop, stopPc, firstInsn, op, left,
                 idle, forceResume, bps, range, resumePc>>

(* runChunk while asleep: the clock jumps, the core itself does not run.    *)
SleepTick ==
  LET n   == MaxOf(1, MinOf(MinOf(left, Chunk), cyclesToNextEvent))
      gap == IF pendingFlag THEN 0 ELSE n
  IN
  /\ phase = "chunk" /\ sleeping
  /\ lastCycles' = gap
  /\ cnt' = CountAfter(cnt, gap)
  /\ pend' = PendAfter(pend, cnt, gap)
  /\ phase' = "slept"
  /\ UNCHANGED <<prog, pc, mode, saved, primask, sleeping, engine, op, left, idle,
                 forceResume, bps, range, resumePc>>

(* Mutant of SleepEnd: only an interrupt that can be taken ends the sleep.  *)
SleepEndUnmasked ==
  /\ phase = "slept"
  /\ sleeping' = ~wouldPreempt
  /\ ServiceOf(pend)
  /\ phase' = "after"
  /\ UNCHANGED <<prog, primask, cnt, engine, op, left, idle, lastCycles, forceResume, bps,
                 range, resumePc>>

SleepEnd ==
  /\ phase = "slept"
  /\ sleeping' = ~pendingFlag
  /\ ServiceOf(pend)
  /\ phase' = "after"
  /\ UNCHANGED <<prog, primask, cnt, engine, op, left, idle, lastCycles, forceResume, bps,
                 range, resumePc>>

(* The result of the chunk.  A chunk asleep reports Quantum, and the last   *)
(* run before it stopped with Sleep.                                        *)
UserStop == lastStop \in {"Breakpoint", "StepDone"}

AfterStep ==
  /\ phase = "after" /\ op = "step"
  /\ Halt
  /\ UNCHANGED <<core, engine, op, left, idle, lastCycles, forceResume, bps, resumePc>>

AfterUserStop ==
  /\ phase = "after" /\ op = "run" /\ UserStop
  /\ Halt
  /\ UNCHANGED <<core, engine, op, left, idle, lastCycles, forceResume, bps, resumePc>>

(* Mutant of NextChunk: an empty chunk still counts against the quantum     *)
(* and idle is never reset.                                                 *)
NextChunkIdleKept ==
  /\ phase = "after" /\ op = "run" /\ ~UserStop
  /\ idle' = IF lastCycles = 0 THEN idle + 1 ELSE idle
  /\ left' = left - MinOf(left, lastCycles)
  /\ phase' = IF left' = 0 \/ idle' > 4 THEN "tick" ELSE "chunk"
  /\ UNCHANGED <<core, engine, op, lastCycles, forceResume, bps, range, resumePc>>

NextChunk ==
  /\ phase = "after" /\ op = "run" /\ ~UserStop
  /\ idle' = IF lastCycles = 0 THEN idle + 1 ELSE 0
  /\ left' = left - MinOf(left, lastCycles)
  /\ phase' = IF left' = 0 \/ idle' > 4 THEN "tick" ELSE "chunk"
  /\ UNCHANGED <<core, engine, op, lastCycles, forceResume, bps, range, resumePc>>

Work ==
  \/ StartQuantum \/ BeginRun \/ StopEarly \/ StopForUser \/ FallAsleep \/ Execute
  \/ EndChunk \/ SleepTick \/ SleepEnd \/ AfterStep \/ AfterUserStop \/ NextChunk

User == StartRun \/ Step \/ Pause \/ Press \/ SetBreakpoints

Next == Work \/ User

Spec == Init /\ [][Next]_vars

(* The worker's event loop runs the pending tick; nothing is assumed of the *)
(* user.                                                                    *)
FairSpec == Spec /\ WF_vars(Work)

-----------------------------------------------------------------------------
(* Properties.                                                              *)

(* Cycles executed in the chunk that the timers have not seen yet.          *)
Lag == runExecuted - chunkTicked

InUserStop == op = "run" /\ UserStop /\ phase \in {"ran", "after"} /\ ~sleeping

StepTaken ==
  \/ phase \in {"run", "ran"} /\ runExecuted > 0
  \/ phase = "slept" /\ lastCycles > 0
  \/ phase = "after"

DebugState ==
  CASE phase = "stopped" \/ InUserStop -> "stopped"
    [] op = "run" /\ phase # "stopped" /\ ~InUserStop -> "run"
    [] op = "step" /\ phase # "stopped" -> IF StepTaken THEN "stepped" ELSE "step"

Ref == INSTANCE RefCpu WITH
  cnt      <- CountAfter(cnt, Lag),
  pend     <- PendAfter(pend, cnt, Lag),
  sleeping <- sleeping \/ (phase = "ran" /\ lastStop = "Sleep"),
  dbg      <- DebugState,
  range    <- IF DebugState = "stopped" THEN {} ELSE range,
  exempt   <- forceResume \/ (phase \in {"run", "ran"} /\ firstInsn /\ runExecuted = 0)

(* Chunks, late ticks, idle skips and quanta are invisible: every behaviour *)
(* of the run loop is one of the core that takes one instruction and one    *)
(* timer cycle at a time, takes an interrupt before the next instruction    *)
(* and never passes a breakpoint it was not resumed at.                     *)
Implements == Ref!Spec

(* A run never spins: the loop's safety net against chunks without progress *)
(* (++idle > 4) is never needed, at most one empty chunk follows another.   *)
NeverSpins == idle <= 1

(* If the machine is not stopped for good, an unmasked pending interrupt is *)
(* taken and every handler returns.                                         *)
KeepsRunning == <>[](phase # "stopped")

IrqTaken == KeepsRunning => (pend # {} /\ ~primask ~> mode = "handler" \/ primask)

HandlerReturns == KeepsRunning => (mode = "handler" ~> mode = "thread")

(* An interrupt that is taken wakes the core: no handler starts asleep.     *)
AwakeInHandler == [][mode = "thread" /\ mode' = "handler" => ~sleeping']_vars

(* An instruction at a breakpoint executes only as the first one of the     *)
(* resume that was asked for at that instruction.                           *)
ExecuteStep == (FallAsleep \/ Execute) => pc \notin bps \/ pc = resumePc

BreakpointsHit == [][ExecuteStep]_vars
=============================================================================
