# A verification of mk_emul

mk_emul emulates an STM32F407 board (Cortex-M4 core, NVIC, timers, GPIO, USART and more) on
top of the Unicorn CPU emulator, with a Qt user interface, a gdb remote stub and a front end
for gdb.  This directory holds TLA+ modules for its own code under `src/src/`, the TLC
configurations that check them, and proofs for the TLA+ proof system.  The vendored code in
`device/` (CMSIS, HAL, FreeRTOS) is firmware that runs on the emulator and not part of it: it is
modelled only where the emulator's own code depends on it (the context switch of the FreeRTOS
port in `ExcFrame`, the clock functions of the HAL in `ClockTree`).  `examples/`, Unicorn, gdb and Qt are external.

`PROJECT.json` lists components, runs, findings, hazards, theorems and, in `map`, the source
lines of every definition.

## 1. The system

### Threads

| thread | what runs there |
|---|---|
| worker | `MachineWorker`, `Machine` with core, NVIC and peripherals, `GdbServer`, `GdbStub` |
| UI | `EmulatorController`, `DebugSession` with the gdb process, the view models |
| build | `ArmGccBuilder::compile` |

The threads exchange queued Qt signals only; the machine is touched by the worker alone.

### Components

| component (source) | state | operations | what makes it correct |
|---|---|---|---|
| `Nvic` (core) | pending, enabled, active bits, priorities, `pendingEnabled_`, `currentException_`, reset request | `setPending`, `service`, `enterException`, `exitException`, `raiseFault`, `raiseSvc`, register writes, `reset` | the polled flag is exact; handlers nest by urgency; masks hold; controller and CPU agree on the current exception |
| `CpuEngine` (core) | run limit and count, breakpoints, step range, last stop, `forceResume_` | `run` with the hook before every instruction, `resumeHere`, `limitRun` | stops exactly at the limit, at an interrupt, at a breakpoint, each once |
| `Machine` (core) | `sleeping_`, `inChunk_`, `chunkTicked_`, the peripherals | `runQuantum`, `runChunk`, `step`, `syncTimers`, `cyclesToNextEvent`, `resetMcu`, loading | cutting time into chunks cannot be seen by firmware; WFI sleeps until an interrupt; reset is complete |
| `SysTickTimer`, `Timer` (periph) | registers, count, fraction | `tick`, `cyclesUntilInterrupt`, register access | counting does not depend on the size of ticks; the forecast is exact |
| `Exti`, `Syscfg`, `Gpio`, `Usart`, `Adc`, `Spi`, `I2c` (periph) | registers, queues, pin levels | edges, bytes, register access | an event pends its line once; acknowledging is final |
| `Rcc`, `ClockConfig` | clock registers | register writes, solving a configuration | registers and configuration agree |
| `MmioBus` | regions | word, partial and bit-band access | a partial write has no side effect on other bytes |
| `MachineWorker` (ui/bridge) | `running_`, `runGen_`, pacer | `startRun`, `pause`, `step`, `tick`, load, breakpoints | one tick chain; every stop is reported once to UI and gdb |
| `GdbStub`, `GdbServer` | packet parser, `running_`, client | packets, resume, stop reply | one reply per resume; client changes are safe |
| `DebugSession` (debug) | gdb process, pending commands, breakpoints, variable objects | start, stop, run control, breakpoints, views | what the user sees is what gdb and the machine have |
| `ProjectModel` (ui/bridge) | text and dirty flag of each file, save timer, `writing_` | typing, saving, `reloadFromDisk` | what the user typed is neither lost nor overwritten |
| `ArmGccBuilder` | library cache with stamps | `compile` | no stale objects after a failed build |
| `RealTimePacer` | anchor times | `advance`, `chunkInstructions` | bounded lag, no catch-up storms |

How they interact.  The worker's tick calls `Machine::runQuantum`, which cuts the quantum into
chunks; each chunk is one `CpuEngine::run`.  Firmware reaches peripherals through `MmioBus`,
whose access hooks bring the timers up to date (`syncTimers`) and shorten the chunk
(`limitRun`).  Peripherals set pending bits in `Nvic`; the CPU's hook polls `pendingEnabled_`
and stops the run; `Nvic::service`, called at the end of a chunk, enters the handler.  The
return comes back through Unicorn's interrupt hook.  gdb and the UI stop, step and resume the
worker between quanta.

What is hard here: state cached for speed (the pending flag, late timers, `forceResume_`,
`sleeping_`), exact cycle counts, nesting and masking, resets in the middle of things, and on
the debugging side races of user, gdb, machine and timeouts.  `hazards` in `PROJECT.json`
lists each place with the properties about it.

## 2. Modules

| module | models | 
|---|---|
| `Nvic` | the exception controller (`core/Nvic.cpp`), the reset of `core/Machine.cpp`, the CPU's masks and IPSR |
| `NvicProofs` | its inductive invariant and theorems |
| `ToyCore` | a seven-instruction core with one timer: just what the run loop reacts to |
| `RefCpu` | abstract: one instruction and one timer cycle at a time |
| `RunLoop` | `CpuEngine::run`, `Machine::runChunk`, `step`, `runQuantum`, the worker's run, step, pause; refines `RefCpu` |
| `RunLoopProofs` | that refinement for any program and sizes, with the loop's inductive invariant |
| `Timers` | SysTick and a TIM, ticked by the machine, with the forecast of the next event |
| `Contexts` | abstract: interrupted code and parked tasks resume exactly as they were |
| `ExcFrame` | exception entry and return in full, with Unicorn's banked stack pointer and an RTOS on top; refines `Contexts` |
| `ExcFrameProofs` | the inductive invariant of `ExcFrame`, its refinement of `Contexts`, and the other properties of its run |
| `Worker` | `MachineWorker`, `GdbStub`, `GdbServer` and the UI's run state, with gdbs that come and go |
| `WorkerProofs` | lemmas about the worker's functions and queues; theorems about the chain of ticks, gdb's answers and the UI's copy of the run state |
| `DebugSession` | `DebugSession` with a gdb process that may hang or die, and which breakpoints the machine has |
| `DebugSessionProofs` | invariants along its two pipes and the theorems about what the UI shows |
| `MmioBus` | what a register's `write32` gets from a word, byte or bit-band access |
| `GpioExti` | a GPIO port, EXTI, SYSCFG and their pending bits; uses `MmioBus` |
| `Usart` | a USART's receiver, flags and interrupt line; uses `MmioBus` |
| `PeripheralProofs` | inductive invariants and theorems of `Timers`, `GpioExti` and `Usart` |
| `Pacer` | `RealTimePacer` and the sleep between two ticks |
| `LibCache` | the library objects of `ArmGccBuilder` and their stamp |
| `ClockTree` | `ClockConfig`, the code it generates, and the RCC that this code writes |
| `ClockTreeProofs` | the generated programs annotated with what holds before each of their steps; their theorems |
| `ProjectFiles` | a file of the project in the editor and on disk |
| `HostProofs` | inductive invariants and theorems of `Pacer`, `LibCache` and `ProjectFiles` |
| `MCNvic`, `MCRunLoop`, `MCTimers`, `MCExcFrame` | the constants of the TLC instances |
| `MCParts` | one instance for components that do not share state: the initial state chooses one; it extends the timers and the six modules whose `Init`, `Next` and `TypeOK` have a prefix (`GpioExti`, `Usart`, `LibCache`, `Pacer`, `ClockTree`, `ProjectFiles`), and checks the assumptions of the theorems on its constants |

**Nvic.**  `pend` stands for `ispr_`, `nmiPending_`, `pendsvPending_` and `systickPending_`;
`prio` for `ipr_` and `shpr_`; exceptions have the architecture's numbers.  One action per
operation: `SetPending` (peripherals), `WriteIcsr`, `WriteIser` .. `WriteShcsr` (firmware),
`WriteMasks` (MSR), `RaiseFault`, `RaiseOther`, `RaiseSvc`, `Service`, `Return`, `ResetMcu`.
Firmware executes only while the per-instruction hook lets it (`Executes`), so interrupts
are entered before the next instruction, as in the code.  Two assumptions about firmware are
guards: it does not change the priority of an active exception, and changes PRIGROUP only in
thread mode.  The code needs both, because `executionPriority()` looks at the current exception
only.  Frames hold the stacked IPSR; the rest of the frame is in `ExcFrame`.

**ExcFrame.**  `cpu` is Unicorn's register file with its own view of the stack pointers: the active
one in `sp`, the other aside.  `SetXpsr`, `SetControl`, `SetMsp` and `SetPsp` are one register
write each with Unicorn's rules (external: a handler cannot set SPSEL, unprivileged code
cannot write CONTROL, MSP or PSP, a mode change swaps the stack pointers); `Entered` and
`Returned` are the writes of `enterException` and `exitException` in their order.  `mem` maps
the base address of each frame or pushed word to its content; a store destroys what it overlaps.
Firmware computes, uses the FPU, pushes one word (which makes the stack pointer unaligned to
8 bytes), gives up or regains privilege, and runs the FreeRTOS port: `PrepareStart` and
`SwitchIn` start the first task, `SwitchOut` and `SwitchIn` are the two halves of PendSV between
which other interrupts may come.  R4-R11 and S16-S31 are the port's matter and left out;
FPCCR keeps its reset value; FPDSCR is written by any privileged code, handlers too (`WriteFpdscr`).
`saved`, `parked` and `fresh` are history variables: what was interrupted or parked, to be compared with what
resumes, and for a handler that has not used the FPU what FPDSCR was at its entry.

**RunLoop.**  `phase` is where the worker stands in its call tree.  `StartQuantum`, `BeginRun`,
the hook (`StopEarly`, `StopForUser`, `FallAsleep`, `Execute`, in the hook's order of checks),
`EndChunk`, `SleepTick`, `SleepEnd`, `NextChunk` are the code's steps; `StartRun`, `Step`,
`Pause`, `Press` (the USER button) and `SetBreakpoints` are queued calls that the worker takes
between quanta.  Programs are all short loops of the toy instructions, with one handler; the
model checks every program at once.

The refinement mapping gives `RefCpu` the state it would have if time were never late: the
timer with the cycles of the chunk already counted (`Lag`), asleep from the WFI on, and a
debugger view (`DebugState`) in which a breakpoint stop happens in the hook, so that nothing,
not even an interrupt entry, may follow it.

**Timers.**  `StTick` and `TimTick` are the two `tick()` functions, `StCycles` and `TimCycles` the
forecasts in integers (the code computes the TIM's in `double`, exact for these magnitudes).
Firmware may write any register at any time; the clock tree may change under a running timer.

**Worker.**  `wk` is the state of the worker's thread: `running_`, the stub's `running_`, the step
range, the client, what it has sent to gdb and to the UI, and the ticks in its event queue.
`runGen_` appears only as the difference it makes: `live` counts the ticks of the present
generation, `stale` those of earlier ones.  `SetRunning`, `Tick`, `StartRun`, `Handled` and the
other functions of the code are operators on that record, because they call each other: a
resume makes the first tick at once, which may stop and answer gdb before `feed` goes on.
The actions are the event loop (`TakePost`, `LiveTick`, `StaleTick`, `Feed`, `Disconnected`,
`Accept`, `Refuse`), the UI thread (`Ask` for Run, Pause, Step and Reset, `Load`,
`SessionLost`, `RunStateChanged`) and gdb.  What a quantum does is left to `RunLoop`: here it may
stop or not.  The three sources of events are served in any order, with one assumption, at
`TakePost`: what a gdb sent before it ended is read before the calls the UI queued after waiting
for that end.  Without it a resume of the old session could start the machine that the new
one has just loaded; that needs a worker busy for the whole time gdb takes to exit.

**DebugSession.**  Two pipes, `toGdb` and `toUi`, carry commands and records; a callback is part
of the record it waits for.  `ui` has `state_`, `connected_`, `interruptSent_` and where the rows on
display come from; `gen_` appears as the mark `old` on refreshes under way (`Outdated`).  Each
handler of the UI's event loop is an action (`ReadRunning` .. `ReadFrames`, `Timeout`,
`Finished`, `TargetReset`), and so is each request of the user (`AddBreakpoint`,
`RemoveBreakpoint`, `Resume`, `Pause`, `Reset`, `Load`).  `whenStopped`, `stop` and the slot of
`addressBreakpointsChanged` in `EmulatorController` are operators that the actions use.  gdb
executes its commands in order, refuses breakpoints while the target runs, keeps its
breakpoints in the machine (`always-inserted`), may refuse to connect, hang while connecting,
or die at any time.  One assumption, at `ConnectGdb`: gdb needs longer to start and read the ELF
than the worker to take the calls queued before.  All steps are one `continue`: each makes the
target run until it stops.

**MmioBus, GpioExti, Usart.**  A register is the set of its bits.  `Accesses` are the words, bytes
and bit-band bits that an instruction may address, and `Written` is the read-modify-write of
`MmioBus`, based on the peripheral's `partialWriteBase`.  In `GpioExti` the pins are driven from
outside (`SetExternalInput`: the USER button and the board; the bank of the instance is port A, which EXTICR selects
after a reset), by ODR and BSRR, and by a change of
MODER; the levels reach EXTI by `onGpioChange` through EXTICR, and `UpdateIrqs` sets and clears the
pending bit of every EXTI interrupt, shared by lines 5..9 and 10..15.  `due` and `soft` remember
what was raised and what firmware pended by ISPR.  In `Usart` bytes wait in `rx`; `ReadDr` is a read
by the firmware or by the memory view, which uses the same handler.

**Pacer.**  A tick runs a chunk of cycles, counts them in emulated time with the remaining
fraction, and returns how long to wait; the sleep is cut to milliseconds and the host may be late
by any of `Delays`.  Units are scaled: a second is 12, so that fractions occur with 5 cycles a second.
How far emulated time may be ahead depends on the clock of the chunk and on the fraction left over from the
clock before (`Longest`): after a change from a fast clock to a slow one the fraction can be worth several
units of time, because the code keeps it as it is.

**LibCache.**  `Begin` chooses the jobs from the stamp and the objects that exist, and removes a
stamp that is not its own; compilers run in parallel; each may fail and leave an old, a partial or
no object; the stamp is written in two steps (truncated, written), and the program may be killed
between any two.

**ClockTree.**  A step is one register write of the generated code, by registers or by the HAL,
whose `HAL_RCC_OscConfig` and `HAL_RCC_ClockConfig` are translated with their conditions.  The code
runs from whatever configuration was there, also from one it was interrupted in by a reset.
"From Emulator" is `FromRegisters`, and its result is among the configurations that may be written
next.  Frequencies are in Hz with the integer divisions of each of the three places that compute
them.

**ProjectFiles.**  Time passes in units of 50 ms, for the 200 ms of `saveTimer_` and the 100 ms for
which a save marks its path in `writing_`; the watcher reports a write within 50 ms (`Latency`).  A save may fail to open the
file, and so may a reload (then the editor keeps its text) or the reading of the project (then the file is shown empty).
Other programs write, create, replace and remove the file whenever they like.  `watched` is the
watcher's list: the path leaves it with the file and comes back when a report or a save finds a file there
(`ReloadFromDisk`, `Saved`); `openPath` puts the watch on anew, and reports under way may be lost (`Load`).  The
history variable `missed` says that the last change on disk was taken for a save or could not be read.

## 3. Runs

| run | asks | instance |
|---|---|---|
| `nvic` | nesting, masks, flag, IPSR over all sequences of operations | EXTI0, NMI, SysTick, UsageFault; two priority bytes that share a group under PRIGROUP 4; 423 424 states |
| `nvic_iabr` | is IABR the set of active interrupts? **no** | same |
| `nvic_reset` | does a reset clear the masks? **no** | same |
| `runloop` | refinement of `RefCpu`; progress | two thread instructions, two handler instructions, reload 3, chunk 3, quantum 4; 916 571 states |
| `runloop_wfi` | does an interrupt wake the core? **not on the WFI's own cycle** | smaller |
| `runloop_break` | is every breakpoint hit? **not after a resume during WFI** | smaller |
| `excframe` | does everybody get back registers, stack and FP state? | two tasks, PendSV and one more interrupt level, FPDSCR 0 after a reset and one value written, stacks of 100 words; 1 693 280 states |
| `worker` | one chain of ticks, one answer per request, nobody misinformed | three queued calls, two unseen signals, two stale ticks; 196 141 states |
| `debugsession` | do the session's state, breakpoints and stack agree with gdb and the machine? | one source and one address breakpoint, two gdb numbers, two commands and two calls waiting; 880 104 states |
| `debug_ghost` | is a removed breakpoint gone from the machine? **not always** | same |
| `parts` | seven components, each by itself (below) | 270 463 states in all |
| `timers_period` | is the SysTick period LOAD + 1? **only the first** | 2-bit counter, as in `parts` |

The parts of `parts`: the timers (`TickSplits`, `EventsExact`), pins and external interrupts (`EventsPend`,
`EdgesExact`, `AckExact`), the USART (`Reception`), the pacer (`KeepsPace`), the library cache
(`NoStaleObject`), the clock code (`ClocksRight`), an edited file (`EditsKept`).  `PartsTypeOK` is the conjunction
of their type invariants.

Why the bounds are enough.  `nvic`: with NMI, HardFault, UsageFault, SVC, SysTick and a line the
nesting reaches five levels, and two priority bytes are enough for "same group, other
subpriority"; a third line adds no new relation.  `runloop`: the interesting coincidences are
of the timer event, the end of the chunk and the end of the quantum, and with 3, 3 and 4
every offset between them occurs; WFI, a mask change, a timer write and a software pend meet
each of them in some program.  `excframe`: entry is
from thread code on MSP, on PSP and from a handler, each with either alignment, frame and
privilege; a third nested handler returns like the second.  The one FPDSCR value is written before and after the entry
of either handler, so that the value of an entry and the present one differ; that firmware also takes it
back to 0 or to another value is left to the proof (2.7 million states with 0 written as well).  `worker`: two starts and a stop between
them, or a reload between two sessions, are the longest patterns that matter in a queue that the
worker empties one by one.  `debugsession`: the bounds hold when the user acts, so that queues grow
beyond them by the answers; two numbers are enough to remove a breakpoint and add it again before
gdb has answered (with three numbers, 2 865 334 states, the invariants were checked once).
`parts`: the timers' arithmetic is checked in every reachable combination of count, top, prescaler and
fraction, for ticks up to twice 7 cycles; of the EXTI lines, 5 and 9 share an interrupt and a byte lane holds
two lines; three bytes fill the USART's queue beyond the one in DR; the pacer's lag limit is
reached and exceeded within 40 units; two files and two configurations give every mixture of old, new, partial
and missing objects; the clock configurations lie on both sides of the limits of wait states
and prescalers; two saves fit into one window of 100 ms, three are made by no sequence of keys; two texts and the empty one
tell the editor, the disk and an unreadable file apart; the top for ARR = 0 (`Period0`) is smaller than the
counter, as with the 32-bit timers.

**Fairness.**  `RunLoop!FairSpec` has weak fairness of `Work` alone: the worker's event loop
runs the tick it has scheduled and a quantum is ordinary sequential code.  Nothing is assumed of
the user, so `IrqTaken` and `HandlerReturns` speak of machines that are not stopped for good.

`Worker!FairSpec` has weak fairness of the worker's event sources, of the UI reading its signals
and of gdb reading its replies; none of `LiveTick`, which would oblige the firmware to reach a
breakpoint, and none of anybody's requests.

`DebugSession!FairSpec` has weak fairness of the UI reading its records and the end of gdb, of gdb
executing its commands and hearing of a stop.  None of `ConnectGdb` (gdb may hang there, which is
what the 15 s timer is for), of the timer, of the machine's calls, or of a breakpoint being hit.

**What the passing runs show.**  Priority, masking and nesting are right for every interleaving
of register writes, interrupts, faults and SVCs, and the polled flag is never stale.  The run loop
is indistinguishable from a core that checks for interrupts and counts the timer at
every cycle, with two exceptions that `RefCpu` names (see below); it never needs its safety net
against empty chunks.  Interrupted code and tasks always resume as they were: the order of register
writes in entry and return suits Unicorn in every mode.  A handler's first floating-point instruction finds the FPDSCR of its entry.  The timers can be ticked in any portions, and their forecast is exact
even with a fraction left over from another prescaler or clock.  The machine is driven by
one chain of ticks whoever starts and stops it; a gdb gets one answer to each request and none of
its predecessor's, believes the machine halted only when it is (but for the moment before the worker takes the
reload a session begins with), and the UI's copy of the run
state is right once everything queued has been taken.

The debug session's state is that of gdb after any order of requests, crashes and timeouts; a
breakpoint shown as set is in the machine; Pause and breakpoint changes never wait for a stop that
does not come; the stack on display is the present one, except when a reset is heard before
the stop (`ViewCurrent` names the case: `targetChanged` ignores a target that it believes running, and gdb's registers
stay those of before the reset).

Pins raise a line exactly on the selected edges, an event keeps its interrupt pending until it is
served, and a write of any width acknowledges only what it names.  Bytes are received once and in order.  Emulated
time keeps to real time through stalls and changes of speed and clock.  No failed or killed build
leaves an object that a later one wrongly takes, unless somebody deleted objects by hand.  The
generated clock code never exceeds a limit on the way, whatever clock it starts from, and ends at the
dialog's frequencies but for the rounding below.  The editor loses what was typed only to another program, with the
exception that two saves within 100 ms share one mark in `writing_`: the timer of the first clears
that of the second, and the late report of the second undoes the keys pressed since (`DiscardStep` names it).  With nothing under way the
editor shows a watched file as it is on disk, with two exceptions (`missed`): another program's change within 100 ms of a save is taken
for that save, and a reload that cannot open the file is not tried again.  A watch ends only where there is
no file (`WatchStep`); a file that another program then creates anew is not noticed, which is why `InStep` speaks of
watched files.

**Findings.**  Each violation run shows one disagreement between the code and what it says of
itself; `findings` quotes the lines.

1. IABR keeps the bit of a finished interrupt and loses that of the one returned to.
2. BASEPRI and FAULTMASK survive a reset.
3. An interrupt on the cycle of the WFI is entered with the core still asleep.
4. A resume during WFI sleep lets a later breakpoint pass (stale `forceResume_`).
5. The SysTick period is LOAD after the first LOAD + 1.
6. A breakpoint removed while a session starts, after gdb died, or removed and added again before gdb
   answered stays in the machine.
7. (No run of its own.)  A step with an interrupt pending executes no instruction.
8. (No run of its own.)  With a PLL input that M does not divide, the emulator runs a few Hz slower than
   the dialog shows; `Configured` states how much.
9. (No run of its own.)  A handler that writes FPDSCR before its first floating-point instruction finds
   the value of its entry in FPSCR, not the new one; `FpscrDefault` promises the value of the entry.

`RefCpu` allows 3, 4 and 7 explicitly (`TakeIrq`, `Wake`, `Idle`), so that `Implements` checks
all the rest.

Met while modelling, and contradicted by nothing the repository says: a breakpoint hit while an
interrupt for a breakpoint change is under way is not shown; a breakpoint toggled between Continue
and gdb's answer is sent to a running target and refused; `updateIrq()` and `updateIrqs()` clear
a pending bit that firmware set through ISPR; the memory view takes bytes from a USART; a file that cannot be
opened is shown empty when the project is opened, and keys typed then overwrite it.

## 4. Proofs

`NvicProofs` proves, for every set of lines, priorities, groupings and vector tables and for
nesting of any depth: `TypeOK`, `PendingFlagExact`, `IpsrAgrees`, `NestingStrict`, `NoReentry`,
`MasksRespected` and `NoPriorityInversion`.  The only assumption is `NvicAssumption` on the
constants.

The inductive invariant is

    IInv == TypeOK /\ IpsrAgrees /\ PendingFlagExact /\ NestingStrict

`NestingStrict` is about the whole stack, but preemption compares with the current exception
only; so the induction needs `IpsrAgrees` (the current exception is the top of the stack), that
the urgency of stacked exceptions does not change (the two assumptions about firmware), and that
every entry is strictly more urgent than the current exception: by `Preempts` for interrupts,
by the comparison in `raiseFault` and `raiseSvc`, and for escalations because HardFault is more
urgent than anything but NMI and itself, which are the lockup case.  `EnterNesting` and
`ReturnNesting` do the two stack operations; `MasksRespected` follows from the same facts about
`ExecutionPriority`.  For `NoPriorityInversion` the exact flag is not enough: something has to be
the exception that `highestPending()` finds.  `HighestExists` gets it from the least element of a
set of natural numbers (`LeastElement`, from the library's well-founded order of Nat), and
`GroupMonotone` carries the comparison over to group priorities.

`RunLoopProofs` proves, for any program, timer, quantum, chunk size, ranges and breakpoints, that
`TypeOK` and `NeverSpins` hold and that `RunLoop` implements `RefCpu`.  The invariant `LoopInv` has one part
per worry: the timers lag only inside a run, and a run ends by their next event (`TickInv`; with `OneMore`
this makes one instruction one cycle of the reference timer); who is asleep, and that no chunk leaves an
interrupt that could be taken (`SleepInv`); why a run ended, and that a resume is used up by the
instruction it was for (`StopInv`); that a step is one chunk of one instruction (`StepInv`); and what
holds after an empty chunk (`IdleInv`), from which `NeverSpins` follows: an empty chunk leaves the core awake
with nothing to take, so the next one executes.  The refinement maps `StartRun`, `Step` to
`Resume`; `FallAsleep`, `Execute` to `Exec`; `EndChunk`, `SleepEnd` to `TakeIrq`, `Wake` or nothing; `SleepTick` to
`Idle` or nothing; `StopForUser`, `Pause`, `AfterStep` to `Stop`; `Press` and `SetBreakpoints` to
themselves; and the rest to nothing.  `RefExec` and its neighbours state each
reference step in terms of the mapped state (`AbsCnt` ..); `Simulation` puts them together.
The only assumptions are `ToyCoreAssumption` and `RunLoopAssumption`.

`ExcFrameProofs` proves all five properties of the run `excframe`, for any tasks, nesting, FPDSCR values and stack size
within `ExcFrameAssumption`: that `ExcFrame` implements `Contexts`, `OnOwnStack`, `TypeOK`, `FpscrDefault`
and `PrivilegeKept`.  None of them is inductive, because what a return finds depends on what every handler in
between left on the stacks.  The invariant (`IInv`, with `Good` over the line of all code that has
started) says of interrupted code `c[i]` that its frame lies below its stack pointer with nothing
between them and that the rest of its stack is unchanged (`Framed`); that its handler `c[i + 1]` holds
the EXC_RETURN of `c[i]` in LR, or on the stack once it has called a function, and is back at the frame when it has popped it
(`Linked`); that the frames on the main stack lie in order, 28 words for each level at most (`Order`); which stack pointer
the task uses and where the other one is, with the frame of main() at the bottom of the main stack once the
scheduler runs (`Mode`); that every parked task has its frame where its control block says (`Parked`); that nothing lies below
the stack pointers, so that a store destroys nothing (`Low`); and that a handler which has not used the FPU will
find in FPSCR what FPDSCR was at its entry (`FpReady`), which no write of FPDSCR changes.

The proof has three layers.  `Regs` is the register file as firmware sees it, MSP and PSP wherever Unicorn keeps them;
one lemma per register write (`SetControlRegs`, `SetNPrivRegs` with its detour through handler mode),
then `EnteredRegs`, `ReturnedRegs` and `ResetCpuRegs` along the sequences of writes.  `StoreBelow`, `FreeLow` and their neighbours say
what a store and a pop do to the stacks.  `PushStep`, `EnterStep`, `ExitStep`, `ParkStep` and so on keep
`Good`, as facts about contexts and memory; the lemmas named after actions (`EnterExceptionStep` ..) put both together.
The assumption about stack size is about firmware: a stack has room for a frame with
floating point, its padding and a pushed word for each level, and addresses are even at its top.  The code
checks no stack limit, and below that size nothing could be promised.

`WorkerProofs` proves the six invariants of `Worker` for any bounds on the queues.  `OneChain` and `NoStaleRange`
are about `wk` alone; one lemma per function says what it returns.  `setRunning` restores both from
any state, which is why resumes, resets and pauses may follow each other in any order.  The
others are about what is under way between the two threads and between stub and gdb.  `UiInv`
says that the last signal queued is the worker's run state.  `GdbInv` balances requests and answers:
what gdb waits for is a request in the socket, an answer owed by the stub or one answer in the
queue, never two (`Balanced`).  `SessionInv` adds that while gdb waits for no stop the machine is stopped and no
queued call will start it, but for the reload of gdb's own session.

`DebugSessionProofs` proves the five invariants of `DebugSession`, for any breakpoints and any bounds.  Each
follows one fact along the pipes: what the UI believes, what the records say that it has not read, and what the
commands will do that gdb has not executed.  `SessionInv` is about the process and the
connection; `RunInv` says that the last of the records about running and stopping is the state of the target; `SentInv` that
an interrupt which was sent is a command, a stop record or a machine that has stopped; `NumberInv` that
a number names one breakpoint and is deleted only when nobody has it (`Free`); `ListInv` that a breakpoint
shown as set has its number or an insert under way; `MachineInv` that the machine has gdb's table; `ViewInv` that the display is
current or a refresh that will make it so is under way (`Fresh`).  When nothing is under way (`Quiet`), they
are the properties.  The order of the pipes is essential: each invariant says which
command or record comes after which.

`PeripheralProofs` has three parts.

*Timers.*  For any clocks, prescalers, tops and reload values within `TimersAssumption`: `TypeOK`, `TickSplits`
and `EventsExact`.  `TickSplits` and the forecast follow from `TypeOK` alone, so they hold in every state of these types, reached or not;
`PendMeansUpdate` is inductive.
What k ticks do is a recursive function in the model, as it is a loop in the code; `After` is its closed form (the counter
moves down to its first event, then runs around its reload value), and `StStepsAfter` proves that the two agree,
by induction written out with the least element of the set of counter-examples (`SetInduction`).  From
the closed form `AfterSum` and `TimStepsSum` give the sum of two portions of ticks, and the lemmas on quotients
(`QuotientSplit`) that of two portions of cycles, with the fraction between them: together `TickSplits`.  A timer pends
in n cycles if and only if n cycles make at least as many ticks as are missing (`StPendsWhen`, `TimPendsWhen`), and
`CeilDivLeast` says that the forecast is the least such n: `EventsExact`.

*Pins and external interrupts.*  `ExtiTypeOK`, `EventsPend`, `EdgesExact` and `AckExact` for any lines, pins and
byte lanes, assuming only that every pin has its line and that bytes hold lines (`Shape`).  The
invariant (`ExtiInv`) adds to `EventsPend` that a line that is due is still in PR (`DueStays`), because acknowledging one of two
lines that share an interrupt recomputes the pending bit from PR, and that `idr_` is the level of the pins
(`IdrExact`), because edges are found by comparing with the stored `idr_`.  `IdrExact` is what a reset could break,
and `ResetLevels` keeps.

*USART.*  `UsartTypeOK` and `Reception` for any bytes; `Reception` is inductive together with `UsartTypeOK`.

`HostProofs` has three parts.

*Pacer.*  `PacerTypeOK` and `KeepsPace` for any resolution, chunk, lag limit, clocks, speeds and delays within `PacerAssumption`.
The invariant `PInv` says that emulated time and fraction account for every cycle since the clock was last set
(`ExactTime`); that the worker waits for at least what it is ahead (`WaitsOut`), which is what makes the next tick
late and never early; that it is at most `MaxLag` behind (`NotLate`, restored by moving the anchor); and that what
is waited for is one chunk of some clock (`NotFarAhead`).

*Library cache.*  `CacheTypeOK` and `NoStaleObject` for any files and configurations.  The
argument of the code is an invariant over several builds: a stamp vouches for all objects that exist
(`StampTrue`), a stamp of another configuration is gone before the first job runs (`StampGone`), so
that overwriting an object never makes a stamp false; files that have no job any more are good
(`Settled`); and a job under a valid stamp is only for a deleted object (`OnlyDeleted`).  The assumption
`Distinct` says that configurations are not the words the model uses for missing and partial files.

*Files of the project.*  `FilesTypeOK` and `EditsKept` for any texts, delays and number of saves.  `DiscardStep`
speaks of one step; why it holds is `Covered`: while a save's report is under way, the single shot of
that save or of a later one is too, with at least the report's remaining time and the difference of `Window` and `Latency`
left.  So a report of a save that is not ignored means another single shot removed the path.  This rests on `FilesAssumption`: the
watcher's report comes before the 100 ms of `writing_` are over.  The code makes the same assumption and cannot enforce it; with a
slower watcher the property is false.  `Different` and `WillSave` make `InStep` inductive: a watched file that
differs from the editor has a report of another program under way, or its report was ignored or in vain.  `WatchStep`
follows from `Watching`: reports come only while the path is watched, and only other programs replace a file.

`ClockTreeProofs` proves `ClockTypeOK` and `ClocksRight` for every set of configurations that the dialog can express
(`Configurations`: any source and factors, of which `Ok` admits those that `compute()` accepts), written in
any sequence and with resets in between.  `CInv` annotates the program: one assertion for each step that
may be next (`AtRunHsi` .. `AtHalCore`) says which of the sources run, which factors and prescalers are already the target's, and what is
still to do; `StepRunHsi` and its neighbours take one assertion to the next.  The limits
hold on the way because a step before the switch leaves SYSCLK alone and the prescalers as they are or at their slowest
(`StaysWithin`), or runs from HSI or HSE, which no prescaler makes too fast (`SlowWithin`); because from the switch on
the prescalers are the target's or the slowest (`FastWithin`); and because the wait states are raised to those of the target
before the switch and lowered after it.  `Reached` compares the frequencies at the end in the two orders of multiplying and dividing:
`Loss` bounds what the integer divisions lose by n / p + 1 Hz, and shows that nothing is lost where M divides.

Only model-checked: all liveness (`IrqTaken`, `HandlerReturns`, `InterruptEnds`, `InterruptAnswered`), because the
prover has no rule for fairness; and `PartsTypeOK`, which is the conjunction over the parts of `MCParts` of type invariants
that are proved one by one.  The properties of the violation runs are false and need no theorem.

## 5. Not modelled, and the plan

Not modelled, because there is no behaviour over time to check: the QML views, the read-only item
models and the highlighter, the disassembler, firmware file parsing, gdb/MI text parsing; ADC, SPI, I2C and the
stub registers, whose flags follow each access at once; the peripheral enables and resets of the RCC,
which are data.  Unicorn's instruction semantics and the vendored HAL, CMSIS and FreeRTOS are other
people's programs.

Modelled in part, and left out of the modules named above: variables, watches and the memory and
disassembly views of the debugger (a refresh stands for all of them); fault status registers, FPCCR
and FPCAR; snapshots to the UI; adding, renaming and removing project files, and closing the application
within 200 ms of the last key; the replacement of text by the clock dialog; the HAL's code from a PLL in use to
another source, which the HAL itself refuses or handles outside the generated function.

Every safety property of the passing runs is a theorem; `PartsTypeOK` is one part by part.
