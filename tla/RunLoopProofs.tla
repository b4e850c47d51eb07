--------------------------- MODULE RunLoopProofs ---------------------------
(***************************************************************************)
(* Proofs about RunLoop, for any program, timer, quantum, chunk size and    *)
(* breakpoints: the loop of chunks, late ticks and idle skips implements    *)
(* the core that takes one instruction and one timer cycle at a time, and   *)
(* it never spins.                                                          *)
(***************************************************************************)
EXTENDS RunLoop, TLAPS

USE ToyCoreAssumption, RunLoopAssumption

-----------------------------------------------------------------------------
(* The toy core *)

LEMMA Remainder == \A x \in Nat, y \in Nat \ {0} : x % y \in 0 .. y - 1
OBVIOUS

LEMMA NoRemainder == \A y \in Nat \ {0} : 0 % y = 0
OBVIOUS

\* The timer up to its next event.
LEMMA CountFacts ==
    ASSUME NEW c \in Nat, NEW n \in Nat, c > 0 => n <= c
    PROVE  /\ CountAfter(c, n) = IF c = 0 THEN 0 ELSE IF n < c THEN c - n ELSE Reload
           /\ CountAfter(c, n) \in Nat
           /\ Expires(c, n) <=> c > 0 /\ n = c
<1>1. Expires(c, n) <=> c > 0 /\ n = c
  BY DEF Expires
<1>2. CASE c > 0 /\ n = c /\ Reload # 0
  <2>1. CountAfter(c, n) = Reload - ((n - c) % Reload)
    BY <1>1, <1>2 DEF CountAfter
  <2>2. n - c = 0 /\ 0 % Reload = 0
    BY <1>2, NoRemainder
  <2> QED BY <1>1, <1>2, <2>1, <2>2
<1>3. CASE ~ (c > 0 /\ n = c /\ Reload # 0)
  BY <1>1, <1>3 DEF CountAfter
<1> QED BY <1>1, <1>2, <1>3

LEMMA CountType == \A c, n \in Nat : CountAfter(c, n) \in Nat
<1> SUFFICES ASSUME NEW c \in Nat, NEW n \in Nat PROVE CountAfter(c, n) \in Nat
  OBVIOUS
<1>1. CASE Expires(c, n) /\ Reload # 0
  <2>1. CountAfter(c, n) = Reload - ((n - c) % Reload)
    BY <1>1 DEF CountAfter
  <2>2. n - c \in Nat
    BY <1>1 DEF Expires
  <2>3. (n - c) % Reload \in 0 .. Reload - 1
    BY <1>1, <2>2, Remainder
  <2> QED BY <2>1, <2>3
<1>2. CASE ~ (Expires(c, n) /\ Reload # 0)
  BY <1>2 DEF CountAfter, Expires
<1> QED BY <1>1, <1>2

LEMMA PendFacts ==
    ASSUME NEW p, NEW c \in Nat, NEW n \in Nat, c > 0 => n <= c
    PROVE  PendAfter(p, c, n) = IF c > 0 /\ n = c THEN p \cup {Timer} ELSE p
BY CountFacts DEF PendAfter

\* One cycle more, before the event.
LEMMA OneMore ==
    ASSUME NEW p, NEW c \in Nat, NEW n \in Nat, c > 0 => n < c
    PROVE  /\ CountAfter(CountAfter(c, n), 1) = CountAfter(c, n + 1)
           /\ PendAfter(PendAfter(p, c, n), CountAfter(c, n), 1) = PendAfter(p, c, n + 1)
           /\ PendAfter(p, c, n) = p
<1>0. /\ c > 0 => n <= c
      /\ n + 1 \in Nat /\ (c > 0 => n + 1 <= c)
  OBVIOUS
<1>1. /\ CountAfter(c, n) = IF c = 0 THEN 0 ELSE c - n
      /\ PendAfter(p, c, n) = p
  <2>1. /\ CountAfter(c, n) = IF c = 0 THEN 0 ELSE IF n < c THEN c - n ELSE Reload
        /\ PendAfter(p, c, n) = IF c > 0 /\ n = c THEN p \cup {Timer} ELSE p
    BY <1>0, CountFacts, PendFacts
  <2> QED BY <2>1
<1>2. CountAfter(c, n) \in Nat /\ (CountAfter(c, n) > 0 => 1 <= CountAfter(c, n))
  BY <1>1
<1>3. /\ CountAfter(CountAfter(c, n), 1) =
            IF CountAfter(c, n) = 0 THEN 0 ELSE IF 1 < CountAfter(c, n) THEN CountAfter(c, n) - 1 ELSE Reload
      /\ PendAfter(p, CountAfter(c, n), 1) =
            IF CountAfter(c, n) > 0 /\ 1 = CountAfter(c, n) THEN p \cup {Timer} ELSE p
  BY <1>2, CountFacts, PendFacts
<1>4. /\ CountAfter(c, n + 1) = IF c = 0 THEN 0 ELSE IF n + 1 < c THEN c - (n + 1) ELSE Reload
      /\ PendAfter(p, c, n + 1) = IF c > 0 /\ n + 1 = c THEN p \cup {Timer} ELSE p
  BY <1>0, CountFacts, PendFacts
<1> QED BY <1>1, <1>3, <1>4

LEMMA NoTime ==
    ASSUME NEW p, NEW c \in Nat
    PROVE  CountAfter(c, 0) = c /\ PendAfter(p, c, 0) = p
BY CountFacts, PendFacts

LEMMA SequelType ==
    ASSUME NEW a \in Addresses, a # Size + 1
    PROVE  Sequel(a) \in Addresses
<1>1. CASE a < Size
  <2>1. (a + 1) % Size \in 0 .. Size - 1
    BY Remainder DEF Addresses
  <2> QED BY <1>1, <2>1 DEF Sequel, Addresses
<1>2. CASE ~ (a < Size)
  BY <1>2 DEF Sequel, Addresses
<1> QED BY <1>1, <1>2

LEMMA ProgramFacts ==
    ASSUME NEW p \in Programs, NEW a \in Addresses
    PROVE  /\ p[a] \in Kinds \cup {"ret"}
           /\ p[a] # "ret" => a # Size + 1
BY DEF Programs, Handler, Addresses

LEMMA MinMax ==
    \A a, b \in Int : /\ MinOf(a, b) \in {a, b} /\ MinOf(a, b) <= a /\ MinOf(a, b) <= b
                      /\ MaxOf(a, b) \in {a, b} /\ MaxOf(a, b) >= a /\ MaxOf(a, b) >= b
BY DEF MinOf, MaxOf

-----------------------------------------------------------------------------
(* Types *)

LEMMA Initial == Init => TypeOK
<1> SUFFICES ASSUME Init PROVE TypeOK
  OBVIOUS
<1>0. 0 \in Addresses
  BY DEF Addresses
<1>1. MachineOK
  BY <1>0 DEF Init, MachineOK
<1>2. ControlOK
  BY <1>0 DEF Init, ControlOK
<1>3. CountsOK
  BY DEF Init, CountsOK
<1> QED BY <1>1, <1>2, <1>3 DEF TypeOK

LEMMA ServiceType ==
    ASSUME MachineOK, NEW p \in SUBSET {Timer, Button}, ServiceOf(p)
    PROVE  /\ pend' \subseteq {Timer, Button} /\ pc' \in Addresses /\ saved' \in Addresses
           /\ mode' \in {"thread", "handler"}
<1>1. Handler \in Addresses
  BY DEF Handler, Addresses
<1> QED BY <1>1 DEF ServiceOf, MachineOK

\* The next chunk ends at the next event, or earlier, and is never empty.
LEMMA ChunkFacts ==
    ASSUME CountsOK
    PROVE  LET n == MaxOf(1, MinOf(MinOf(left, Chunk), cyclesToNextEvent))
           IN n \in 1 .. Chunk /\ (cnt > 0 => n <= cnt) /\ (left = 1 => n = 1)
<1> DEFINE e == cyclesToNextEvent
           m == MinOf(MinOf(left, Chunk), e)
<1>1. e \in Nat \ {0} /\ (cnt > 0 => e = cnt) /\ left \in Nat
  BY DEF CountsOK, cyclesToNextEvent
<1> HIDE DEF e
<1>2. m \in Nat /\ m <= Chunk /\ m <= e /\ m <= left
  BY <1>1 DEF MinOf
<1> HIDE DEF m
<1>3. /\ MaxOf(1, m) \in 1 .. Chunk /\ (cnt > 0 => MaxOf(1, m) <= cnt)
      /\ (left = 1 => MaxOf(1, m) = 1)
  BY <1>1, <1>2 DEF MaxOf, CountsOK
<1> QED BY <1>3 DEF m, e

\* What a register access does to the counts.
LEMMA AccessFacts ==
    ASSUME CountsOK, NEW k, AccessEffects(k), runExecuted < runLimit
    PROVE  /\ cnt' \in Nat /\ chunkTicked' = runExecuted + 1
           /\ runLimit' \in 0 .. runLimit /\ runExecuted + 1 <= runLimit'
           /\ cnt' > 0 => runLimit' - chunkTicked' <= cnt'
<1>1. /\ runLimit \in Nat /\ runExecuted \in Nat /\ chunkTicked \in Nat
      /\ cnt \in Nat /\ runLimit <= Chunk /\ chunkTicked <= runExecuted
  BY DEF CountsOK
<1> DEFINE done == runExecuted + 1
           lag  == done - chunkTicked
<1>2. done \in Nat /\ lag \in Nat
  BY <1>1
<1>3. /\ runLimit' = MinOf(runLimit, done + (IF cnt' = 0 THEN Chunk ELSE cnt'))
      /\ chunkTicked' = done
      /\ cnt' = IF k = "arm" THEN Short ELSE CountAfter(cnt, lag)
  BY DEF AccessEffects
<1> HIDE DEF lag
<1>4. CountAfter(cnt, lag) \in Nat
  BY <1>1, <1>2, CountType
<1>5. cnt' \in Nat
  BY <1>3, <1>4
<1> DEFINE l == done + (IF cnt' = 0 THEN Chunk ELSE cnt')
<1>6. l \in Nat /\ done <= l /\ (cnt' > 0 => l = done + cnt')
  BY <1>2, <1>5
<1>7. runLimit' = MinOf(runLimit, l)
  BY <1>3
<1> HIDE DEF l
<1>8. runLimit' \in 0 .. runLimit /\ done <= runLimit' /\ runLimit' <= l
  BY <1>1, <1>6, <1>7 DEF MinOf
<1> QED BY <1>1, <1>2, <1>3, <1>5, <1>6, <1>8

LEMMA MachineStep ==
    ASSUME TypeOK, [Next]_vars
    PROVE  MachineOK'
<1> USE DEF MachineOK
<1>0. MachineOK
  BY DEF TypeOK
<1>1. CASE StartRun \/ Step \/ StartQuantum \/ Pause \/ SetBreakpoints \/ BeginRun \/ StopEarly
           \/ StopForUser \/ AfterStep \/ AfterUserStop \/ NextChunk \/ UNCHANGED vars
  BY <1>0, <1>1 DEF StartRun, Step, StartQuantum, Pause, SetBreakpoints, BeginRun, StopEarly, StopForUser,
       AfterStep, AfterUserStop, NextChunk, core, vars
<1>2. CASE Press
  BY <1>0, <1>2 DEF Press
<1>3. CASE FallAsleep
  <2>1. prog[pc] # "ret"
    BY <1>3 DEF FallAsleep, FallsAsleep
  <2>2. Sequel(pc) \in Addresses
    BY <1>0, <2>1, ProgramFacts, SequelType
  <2> QED BY <1>0, <1>3, <2>2 DEF FallAsleep
<1>4. CASE Execute
  <2>1. pc' \in Addresses
    <3>1. CASE prog[pc] = "ret"
      BY <1>0, <1>4, <3>1 DEF Execute
    <3>2. CASE prog[pc] # "ret"
      <4>1. Sequel(pc) \in Addresses
        BY <1>0, <3>2, ProgramFacts, SequelType
      <4> QED BY <1>4, <3>2, <4>1 DEF Execute
    <3> QED BY <3>1, <3>2
  <2>2. mode' \in {"thread", "handler"} /\ primask' \in BOOLEAN
    BY <1>0, <1>4 DEF Execute
  <2>3. pend' \subseteq {Timer, Button}
    BY <1>0, <1>4 DEF Execute, AccessEffects, PendAfter
  <2> QED BY <1>0, <1>4, <2>1, <2>2, <2>3 DEF Execute
<1>5. CASE EndChunk
  <2> DEFINE rest == runExecuted - chunkTicked
             p == PendAfter(pend, cnt, rest)
  <2>1. p \subseteq {Timer, Button}
    BY <1>0 DEF PendAfter
  <2>2. ServiceOf(p) /\ prog' = prog /\ primask' = primask /\ sleeping' \in BOOLEAN
    BY <1>5 DEF EndChunk
  <2> HIDE DEF p
  <2> QED BY <1>0, <2>1, <2>2, ServiceType
<1>6. CASE SleepTick
  <2>1. /\ pend' \subseteq {Timer, Button}
        /\ UNCHANGED <<prog, pc, mode, saved, primask, sleeping>>
    BY <1>0, <1>6 DEF SleepTick, PendAfter
  <2> QED BY <1>0, <2>1
<1>7. CASE SleepEnd
  <2>1. ServiceOf(pend) /\ prog' = prog /\ primask' = primask /\ sleeping' \in BOOLEAN
    BY <1>7 DEF SleepEnd, pendingFlag
  <2> QED BY <1>0, <2>1, ServiceType
<1> QED BY <1>1, <1>2, <1>3, <1>4, <1>5, <1>6, <1>7 DEF Next, Work, User

LEMMA ControlStep ==
    ASSUME TypeOK, [Next]_vars
    PROVE  ControlOK'
<1> USE DEF ControlOK
<1>0. ControlOK /\ pc \in Addresses
  BY DEF TypeOK, MachineOK
<1>1. CASE StartRun
  BY <1>0, <1>1 DEF StartRun, core, engine
<1>2. CASE Step
  BY <1>0, <1>2 DEF Step, core, engine
<1>3. CASE StartQuantum \/ Pause \/ AfterStep \/ AfterUserStop \/ NextChunk
  BY <1>0, <1>3 DEF StartQuantum, Pause, Halt, AfterStep, AfterUserStop, NextChunk, core, engine
<1>4. CASE Press \/ SetBreakpoints
  BY <1>0, <1>4 DEF Press, SetBreakpoints, core, engine
<1>5. CASE BeginRun
  BY <1>0, <1>5 DEF BeginRun, FirstInsn, core
<1>6. CASE StopEarly
  BY <1>0, <1>6 DEF StopEarly, engine
<1>7. CASE StopForUser
  BY <1>0, <1>7 DEF StopForUser
<1>8. CASE FallAsleep
  BY <1>0, <1>8 DEF FallAsleep
<1>9. CASE Execute
  BY <1>0, <1>9 DEF Execute
<1>10. CASE EndChunk
  BY <1>0, <1>10 DEF EndChunk
<1>11. CASE SleepTick
  BY <1>0, <1>11 DEF SleepTick, engine
<1>12. CASE SleepEnd
  BY <1>0, <1>12 DEF SleepEnd, engine
<1>13. CASE UNCHANGED vars
  BY <1>0, <1>13 DEF vars, engine
<1> QED BY <1>1, <1>2, <1>3, <1>4, <1>5, <1>6, <1>7, <1>8, <1>9, <1>10, <1>11, <1>12, <1>13
     DEF Next, Work, User

LEMMA CountsStep ==
    ASSUME TypeOK, [Next]_vars
    PROVE  CountsOK'
<1>0. CountsOK
  BY DEF TypeOK
<1>a. /\ cnt \in Nat /\ left \in Nat /\ left <= Quantum /\ idle \in Nat /\ runLimit \in Nat
      /\ runLimit <= Chunk /\ runExecuted \in Nat /\ runExecuted <= runLimit /\ chunkTicked \in Nat
      /\ chunkTicked <= runExecuted /\ lastCycles \in Nat /\ lastCycles <= Chunk
  BY <1>0 DEF CountsOK
<1>1. CASE StartRun \/ Pause \/ Press \/ SetBreakpoints \/ StopEarly \/ StopForUser \/ SleepEnd
           \/ AfterStep \/ AfterUserStop \/ UNCHANGED vars
  <2>1. UNCHANGED <<cnt, left, idle, runLimit, runExecuted, chunkTicked, lastCycles>>
    BY <1>1 DEF StartRun, Pause, Press, SetBreakpoints, StopEarly, StopForUser, SleepEnd, AfterStep,
         AfterUserStop, core, engine, vars
  <2> QED BY <1>0, <2>1 DEF CountsOK
<1>2. CASE Step \/ StartQuantum
  <2>1. /\ left' \in 0 .. Quantum /\ idle' \in Nat
        /\ UNCHANGED <<cnt, runLimit, runExecuted, chunkTicked, lastCycles>>
    BY <1>2, <1>a DEF Step, StartQuantum, core, engine
  <2> QED BY <1>0, <2>1 DEF CountsOK
<1>3. CASE BeginRun
  <2>1. runLimit' \in 1 .. Chunk
    BY <1>0, <1>3, ChunkFacts DEF BeginRun
  <2>2. runExecuted' = 0 /\ chunkTicked' = 0 /\ UNCHANGED <<cnt, left, idle, lastCycles>>
    BY <1>3 DEF BeginRun, core
  <2> QED BY <1>0, <2>1, <2>2 DEF CountsOK
<1>4. CASE FallAsleep
  <2>1. /\ runExecuted' = runExecuted + 1 /\ runExecuted < runLimit
        /\ UNCHANGED <<cnt, left, idle, runLimit, chunkTicked, lastCycles>>
    BY <1>4, <1>a DEF FallAsleep, GoesOn, AtLimit
  <2> QED BY <1>0, <1>a, <2>1 DEF CountsOK
<1>5. CASE Execute
  <2>1. /\ runExecuted' = runExecuted + 1 /\ runExecuted < runLimit
        /\ UNCHANGED <<left, idle, lastCycles>>
    BY <1>5, <1>a DEF Execute, GoesOn, AtLimit
  <2>2. CASE prog[pc] \in {"arm", "pend"}
    <3>1. /\ cnt' \in Nat /\ chunkTicked' = runExecuted + 1
          /\ runLimit' \in 0 .. runLimit /\ runExecuted + 1 <= runLimit'
      BY <1>0, <1>5, <2>1, <2>2, AccessFacts DEF Execute
    <3> QED BY <1>0, <1>a, <2>1, <3>1 DEF CountsOK
  <2>3. CASE prog[pc] \notin {"arm", "pend"}
    <3>1. UNCHANGED <<cnt, chunkTicked, runLimit>>
      BY <1>5, <2>3 DEF Execute
    <3> QED BY <1>0, <1>a, <2>1, <3>1 DEF CountsOK
  <2> QED BY <2>2, <2>3
<1>6. CASE EndChunk
  <2> DEFINE rest == runExecuted - chunkTicked
  <2>1. rest \in Nat
    BY <1>a
  <2>2. /\ cnt' = CountAfter(cnt, rest) /\ chunkTicked' = runExecuted /\ lastCycles' = runExecuted
        /\ UNCHANGED <<left, idle, runLimit, runExecuted>>
    BY <1>6 DEF EndChunk
  <2> HIDE DEF rest
  <2>3. cnt' \in Nat
    BY <1>a, <2>1, <2>2, CountType
  <2> QED BY <1>0, <1>a, <2>2, <2>3 DEF CountsOK
<1>7. CASE SleepTick
  <2> DEFINE n == MaxOf(1, MinOf(MinOf(left, Chunk), cyclesToNextEvent))
             gap == IF pendingFlag THEN 0 ELSE n
  <2>1. n \in 1 .. Chunk
    BY <1>0, ChunkFacts
  <2>2. /\ cnt' = CountAfter(cnt, gap) /\ lastCycles' = gap
        /\ UNCHANGED <<left, idle, runLimit, runExecuted, chunkTicked>>
    BY <1>7 DEF SleepTick, engine
  <2> HIDE DEF n
  <2>3. gap \in 0 .. Chunk
    BY <2>1
  <2> HIDE DEF gap
  <2>4. cnt' \in Nat
    <3>1. gap \in Nat
      BY <2>3
    <3> QED BY <1>a, <2>2, <3>1, CountType
  <2> QED BY <1>0, <2>2, <2>3, <2>4 DEF CountsOK
<1>8. CASE NextChunk
  <2>1. left' = left - MinOf(left, lastCycles)
        /\ idle' \in Nat /\ UNCHANGED <<cnt, runLimit, runExecuted, chunkTicked, lastCycles>>
    BY <1>8, <1>a DEF NextChunk, core, engine
  <2>2. left' \in 0 .. Quantum
    BY <1>a, <2>1 DEF MinOf
  <2> QED BY <1>0, <2>1, <2>2 DEF CountsOK
<1> QED BY <1>1, <1>2, <1>3, <1>4, <1>5, <1>6, <1>7, <1>8 DEF Next, Work, User

LEMMA TypeInductive ==
    ASSUME TypeOK, [Next]_vars
    PROVE  TypeOK'
BY MachineStep, ControlStep, CountsStep DEF TypeOK

(* Whatever the program, the timer and the user do, the loop's counters     *)
(* keep their order: the timers have seen no more than was executed, and no *)
(* more was executed than the chunk allows.                                 *)
THEOREM TypeCorrect == Spec => []TypeOK
<1>1. Init => TypeOK
  BY Initial
<1>2. TypeOK /\ [Next]_vars => TypeOK'
  BY TypeInductive
<1> QED BY <1>1, <1>2, PTL DEF Spec

-----------------------------------------------------------------------------
(* What the loop keeps between its steps *)

Running == phase \in {"run", "ran"}

\* The timers lag behind only inside a run, and a run ends by their next event.
TickInv ==
  /\ ~Running => chunkTicked = runExecuted
  /\ Running /\ cnt > 0 => runLimit - chunkTicked <= cnt
  /\ phase = "run" => runLimit >= 1

\* Asleep, the last run ended with Sleep; a chunk that took no time left the core awake.
SleepInv ==
  /\ Running => ~sleeping
  /\ sleeping => lastStop = "Sleep"
  /\ phase = "slept" => sleeping /\ (lastCycles = 0 => pend # {})
  /\ phase = "after" => ~wouldPreempt
  /\ phase = "after" /\ lastCycles = 0 /\ ~UserStop => ~sleeping

\* Why a run ended, and what is left of the resume.
StopInv ==
  /\ Running => ~forceResume /\ (firstInsn => runExecuted = 0)
  /\ phase = "run" => lastStop = "Quantum"
  /\ phase = "ran" /\ UserStop => ~firstInsn /\ runExecuted < runLimit /\ ~wouldPreempt
  /\ phase = "ran" /\ runExecuted = 0 /\ ~UserStop => wouldPreempt
  /\ phase = "ran" /\ lastStop = "Sleep" => runExecuted >= 1
  /\ phase \in {"tick", "chunk"} /\ UserStop => forceResume

\* A step is one chunk of at most one instruction.
StepInv ==
  /\ phase = "stopped" => range = {}
  /\ op = "step" /\ phase # "stopped" =>
       /\ range = {} /\ left = 1 /\ phase # "tick"
       /\ phase = "chunk" => forceResume
       /\ Running => runLimit = 1 /\ (runExecuted = 0 => firstInsn)

\* After an empty chunk the next one is not empty.
IdleInv ==
  /\ idle \in {0, 1}
  /\ op = "run" /\ idle = 1 =>
       /\ phase = "chunk" => ~sleeping /\ ~wouldPreempt
       /\ phase = "run" /\ runExecuted = 0 => ~wouldPreempt
       /\ phase = "ran" /\ runExecuted = 0 => UserStop
       /\ phase = "after" /\ lastCycles = 0 => UserStop
       /\ phase # "slept"

LoopInv == TypeOK /\ TickInv /\ SleepInv /\ StopInv /\ StepInv /\ IdleInv

LEMMA LoopInitial == Init => LoopInv
<1> SUFFICES ASSUME Init PROVE LoopInv
  OBVIOUS
<1>1. TypeOK
  BY Initial
<1>2. TickInv /\ SleepInv /\ StopInv /\ StepInv /\ IdleInv
  BY DEF Init, TickInv, SleepInv, StopInv, StepInv, IdleInv, Running, UserStop, wouldPreempt
<1> QED BY <1>1, <1>2 DEF LoopInv

LEMMA IntFacts ==
    ASSUME TypeOK
    PROVE  /\ cnt \in Nat /\ left \in Nat /\ left <= Quantum /\ idle \in Nat /\ runLimit \in Nat
           /\ runLimit <= Chunk /\ runExecuted \in Nat /\ runExecuted <= runLimit /\ chunkTicked \in Nat
           /\ chunkTicked <= runExecuted /\ lastCycles \in Nat /\ lastCycles <= Chunk
BY DEF TypeOK, CountsOK

LEMMA TickStep ==
    ASSUME LoopInv, [Next]_vars
    PROVE  TickInv'
<1> USE DEF TickInv, Running
<1>0. TypeOK /\ TickInv
  BY DEF LoopInv
<1>a. CountsOK
  BY <1>0 DEF TypeOK
<1>1. CASE StartRun \/ Step \/ StartQuantum \/ Pause \/ Press \/ SetBreakpoints \/ SleepEnd
           \/ AfterStep \/ AfterUserStop \/ NextChunk
  <2>1. ~Running' /\ ~Running /\ chunkTicked' = chunkTicked /\ runExecuted' = runExecuted
    BY <1>1 DEF StartRun, Step, StartQuantum, Pause, Halt, Press, Between, SetBreakpoints, SleepEnd, AfterStep,
         AfterUserStop, NextChunk, core, engine
  <2> QED BY <1>0, <2>1
<1>2. CASE BeginRun
  <2>1. runLimit' \in 1 .. Chunk /\ (cnt > 0 => runLimit' <= cnt)
    BY <1>a, <1>2, ChunkFacts DEF BeginRun
  <2>2. runExecuted' = 0 /\ chunkTicked' = 0 /\ cnt' = cnt /\ phase' = "run"
    BY <1>2 DEF BeginRun, core
  <2> QED BY <2>1, <2>2
<1>3. CASE StopEarly \/ StopForUser
  <2>1. phase = "run" /\ phase' = "ran" /\ UNCHANGED <<cnt, runLimit, chunkTicked>>
    BY <1>3 DEF StopEarly, StopForUser, core, engine
  <2> QED BY <1>0, <2>1
<1>4. CASE FallAsleep
  <2>1. phase = "run" /\ phase' = "ran" /\ UNCHANGED <<cnt, runLimit, chunkTicked>>
    BY <1>4 DEF FallAsleep, GoesOn
  <2> QED BY <1>0, <2>1
<1>5. CASE Execute
  <2>1. phase = "run" /\ phase' = "run" /\ runExecuted < runLimit
    BY <1>0, <1>5, IntFacts DEF Execute, GoesOn, AtLimit
  <2>2. CASE prog[pc] \in {"arm", "pend"}
    <3>1. /\ cnt' > 0 => runLimit' - chunkTicked' <= cnt'
          /\ runLimit' \in 0 .. runLimit /\ runExecuted + 1 <= runLimit'
      BY <1>a, <1>5, <2>1, <2>2, AccessFacts DEF Execute
    <3> QED BY <1>0, <2>1, <3>1, IntFacts
  <2>3. CASE prog[pc] \notin {"arm", "pend"}
    <3>1. UNCHANGED <<cnt, chunkTicked, runLimit>>
      BY <1>5, <2>3 DEF Execute
    <3> QED BY <1>0, <2>1, <3>1
  <2> QED BY <2>2, <2>3
<1>6. CASE EndChunk
  BY <1>6 DEF EndChunk
<1>7. CASE SleepTick
  <2>1. phase = "chunk" /\ phase' = "slept" /\ UNCHANGED <<runExecuted, chunkTicked>>
    BY <1>7 DEF SleepTick, engine
  <2> QED BY <1>0, <2>1
<1>8. CASE UNCHANGED vars
  BY <1>0, <1>8 DEF vars, core, engine
<1> QED BY <1>1, <1>2, <1>3, <1>4, <1>5, <1>6, <1>7, <1>8 DEF Next, Work, User

\* After service() no interrupt is left that could be taken.
LEMMA Serviced ==
    ASSUME NEW p, ServiceOf(p), UNCHANGED primask
    PROVE  ~wouldPreempt'
BY DEF ServiceOf, wouldPreempt

LEMMA SleepStep ==
    ASSUME LoopInv, [Next]_vars
    PROVE  SleepInv'
<1> USE DEF SleepInv, Running, UserStop
<1>0. TypeOK /\ SleepInv /\ TickInv /\ StopInv
  BY DEF LoopInv
<1>1. CASE StartRun \/ Step \/ StartQuantum \/ Pause \/ SetBreakpoints
           \/ AfterStep \/ AfterUserStop \/ NextChunk
  <2>1. phase' \notin {"run", "ran", "slept", "after"} /\ sleeping' = sleeping /\ lastStop' = lastStop
    BY <1>1 DEF StartRun, Step, StartQuantum, Pause, Halt, Between, SetBreakpoints, AfterStep,
         AfterUserStop, NextChunk, core, engine
  <2> QED BY <1>0, <2>1
<1>2. CASE Press
  <2>1. phase' \notin {"run", "ran", "slept", "after"} /\ sleeping' = sleeping /\ lastStop' = lastStop
    BY <1>2 DEF Press, Between, engine
  <2> QED BY <1>0, <2>1
<1>3. CASE BeginRun
  BY <1>3 DEF BeginRun, core
<1>4. CASE StopEarly \/ StopForUser \/ FallAsleep \/ Execute
  <2>1. phase = "run" /\ phase' \in {"run", "ran"} /\ sleeping' = sleeping
    BY <1>4 DEF StopEarly, StopForUser, FallAsleep, Execute, GoesOn, core
  <2> QED BY <1>0, <2>1
<1>5. CASE EndChunk
  <2>1. /\ phase = "ran" /\ phase' = "after" /\ sleeping' = (lastStop = "Sleep") /\ lastStop' = lastStop
        /\ lastCycles' = runExecuted /\ primask' = primask
    BY <1>5 DEF EndChunk
  <2>2. ~wouldPreempt'
    BY <1>5, Serviced DEF EndChunk
  <2>3. lastStop = "Sleep" => runExecuted >= 1
    BY <1>0, <2>1 DEF StopInv
  <2>4. sleeping' => lastStop = "Sleep"
    BY <2>1
  <2>5. lastStop = "Sleep" => lastCycles' # 0
    BY <2>1, <2>3, IntFacts, <1>0
  <2> QED BY <2>1, <2>2, <2>4, <2>5
<1>6. CASE SleepTick
  <2>1. phase' = "slept" /\ sleeping /\ sleeping' = sleeping /\ lastStop' = lastStop
    BY <1>6 DEF SleepTick, engine
  <2>2. lastCycles' = 0 => pend' # {}
    <3> DEFINE n == MaxOf(1, MinOf(MinOf(left, Chunk), cyclesToNextEvent))
               gap == IF pendingFlag THEN 0 ELSE n
    <3>1. n \in 1 .. Chunk
      BY <1>0, ChunkFacts DEF TypeOK
    <3>2. lastCycles' = gap /\ pend' = PendAfter(pend, cnt, gap)
      BY <1>6 DEF SleepTick
    <3> HIDE DEF n
    <3>3. gap = 0 => pend # {}
      BY <3>1 DEF pendingFlag
    <3> HIDE DEF gap
    <3> QED BY <3>2, <3>3 DEF PendAfter
  <2> QED BY <1>0, <2>1, <2>2
<1>7. CASE SleepEnd
  <2>1. /\ phase = "slept" /\ phase' = "after" /\ sleeping' = (pend = {}) /\ lastStop' = lastStop
        /\ lastCycles' = lastCycles /\ primask' = primask
    BY <1>7 DEF SleepEnd, pendingFlag, engine
  <2>2. ~wouldPreempt'
    BY <1>7, Serviced DEF SleepEnd
  <2> QED BY <1>0, <2>1, <2>2
<1>8. CASE UNCHANGED vars
  BY <1>0, <1>8 DEF vars, core, engine, wouldPreempt
<1> QED BY <1>1, <1>2, <1>3, <1>4, <1>5, <1>6, <1>7, <1>8 DEF Next, Work, User

LEMMA StopStep ==
    ASSUME LoopInv, [Next]_vars
    PROVE  StopInv'
<1> USE DEF StopInv, Running, UserStop
<1>0. TypeOK /\ SleepInv /\ TickInv /\ StopInv
  BY DEF LoopInv
<1>1. CASE StartRun \/ Step
  <2>1. phase' \in {"tick", "chunk"} /\ forceResume'
    BY <1>1 DEF StartRun, Step
  <2> QED BY <2>1
<1>2. CASE Pause \/ AfterStep \/ AfterUserStop
  BY <1>2 DEF Pause, AfterStep, AfterUserStop, Halt
<1>3. CASE StartQuantum \/ Press \/ SetBreakpoints
  <2>1. /\ (phase' = phase /\ phase \in {"stopped", "tick"}) \/ (phase = "tick" /\ phase' = "chunk")
        /\ forceResume' = forceResume /\ lastStop' = lastStop
    BY <1>3 DEF StartQuantum, Press, SetBreakpoints, Between, engine
  <2> QED BY <1>0, <2>1
<1>4. CASE NextChunk
  <2>1. phase' \in {"tick", "chunk"} /\ ~UserStop /\ lastStop' = lastStop
    BY <1>4 DEF NextChunk, engine
  <2> QED BY <2>1
<1>5. CASE BeginRun
  BY <1>5 DEF BeginRun
<1>6. CASE StopEarly
  <2>1. /\ phase = "run" /\ phase' = "ran" /\ (AtLimit \/ IrqStop)
        /\ UNCHANGED <<firstInsn, forceResume, lastStop, runExecuted, runLimit, pend, mode, primask>>
    BY <1>6 DEF StopEarly, core, engine
  <2>2. runExecuted' = 0 => wouldPreempt'
    BY <1>0, <2>1, IntFacts DEF TickInv, AtLimit, IrqStop, wouldPreempt
  <2> QED BY <1>0, <2>1, <2>2
<1>7. CASE StopForUser
  <2>1. /\ phase = "run" /\ phase' = "ran" /\ ~AtLimit /\ ~IrqStop /\ ~firstInsn
        /\ lastStop' \in {"Breakpoint", "StepDone"}
        /\ UNCHANGED <<firstInsn, forceResume, runExecuted, runLimit, pend, mode, primask>>
    BY <1>7 DEF StopForUser, StopCheck, core
  <2>2. ~wouldPreempt'
    BY <2>1 DEF IrqStop, pendingFlag, wouldPreempt
  <2>3. runExecuted' < runLimit'
    BY <1>0, <2>1, IntFacts DEF AtLimit
  <2> QED BY <1>0, <2>1, <2>2, <2>3
<1>8. CASE FallAsleep
  <2>1. /\ phase = "run" /\ phase' = "ran" /\ ~firstInsn' /\ lastStop' = "Sleep"
        /\ runExecuted' = runExecuted + 1 /\ UNCHANGED forceResume
    BY <1>8 DEF FallAsleep, GoesOn
  <2>2. runExecuted' >= 1 /\ runExecuted' # 0
    BY <1>0, <2>1, IntFacts
  <2> QED BY <1>0, <2>1, <2>2
<1>9. CASE Execute
  BY <1>0, <1>9 DEF Execute, GoesOn
<1>10. CASE EndChunk \/ SleepTick \/ SleepEnd
  BY <1>10 DEF EndChunk, SleepTick, SleepEnd
<1>11. CASE UNCHANGED vars
  BY <1>0, <1>11 DEF vars, core, engine, wouldPreempt
<1> QED BY <1>1, <1>2, <1>3, <1>4, <1>5, <1>6, <1>7, <1>8, <1>9, <1>10, <1>11 DEF Next, Work, User

LEMMA StepStep ==
    ASSUME LoopInv, [Next]_vars
    PROVE  StepInv'
<1> USE DEF StepInv, Running
<1>0. TypeOK /\ StepInv
  BY DEF LoopInv
<1>a. CountsOK
  BY <1>0 DEF TypeOK
<1>1. CASE StartRun \/ Step
  BY <1>0, <1>1 DEF StartRun, Step
<1>2. CASE Pause \/ AfterStep \/ AfterUserStop
  BY <1>2 DEF Pause, AfterStep, AfterUserStop, Halt
<1>3. CASE StartQuantum \/ NextChunk
  <2>1. op = "run" /\ op' = op /\ phase' # "stopped"
    BY <1>0, <1>3 DEF StartQuantum, NextChunk, TypeOK, ControlOK
  <2> QED BY <2>1
<1>4. CASE Press \/ SetBreakpoints
  <2>1. UNCHANGED <<phase, range, op, left, forceResume, runLimit, runExecuted, firstInsn>>
    BY <1>4 DEF Press, SetBreakpoints, engine
  <2> QED BY <1>0, <2>1
<1>5. CASE BeginRun
  <2>1. /\ phase = "chunk" /\ phase' = "run" /\ UNCHANGED <<op, left, range>>
        /\ firstInsn' = FirstInsn
        /\ runLimit' = MaxOf(1, MinOf(MinOf(left, Chunk), cyclesToNextEvent))
    BY <1>5 DEF BeginRun
  <2>2. left = 1 => runLimit' = 1
    BY <1>a, <2>1, ChunkFacts
  <2> QED BY <1>0, <2>1, <2>2 DEF FirstInsn
<1>6. CASE StopEarly \/ StopForUser
  <2>1. phase = "run" /\ phase' = "ran" /\ UNCHANGED <<op, left, range, runLimit, runExecuted, firstInsn>>
    BY <1>6 DEF StopEarly, StopForUser, engine
  <2> QED BY <1>0, <2>1
<1>7. CASE FallAsleep \/ Execute
  <2>0. /\ phase = "run" /\ phase' \in {"run", "ran"} /\ UNCHANGED <<op, left, range>>
        /\ runExecuted' = runExecuted + 1 /\ ~AtLimit
    BY <1>7 DEF FallAsleep, Execute, GoesOn
  <2>1. runExecuted' = runExecuted + 1 /\ runExecuted < runLimit
    BY <1>0, <2>0, IntFacts DEF AtLimit
  <2>2. runLimit = 1 => runLimit' = 1
    <3>1. CASE FallAsleep
      BY <3>1 DEF FallAsleep
    <3>2. CASE Execute /\ prog[pc] \in {"arm", "pend"}
      <4>1. runLimit' \in 0 .. runLimit /\ runExecuted + 1 <= runLimit'
        BY <1>a, <2>1, <3>2, AccessFacts DEF Execute
      <4> QED BY <1>0, <4>1, IntFacts
    <3>3. CASE Execute /\ prog[pc] \notin {"arm", "pend"}
      BY <3>3 DEF Execute
    <3> QED BY <1>7, <3>1, <3>2, <3>3
  <2>3. runExecuted' # 0
    BY <1>0, <2>1, IntFacts
  <2> QED BY <1>0, <2>0, <2>1, <2>2, <2>3
<1>8. CASE EndChunk \/ SleepTick \/ SleepEnd
  <2>1. /\ phase \in {"ran", "chunk", "slept"} /\ phase' \in {"after", "slept"}
        /\ UNCHANGED <<op, left, range>>
    BY <1>8 DEF EndChunk, SleepTick, SleepEnd
  <2> QED BY <1>0, <2>1
<1>9. CASE UNCHANGED vars
  BY <1>0, <1>9 DEF vars, core, engine
<1> QED BY <1>1, <1>2, <1>3, <1>4, <1>5, <1>6, <1>7, <1>8, <1>9 DEF Next, Work, User

LEMMA IdleStep ==
    ASSUME LoopInv, [Next]_vars
    PROVE  IdleInv'
<1> USE DEF IdleInv
<1>0. TypeOK /\ IdleInv /\ SleepInv /\ StopInv /\ TickInv
  BY DEF LoopInv
<1>1. CASE StartRun \/ Pause \/ Press \/ SetBreakpoints \/ AfterStep \/ AfterUserStop
  <2>1. phase' \in {"stopped", "tick"} /\ idle' = idle
    BY <1>1 DEF StartRun, Pause, Halt, Press, Between, SetBreakpoints, AfterStep, AfterUserStop
  <2> QED BY <1>0, <2>1
<1>2. CASE Step
  BY <1>0, <1>2 DEF Step
<1>3. CASE StartQuantum
  BY <1>3 DEF StartQuantum
<1>4. CASE BeginRun
  <2>1. phase = "chunk" /\ phase' = "run" /\ UNCHANGED <<op, idle, pend, mode, primask>>
    BY <1>4 DEF BeginRun, core
  <2> QED BY <1>0, <2>1 DEF wouldPreempt
<1>5. CASE StopEarly
  <2>1. /\ phase = "run" /\ phase' = "ran" /\ (AtLimit \/ IrqStop)
        /\ UNCHANGED <<op, idle, runExecuted>>
    BY <1>5 DEF StopEarly, engine
  <2>2. runExecuted = 0 => wouldPreempt
    BY <1>0, <2>1, IntFacts DEF TickInv, AtLimit, IrqStop
  <2> QED BY <1>0, <2>1, <2>2
<1>6. CASE StopForUser
  BY <1>0, <1>6 DEF StopForUser, UserStop
<1>7. CASE FallAsleep \/ Execute
  <2>1. phase' \in {"run", "ran"} /\ runExecuted' = runExecuted + 1 /\ idle' = idle
    BY <1>7 DEF FallAsleep, Execute, GoesOn
  <2>2. runExecuted' # 0
    BY <1>0, <2>1, IntFacts
  <2> QED BY <1>0, <2>1, <2>2
<1>8. CASE EndChunk
  <2>1. /\ phase = "ran" /\ phase' = "after" /\ lastCycles' = runExecuted
        /\ UNCHANGED <<op, idle, lastStop>>
    BY <1>8 DEF EndChunk
  <2> QED BY <1>0, <2>1 DEF UserStop
<1>9. CASE SleepTick
  <2>1. phase = "chunk" /\ sleeping /\ UNCHANGED <<op, idle>>
    BY <1>9 DEF SleepTick
  <2> QED BY <1>0, <2>1
<1>10. CASE SleepEnd
  <2>1. phase = "slept" /\ UNCHANGED <<op, idle>>
    BY <1>10 DEF SleepEnd
  <2> QED BY <1>0, <2>1
<1>11. CASE NextChunk
  <2>1. /\ phase = "after" /\ op = "run" /\ op' = "run" /\ ~UserStop /\ phase' \in {"tick", "chunk"}
        /\ idle' = IF lastCycles = 0 THEN idle + 1 ELSE 0
        /\ UNCHANGED <<sleeping, pend, mode, primask>>
    BY <1>11 DEF NextChunk, core
  <2>2. ~wouldPreempt /\ (lastCycles = 0 => ~sleeping /\ idle = 0)
    BY <1>0, <2>1 DEF SleepInv
  <2> QED BY <2>1, <2>2 DEF wouldPreempt
<1>12. CASE UNCHANGED vars
  BY <1>0, <1>12 DEF vars, core, engine, wouldPreempt, UserStop
<1> QED BY <1>1, <1>2, <1>3, <1>4, <1>5, <1>6, <1>7, <1>8, <1>9, <1>10, <1>11, <1>12 DEF Next, Work, User

LEMMA LoopInductive ==
    ASSUME LoopInv, [Next]_vars
    PROVE  LoopInv'
<1>1. TypeOK'
  BY TypeInductive DEF LoopInv
<1> QED BY <1>1, TickStep, SleepStep, StopStep, StepStep, IdleStep DEF LoopInv

LEMMA LoopAlways == Spec => []LoopInv
<1>1. Init => LoopInv
  BY LoopInitial
<1>2. LoopInv /\ [Next]_vars => LoopInv'
  BY LoopInductive
<1> QED BY <1>1, <1>2, PTL DEF Spec

(* Between two chunks that take no time there is always one that does, so   *)
(* the loop's guard against chunks without progress (++idle > 4) is never   *)
(* needed, whatever the program, the timer and the breakpoints.             *)
THEOREM NoSpin == Spec => []NeverSpins
<1>1. LoopInv => NeverSpins
  BY DEF LoopInv, IdleInv, NeverSpins
<1> QED BY <1>1, LoopAlways, PTL

-----------------------------------------------------------------------------
(* The refinement *)

\* The state of the reference core (the substitution of Ref).
AbsCnt    == CountAfter(cnt, Lag)
AbsPend   == PendAfter(pend, cnt, Lag)
AbsSleep  == sleeping \/ (phase = "ran" /\ lastStop = "Sleep")
AbsRange  == IF DebugState = "stopped" THEN {} ELSE range
AbsExempt == forceResume \/ (phase \in {"run", "ran"} /\ firstInsn /\ runExecuted = 0)

LEMMA SameCore ==
    /\ Ref!Timer = Timer /\ Ref!Button = Button /\ Ref!Handler = Handler
    /\ Ref!Addresses = Addresses /\ Ref!Programs = Programs
    /\ \A a : Ref!Sequel(a) = Sequel(a)
    /\ \A c, n : Ref!CountAfter(c, n) = CountAfter(c, n)
    /\ \A p, c, n : Ref!PendAfter(p, c, n) = PendAfter(p, c, n)
<1>1. /\ Ref!Timer = Timer /\ Ref!Button = Button /\ Ref!Handler = Handler
      /\ Ref!Addresses = Addresses
  BY DEF Ref!Timer, Timer, Ref!Button, Button, Ref!Handler, Handler, Ref!Addresses, Addresses
<1>2. Ref!Programs = Programs
  BY <1>1 DEF Ref!Programs, Programs, Ref!Kinds, Kinds
<1>3. \A a : Ref!Sequel(a) = Sequel(a)
  BY DEF Ref!Sequel, Sequel
<1>4. \A c, n : Ref!CountAfter(c, n) = CountAfter(c, n)
  BY DEF Ref!CountAfter, CountAfter, Ref!Expires, Expires
<1>5. \A p, c, n : Ref!PendAfter(p, c, n) = PendAfter(p, c, n)
  BY <1>1 DEF Ref!PendAfter, PendAfter, Ref!Expires, Expires
<1> QED BY <1>1, <1>2, <1>3, <1>4, <1>5

LEMMA AbsPrime ==
    /\ AbsCnt' = CountAfter(cnt', Lag') /\ AbsPend' = PendAfter(pend', cnt', Lag')
    /\ Lag' = runExecuted' - chunkTicked'
BY DEF AbsCnt, AbsPend, CountAfter, PendAfter, Expires, Lag

LEMMA LagFacts ==
    ASSUME LoopInv
    PROVE  /\ Lag \in Nat /\ (cnt > 0 => Lag <= cnt)
           /\ ~Running => Lag = 0
           /\ Running /\ runExecuted < runLimit => (cnt > 0 => Lag < cnt)
BY IntFacts DEF LoopInv, TickInv, Lag

\* Between runs the timers are up to date.
LEMMA Synced ==
    ASSUME LoopInv, ~Running
    PROVE  AbsCnt = cnt /\ AbsPend = pend
<1>1. cnt \in Nat /\ Lag = 0
  BY LagFacts, IntFacts DEF LoopInv
<1> QED BY <1>1, NoTime DEF AbsCnt, AbsPend

LEMMA SyncedAfter ==
    ASSUME LoopInv', runExecuted' = chunkTicked'
    PROVE  AbsCnt' = cnt' /\ AbsPend' = pend'
<1>1. cnt' \in Nat /\ runExecuted' \in Int /\ chunkTicked' \in Int /\ Lag' = runExecuted' - chunkTicked'
  BY AbsPrime DEF LoopInv, TypeOK, CountsOK
<1>2. Lag' = 0
  <2>1. \A x, y \in Int : x = y => x - y = 0
    OBVIOUS
  <2>2. runExecuted' - chunkTicked' = 0
    BY <1>1, <2>1
  <2> QED BY <1>1, <2>2
<1> QED BY <1>1, <1>2, NoTime, AbsPrime

\* In a run that goes on, the timer's event is still to come.
LEMMA Ahead ==
    ASSUME LoopInv, Running, runExecuted < runLimit
    PROVE  /\ AbsPend = pend
           /\ CountAfter(AbsCnt, 1) = CountAfter(cnt, Lag + 1)
           /\ PendAfter(AbsPend, AbsCnt, 1) = PendAfter(pend, cnt, Lag + 1)
<1>1. cnt \in Nat /\ Lag \in Nat /\ (cnt > 0 => Lag < cnt)
  BY LagFacts, IntFacts DEF LoopInv
<1> QED BY <1>1, OneMore DEF AbsCnt, AbsPend

StateIs ==
    /\ phase = "stopped" => DebugState = "stopped"
    /\ op = "run" /\ phase \in {"tick", "chunk", "run", "slept"} => DebugState = "run"
    /\ op = "run" /\ phase = "ran" => DebugState = IF UserStop THEN "stopped" ELSE "run"
    /\ op = "run" /\ phase = "after" => DebugState = IF UserStop THEN "stopped" ELSE "run"
    /\ op = "step" /\ phase = "chunk" => DebugState = "step"
    /\ op = "step" /\ phase \in {"run", "ran"} =>
         DebugState = IF runExecuted > 0 THEN "stepped" ELSE "step"
    /\ op = "step" /\ phase = "slept" =>
         DebugState = IF lastCycles > 0 THEN "stepped" ELSE "step"
    /\ op = "step" /\ phase = "after" => DebugState = "stepped"

LEMMA StateHolds ==
    ASSUME LoopInv
    PROVE  StateIs
<1>1. SleepInv
  BY DEF LoopInv
<1>2. phase = "stopped" \/ InUserStop => DebugState = "stopped"
  BY DEF DebugState, InUserStop
<1>3. op = "run" /\ phase # "stopped" /\ ~InUserStop => DebugState = "run"
  BY DEF DebugState
<1>4. op = "step" /\ phase # "stopped" => ~InUserStop /\ DebugState = IF StepTaken THEN "stepped" ELSE "step"
  BY DEF DebugState, InUserStop
<1> QED BY <1>1, <1>2, <1>3, <1>4 DEF StateIs, InUserStop, StepTaken, SleepInv, Running, UserStop

LEMMA StateHoldsAfter ==
    ASSUME LoopInv'
    PROVE  StateIs'
<1>1. SleepInv'
  BY DEF LoopInv
<1>2. (phase = "stopped" \/ InUserStop => DebugState = "stopped")'
  BY DEF DebugState, InUserStop
<1>3. (op = "run" /\ phase # "stopped" /\ ~InUserStop => DebugState = "run")'
  BY DEF DebugState
<1>4. (op = "step" /\ phase # "stopped" => ~InUserStop /\ DebugState = IF StepTaken THEN "stepped" ELSE "step")'
  BY DEF DebugState, InUserStop
<1> QED BY <1>1, <1>2, <1>3, <1>4 DEF StateIs, InUserStop, StepTaken, SleepInv, Running, UserStop

\* The steps of the reference core, in the loop's terms.
LEMMA RefStutter ==
    ASSUME UNCHANGED <<prog, pc, mode, saved, primask, AbsPend, AbsCnt, AbsSleep, DebugState, bps,
                       AbsRange, AbsExempt>>
    PROVE  UNCHANGED Ref!vars
BY DEF Ref!vars, Ref!core, AbsPend, AbsCnt, AbsSleep, AbsRange, AbsExempt

LEMMA RefResume ==
    ASSUME DebugState = "stopped", DebugState' \in {"run", "step"}, AbsExempt' = TRUE,
           AbsRange' \in IF DebugState' = "run" THEN SUBSET Addresses ELSE {{}},
           UNCHANGED <<prog, pc, mode, saved, primask, AbsPend, AbsCnt, AbsSleep, bps>>
    PROVE  Ref!Next
BY SameCore DEF Ref!Next, Ref!Resume, Ref!core, AbsPend, AbsCnt, AbsSleep, AbsRange, AbsExempt

LEMMA RefStop ==
    ASSUME DebugState \in {"run", "stepped"}, DebugState' = "stopped", AbsRange' = {},
           UNCHANGED <<prog, pc, mode, saved, primask, AbsPend, AbsCnt, AbsSleep, bps, AbsExempt>>
    PROVE  Ref!Next
BY DEF Ref!Next, Ref!Stop, Ref!core, AbsPend, AbsCnt, AbsSleep, AbsRange, AbsExempt

LEMMA RefPress ==
    ASSUME AbsPend' = AbsPend \cup {Button},
           UNCHANGED <<prog, pc, mode, saved, primask, AbsCnt, AbsSleep, DebugState, bps, AbsRange, AbsExempt>>
    PROVE  Ref!Next
BY SameCore DEF Ref!Next, Ref!Press, AbsPend, AbsCnt, AbsSleep, AbsRange, AbsExempt

LEMMA RefSetBreakpoints ==
    ASSUME bps' \in SUBSET Addresses,
           UNCHANGED <<prog, pc, mode, saved, primask, AbsPend, AbsCnt, AbsSleep, DebugState, AbsRange, AbsExempt>>
    PROVE  Ref!Next
BY SameCore DEF Ref!Next, Ref!SetBreakpoints, Ref!core, AbsPend, AbsCnt, AbsSleep, AbsRange, AbsExempt

CanTakeIt == AbsPend # {} /\ mode = "thread" /\ ~primask

Stepped == DebugState' = IF DebugState = "step" THEN "stepped" ELSE DebugState

LEMMA RefExec ==
    ASSUME DebugState \in {"run", "step"}, ~AbsSleep, ~CanTakeIt,
           ~AbsExempt => pc \notin bps /\ (AbsRange = {} \/ pc \in AbsRange),
           pc' = IF prog[pc] = "ret" THEN saved ELSE Sequel(pc),
           mode' = IF prog[pc] = "ret" THEN "thread" ELSE mode,
           primask' = CASE prog[pc] = "cpsid" -> TRUE [] prog[pc] = "cpsie" -> FALSE [] OTHER -> primask,
           AbsPend' = PendAfter(AbsPend, AbsCnt, 1) \cup (IF prog[pc] = "pend" THEN {Button} ELSE {}),
           AbsCnt' = IF prog[pc] = "arm" THEN Short ELSE CountAfter(AbsCnt, 1),
           AbsSleep' = (prog[pc] = "wfi" /\ AbsPend = {}),
           AbsExempt' = FALSE, Stepped,
           UNCHANGED <<prog, saved, bps, AbsRange>>
    PROVE  Ref!Next
<1>1. Ref!Exec
  BY SameCore DEF Ref!Exec, Ref!CanTake, Ref!StopsHere, CanTakeIt, Stepped,
       AbsPend, AbsCnt, AbsSleep, AbsRange, AbsExempt
<1> QED BY <1>1 DEF Ref!Next

LEMMA RefTakeIrq ==
    ASSUME DebugState # "stopped", CanTakeIt, NEW i \in {Timer, Button}, i \in AbsPend,
           pc' = Handler, mode' = "handler", saved' = pc, AbsPend' = AbsPend \ {i},
           AbsSleep' \in {AbsSleep, FALSE}, AbsExempt' \in {AbsExempt, FALSE}, Stepped,
           UNCHANGED <<prog, primask, AbsCnt, bps, AbsRange>>
    PROVE  Ref!Next
<1>1. Ref!TakeIrq(i)
  BY SameCore DEF Ref!TakeIrq, Ref!CanTake, CanTakeIt, Stepped,
       AbsPend, AbsCnt, AbsSleep, AbsRange, AbsExempt
<1> QED BY <1>1, SameCore DEF Ref!Next

LEMMA RefWake ==
    ASSUME DebugState # "stopped", AbsSleep, AbsPend # {}, ~CanTakeIt, AbsSleep' = FALSE, Stepped,
           UNCHANGED <<prog, pc, mode, saved, primask, AbsPend, AbsCnt, bps, AbsRange, AbsExempt>>
    PROVE  Ref!Next
BY DEF Ref!Next, Ref!Wake, Ref!CanTake, CanTakeIt, Stepped, AbsPend, AbsCnt, AbsSleep, AbsRange, AbsExempt

LEMMA RefIdle ==
    ASSUME DebugState \in {"run", "step"}, AbsSleep, AbsPend = {},
           NEW n \in {1} \cup 1 .. AbsCnt, AbsCnt > 0 => n <= AbsCnt,
           AbsPend' = PendAfter(AbsPend, AbsCnt, n), AbsCnt' = CountAfter(AbsCnt, n), Stepped,
           UNCHANGED <<prog, pc, mode, saved, primask, AbsSleep, bps, AbsRange, AbsExempt>>
    PROVE  Ref!Next
<1>1. Ref!Idle(n)
  BY SameCore DEF Ref!Idle, Stepped, AbsPend, AbsCnt, AbsSleep, AbsRange, AbsExempt
<1> QED BY <1>1 DEF Ref!Next, AbsCnt

\* Outside runs the reference core sees the timers, the sleep and the resume as they are.
LEMMA Apart ==
    ASSUME LoopInv, ~Running
    PROVE  AbsCnt = cnt /\ AbsPend = pend /\ AbsSleep = sleeping /\ AbsExempt = forceResume
<1>1. sleeping \in BOOLEAN /\ forceResume \in BOOLEAN
  BY DEF LoopInv, TypeOK, MachineOK, ControlOK
<1>2. AbsSleep = sleeping /\ AbsExempt = forceResume
  BY <1>1 DEF AbsSleep, AbsExempt, Running
<1> QED BY <1>2, Synced

LEMMA ApartAfter ==
    ASSUME LoopInv', ~Running'
    PROVE  AbsCnt' = cnt' /\ AbsPend' = pend' /\ AbsSleep' = sleeping' /\ AbsExempt' = forceResume'
<1>1. sleeping' \in BOOLEAN /\ forceResume' \in BOOLEAN /\ runExecuted' = chunkTicked'
  BY DEF LoopInv, TypeOK, MachineOK, ControlOK, TickInv
<1>2. AbsSleep' = sleeping' /\ AbsExempt' = forceResume'
  BY <1>1 DEF AbsSleep, AbsExempt, Running
<1> QED BY <1>1, <1>2, SyncedAfter

\* In a run the core is awake, and exempt only at the resume.
LEMMA Inside ==
    ASSUME LoopInv, phase = "run"
    PROVE  AbsSleep = FALSE /\ AbsExempt = firstInsn
<1>1. sleeping = FALSE /\ forceResume = FALSE /\ firstInsn \in BOOLEAN /\ (firstInsn => runExecuted = 0)
  BY DEF LoopInv, TypeOK, MachineOK, ControlOK, SleepInv, StopInv, Running
<1> QED BY <1>1 DEF AbsSleep, AbsExempt

\* The worker and the user.
LEMMA UserStep ==
    ASSUME LoopInv, LoopInv', User \/ StartQuantum
    PROVE  Ref!Next \/ UNCHANGED Ref!vars
<1>0. StateIs /\ StateIs' /\ StepInv /\ op \in {"run", "step"}
  BY StateHolds, StateHoldsAfter DEF LoopInv, TypeOK, ControlOK
<1>1. CASE StartRun
  <2>1. /\ phase = "stopped" /\ phase' = "tick" /\ op' = "run" /\ forceResume' = TRUE
        /\ range' \in Ranges \cup {{}}
        /\ UNCHANGED <<prog, pc, mode, saved, primask, pend, cnt, sleeping, bps>>
    BY <1>1 DEF StartRun, core
  <2>2. DebugState = "stopped" /\ DebugState' = "run"
    BY <1>0, <2>1 DEF StateIs
  <2>3. UNCHANGED <<AbsPend, AbsCnt, AbsSleep>> /\ AbsExempt' = TRUE
    BY <2>1, Apart, ApartAfter DEF Running
  <2>4. AbsRange' \in SUBSET Addresses
    BY <2>1, <2>2 DEF AbsRange
  <2> QED BY <2>1, <2>2, <2>3, <2>4, RefResume
<1>2. CASE Step
  <2>1. /\ phase = "stopped" /\ phase' = "chunk" /\ op' = "step" /\ forceResume' = TRUE
        /\ range' = range
        /\ UNCHANGED <<prog, pc, mode, saved, primask, pend, cnt, sleeping, bps>>
    BY <1>2 DEF Step, core
  <2>2. DebugState = "stopped" /\ DebugState' = "step"
    BY <1>0, <2>1 DEF StateIs
  <2>3. UNCHANGED <<AbsPend, AbsCnt, AbsSleep>> /\ AbsExempt' = TRUE
    BY <2>1, Apart, ApartAfter DEF Running
  <2>4. AbsRange' = {}
    BY <1>0, <2>1, <2>2 DEF AbsRange, StepInv
  <2> QED BY <2>1, <2>2, <2>3, <2>4, RefResume
<1>3. CASE StartQuantum
  <2>1. /\ phase = "tick" /\ phase' = "chunk" /\ op' = op
        /\ UNCHANGED <<prog, pc, mode, saved, primask, pend, cnt, sleeping, bps, forceResume, range>>
    BY <1>3 DEF StartQuantum, core
  <2>2. DebugState = "run" /\ DebugState' = "run"
    BY <1>0, <2>1 DEF StateIs, StepInv
  <2>3. UNCHANGED <<AbsPend, AbsCnt, AbsSleep, AbsExempt>>
    BY <2>1, Apart, ApartAfter DEF Running
  <2>4. AbsRange' = AbsRange
    BY <2>1, <2>2 DEF AbsRange
  <2> QED BY <2>1, <2>2, <2>3, <2>4, RefStutter
<1>4. CASE Pause
  <2>1. /\ phase = "tick" /\ phase' = "stopped" /\ op' = op
        /\ UNCHANGED <<prog, pc, mode, saved, primask, pend, cnt, sleeping, bps, forceResume>>
    BY <1>4 DEF Pause, Halt, core
  <2>2. DebugState = "run" /\ DebugState' = "stopped"
    BY <1>0, <2>1 DEF StateIs, StepInv
  <2>3. UNCHANGED <<AbsPend, AbsCnt, AbsSleep, AbsExempt>>
    BY <2>1, Apart, ApartAfter DEF Running
  <2>4. AbsRange' = {}
    BY <2>2 DEF AbsRange
  <2> QED BY <2>1, <2>2, <2>3, <2>4, RefStop
<1>5. CASE Press \/ SetBreakpoints
  <2>1. /\ phase \in {"stopped", "tick"}
        /\ UNCHANGED <<phase, op, prog, pc, mode, saved, primask, cnt, sleeping, forceResume, range>>
    BY <1>5 DEF Press, SetBreakpoints, Between, core
  <2>2. DebugState' = DebugState
    BY <1>0, <2>1 DEF StateIs, StepInv
  <2>3. UNCHANGED <<AbsCnt, AbsSleep, AbsExempt>> /\ AbsPend = pend /\ AbsPend' = pend'
    BY <2>1, Apart, ApartAfter DEF Running
  <2>4. AbsRange' = AbsRange
    BY <2>1, <2>2 DEF AbsRange
  <2>5. CASE Press
    <3>1. pend' = pend \cup {Button} /\ bps' = bps
      BY <2>5 DEF Press
    <3> QED BY <2>1, <2>2, <2>3, <2>4, <3>1, RefPress
  <2>6. CASE SetBreakpoints
    <3>1. bps' \in SUBSET Addresses /\ pend' = pend
      BY <2>6 DEF SetBreakpoints, core
    <3> QED BY <2>1, <2>2, <2>3, <2>4, <3>1, RefSetBreakpoints
  <2> QED BY <1>5, <2>5, <2>6
<1> QED BY <1>1, <1>2, <1>3, <1>4, <1>5 DEF User

\* The start and the stops of a run.
LEMMA RunStep ==
    ASSUME LoopInv, LoopInv', BeginRun \/ StopEarly \/ StopForUser
    PROVE  Ref!Next \/ UNCHANGED Ref!vars
<1>0. /\ StateIs /\ StateIs' /\ StepInv /\ StopInv /\ SleepInv /\ op \in {"run", "step"}
      /\ forceResume \in BOOLEAN
  BY StateHolds, StateHoldsAfter DEF LoopInv, TypeOK, ControlOK
<1>1. CASE BeginRun
  <2>1. /\ phase = "chunk" /\ phase' = "run" /\ op' = op /\ runExecuted' = 0 /\ chunkTicked' = 0
        /\ firstInsn' = FirstInsn
        /\ UNCHANGED <<prog, pc, mode, saved, primask, pend, cnt, sleeping, bps, range>>
    BY <1>1 DEF BeginRun, core
  <2>2. DebugState' = DebugState /\ DebugState # "stopped"
    BY <1>0, <2>1 DEF StateIs
  <2>3. UNCHANGED <<AbsPend, AbsCnt>>
    BY <2>1, Apart, SyncedAfter DEF Running
  <2>4. AbsSleep' = AbsSleep
    BY <2>1 DEF AbsSleep
  <2>5. AbsExempt' = AbsExempt
    <3>1. FirstInsn = forceResume
      BY <1>0, <2>1 DEF FirstInsn, StopInv, UserStop
    <3>2. AbsExempt = forceResume
      BY <2>1, Apart DEF Running
    <3>3. AbsExempt' = FirstInsn
      <4>1. forceResume' = FALSE /\ firstInsn' \in BOOLEAN
        BY <1>1 DEF BeginRun, FirstInsn
      <4> QED BY <2>1, <4>1 DEF AbsExempt
    <3> QED BY <3>1, <3>2, <3>3
  <2>6. AbsRange' = AbsRange
    BY <2>1, <2>2 DEF AbsRange
  <2> QED BY <2>1, <2>2, <2>3, <2>4, <2>5, <2>6, RefStutter
<1>2. CASE StopEarly
  <2>1. /\ phase = "run" /\ phase' = "ran" /\ lastStop = "Quantum"
        /\ UNCHANGED <<prog, pc, mode, saved, primask, pend, cnt, sleeping, bps, range, op,
                       runExecuted, chunkTicked, firstInsn, forceResume, lastStop>>
    BY <1>0, <1>2 DEF StopEarly, core, engine, StopInv
  <2>2. DebugState' = DebugState /\ DebugState # "stopped"
    BY <1>0, <2>1 DEF StateIs, UserStop
  <2>3. UNCHANGED <<AbsPend, AbsCnt>>
    BY <2>1 DEF AbsPend, AbsCnt, Lag, CountAfter, PendAfter, Expires
  <2>4. AbsSleep' = AbsSleep /\ AbsExempt' = AbsExempt
    BY <2>1 DEF AbsSleep, AbsExempt
  <2>5. AbsRange' = AbsRange
    BY <2>1, <2>2 DEF AbsRange
  <2> QED BY <2>1, <2>2, <2>3, <2>4, <2>5, RefStutter
<1>3. CASE StopForUser
  <2>1. /\ phase = "run" /\ phase' = "ran" /\ ~firstInsn /\ runExecuted < runLimit
        /\ lastStop' \in {"StepDone", "Breakpoint"}
        /\ UNCHANGED <<prog, pc, mode, saved, primask, pend, cnt, sleeping, bps, op,
                       runExecuted, chunkTicked, firstInsn, forceResume>>
    <3>1. ~AtLimit
      BY <1>3 DEF StopForUser
    <3>2. runExecuted < runLimit
      BY <3>1, IntFacts DEF AtLimit, LoopInv
    <3> QED BY <1>3, <3>2 DEF StopForUser, StopCheck, core
  <2>2. op = "run"
    <3>1. op = "step" => runLimit = 1 /\ runExecuted # 0
      BY <1>0, <2>1 DEF StepInv, Running
    <3> QED BY <1>0, <2>1, <3>1, IntFacts DEF LoopInv
  <2>3. DebugState = "run" /\ DebugState' = "stopped"
    BY <1>0, <2>1, <2>2 DEF StateIs, UserStop
  <2>4. UNCHANGED <<AbsPend, AbsCnt>>
    BY <2>1 DEF AbsPend, AbsCnt, Lag, CountAfter, PendAfter, Expires
  <2>5. AbsSleep' = AbsSleep /\ AbsExempt' = AbsExempt
    BY <2>1 DEF AbsSleep, AbsExempt
  <2>6. AbsRange' = {}
    BY <2>3 DEF AbsRange
  <2> QED BY <2>1, <2>3, <2>4, <2>5, <2>6, RefStop
<1> QED BY <1>1, <1>2, <1>3

LEMMA AccessIs ==
    ASSUME NEW k, AccessEffects(k), (runExecuted + 1) - chunkTicked = Lag + 1
    PROVE  /\ pend' = PendAfter(pend, cnt, Lag + 1) \cup (IF k = "pend" THEN {Button} ELSE {})
           /\ cnt' = IF k = "arm" THEN Short ELSE CountAfter(cnt, Lag + 1)
           /\ chunkTicked' = runExecuted + 1
BY DEF AccessEffects

\* An instruction, WFI included.
LEMMA InsnStep ==
    ASSUME LoopInv, LoopInv', FallAsleep \/ Execute
    PROVE  Ref!Next
<1>0. /\ StateIs /\ StateIs' /\ StepInv /\ StopInv /\ SleepInv /\ op \in {"run", "step"}
      /\ prog[pc] \in Kinds \cup {"ret"}
  BY StateHolds, StateHoldsAfter, ProgramFacts DEF LoopInv, TypeOK, ControlOK, MachineOK
<1>1. /\ GoesOn /\ phase = "run" /\ runExecuted' = runExecuted + 1 /\ firstInsn' = FALSE
      /\ UNCHANGED <<prog, saved, op, bps, range, forceResume, sleeping>>
  BY DEF FallAsleep, Execute, GoesOn
<1>2. runExecuted \in Nat /\ runExecuted < runLimit /\ runExecuted' > 0
  <2>1. ~AtLimit
    BY <1>1 DEF GoesOn
  <2> QED BY <1>1, <2>1, IntFacts DEF AtLimit, LoopInv
<1>3. /\ AbsPend = pend
      /\ CountAfter(AbsCnt, 1) = CountAfter(cnt, Lag + 1)
      /\ PendAfter(AbsPend, AbsCnt, 1) = PendAfter(pend, cnt, Lag + 1)
  BY <1>1, <1>2, Ahead DEF Running
<1>4. AbsSleep = FALSE /\ AbsExempt = firstInsn
  BY <1>1, Inside
<1>5. /\ op = "run" => DebugState = "run"
      /\ op = "step" => DebugState = "step"
  <2>1. op = "step" => ~ (runExecuted > 0)
    BY <1>0, <1>1, <1>2, IntFacts DEF StepInv, Running, LoopInv
  <2> QED BY <1>0, <1>1, <2>1 DEF StateIs
<1>6. DebugState \in {"run", "step"} /\ AbsRange = range
  BY <1>0, <1>5 DEF AbsRange
<1>7. ~CanTakeIt
  BY <1>1, <1>3 DEF GoesOn, IrqStop, pendingFlag, wouldPreempt, CanTakeIt
<1>8. ~AbsExempt => pc \notin bps /\ (AbsRange = {} \/ pc \in AbsRange)
  BY <1>1, <1>4, <1>6 DEF GoesOn, StopCheck, OffRange
<1>9. AbsExempt' = FALSE
  <2>1. forceResume = FALSE
    BY <1>0, <1>1 DEF StopInv, Running, LoopInv, TypeOK, ControlOK
  <2> QED BY <1>1, <2>1 DEF AbsExempt
<1>10. sleeping = FALSE
  BY <1>0, <1>1 DEF SleepInv, Running, LoopInv, TypeOK, MachineOK
<1>11. CASE FallAsleep
  <2>1. /\ prog[pc] = "wfi" /\ pend = {} /\ pc' = Sequel(pc) /\ phase' = "ran" /\ lastStop' = "Sleep"
        /\ UNCHANGED <<mode, primask, pend, cnt, chunkTicked>>
    BY <1>11 DEF FallAsleep, FallsAsleep, pendingFlag
  <2>2. DebugState' = IF op = "step" THEN "stepped" ELSE "run"
    BY <1>0, <1>1, <1>2, <2>1 DEF StateIs, UserStop
  <2>3. Stepped /\ AbsRange' = AbsRange
    BY <1>0, <1>1, <1>5, <1>6, <2>2 DEF Stepped, AbsRange
  <2>4. Lag' = Lag + 1
    BY <1>1, <2>1, IntFacts DEF Lag, LoopInv
  <2>5. AbsCnt' = CountAfter(AbsCnt, 1) /\ AbsPend' = PendAfter(AbsPend, AbsCnt, 1)
    BY <1>3, <2>1, <2>4, AbsPrime
  <2>6. AbsSleep' = TRUE
    BY <2>1 DEF AbsSleep
  <2> QED BY <1>1, <1>3, <1>4, <1>6, <1>7, <1>8, <1>9, <2>1, <2>3, <2>5, <2>6, RefExec
<1>12. CASE Execute
  <2>1. /\ ~(prog[pc] = "wfi" /\ pend = {}) /\ phase' = "run"
        /\ pc' = IF prog[pc] = "ret" THEN saved ELSE Sequel(pc)
        /\ mode' = IF prog[pc] = "ret" THEN "thread" ELSE mode
        /\ primask' = CASE prog[pc] = "cpsid" -> TRUE [] prog[pc] = "cpsie" -> FALSE [] OTHER -> primask
    BY <1>1, <1>12 DEF Execute, FallsAsleep, pendingFlag
  <2>2. DebugState' = IF op = "step" THEN "stepped" ELSE "run"
    BY <1>0, <1>1, <1>2, <2>1 DEF StateIs
  <2>3. Stepped /\ AbsRange' = AbsRange
    BY <1>0, <1>1, <1>5, <1>6, <2>2 DEF Stepped, AbsRange
  <2>4. /\ AbsPend' = PendAfter(AbsPend, AbsCnt, 1) \cup (IF prog[pc] = "pend" THEN {Button} ELSE {})
        /\ AbsCnt' = IF prog[pc] = "arm" THEN Short ELSE CountAfter(AbsCnt, 1)
    <3>1. CASE prog[pc] \in {"arm", "pend"}
      <4>1. (runExecuted + 1) - chunkTicked = Lag + 1
        BY IntFacts DEF Lag, LoopInv
      <4>2. AccessEffects(prog[pc])
        BY <1>12, <3>1 DEF Execute
      <4>3. /\ pend' = PendAfter(pend, cnt, Lag + 1)
                         \cup (IF prog[pc] = "pend" THEN {Button} ELSE {})
            /\ cnt' = IF prog[pc] = "arm" THEN Short ELSE CountAfter(cnt, Lag + 1)
            /\ chunkTicked' = runExecuted + 1
        BY <4>1, <4>2, AccessIs
      <4>4. AbsPend' = pend' /\ AbsCnt' = cnt'
        BY <1>1, <4>3, SyncedAfter
      <4> QED BY <1>3, <4>3, <4>4
    <3>2. CASE prog[pc] \notin {"arm", "pend"}
      <4>1. UNCHANGED <<pend, cnt, chunkTicked>>
        BY <1>12, <3>2 DEF Execute
      <4>2. Lag' = Lag + 1
        BY <1>1, <4>1, IntFacts DEF Lag, LoopInv
      <4>3. AbsCnt' = CountAfter(AbsCnt, 1) /\ AbsPend' = PendAfter(AbsPend, AbsCnt, 1)
        BY <1>3, <4>1, <4>2, AbsPrime
      <4> QED BY <3>2, <4>3
    <3> QED BY <3>1, <3>2
  <2>5. AbsSleep' = FALSE
    BY <1>1, <1>10, <2>1 DEF AbsSleep
  <2> QED BY <1>1, <1>3, <1>4, <1>6, <1>7, <1>8, <1>9, <2>1, <2>3, <2>4, <2>5, RefExec
<1> QED BY <1>11, <1>12

\* Nvic::service, as the reference core sees it.
LEMMA ServiceIs ==
    ASSUME LoopInv, NEW p \in SUBSET {Timer, Button}, ServiceOf(p), p = AbsPend, AbsPend' = pend'
    PROVE  \/ /\ CanTakeIt
              /\ \E i \in {Timer, Button} :
                   /\ i \in AbsPend /\ AbsPend' = AbsPend \ {i}
                   /\ pc' = Handler /\ mode' = "handler" /\ saved' = pc
           \/ ~CanTakeIt /\ UNCHANGED <<AbsPend, pc, mode, saved>>
BY DEF ServiceOf, CanTakeIt

\* The end of a run: the reference core takes the interrupt, or nothing happens.
LEMMA EndStep ==
    ASSUME LoopInv, LoopInv', EndChunk
    PROVE  Ref!Next \/ UNCHANGED Ref!vars
<1>0. /\ StateIs /\ StateIs' /\ StopInv /\ SleepInv /\ op \in {"run", "step"} /\ TypeOK
      /\ forceResume = FALSE /\ sleeping = FALSE /\ firstInsn \in BOOLEAN
  <2>1. phase = "ran"
    BY DEF EndChunk
  <2> QED BY <2>1, StateHolds, StateHoldsAfter
          DEF LoopInv, TypeOK, ControlOK, MachineOK, StopInv, SleepInv, Running
<1>1. /\ phase = "ran" /\ phase' = "after" /\ sleeping' = (lastStop = "Sleep")
      /\ UNCHANGED <<prog, primask, op, bps, range, lastStop, forceResume>>
  BY DEF EndChunk
<1>2. AbsCnt' = AbsCnt /\ AbsPend' = pend' /\ ServiceOf(AbsPend)
  <2>1. cnt' = CountAfter(cnt, Lag) /\ ServiceOf(PendAfter(pend, cnt, Lag)) /\ chunkTicked' = runExecuted'
    BY DEF EndChunk, Lag
  <2>2. AbsCnt' = cnt' /\ AbsPend' = pend'
    BY <2>1, SyncedAfter
  <2> QED BY <2>1, <2>2 DEF AbsCnt, AbsPend
<1>3. AbsPend \in SUBSET {Timer, Button}
  BY <1>0 DEF AbsPend, PendAfter, TypeOK, MachineOK
<1>4. AbsSleep' = AbsSleep
  BY <1>0, <1>1 DEF AbsSleep
<1>5. AbsExempt' = FALSE
  BY <1>0, <1>1 DEF AbsExempt
<1>6. UserStop => ~CanTakeIt /\ ~firstInsn
  <2> SUFFICES ASSUME UserStop PROVE ~CanTakeIt /\ ~firstInsn
    OBVIOUS
  <2>1. ~firstInsn /\ runExecuted < runLimit /\ ~wouldPreempt
    BY <1>0, <1>1 DEF StopInv
  <2>2. AbsPend = pend
    BY <1>1, <2>1, Ahead DEF Running
  <2> QED BY <2>1, <2>2 DEF CanTakeIt, wouldPreempt
<1>7. runExecuted = 0 /\ ~UserStop => CanTakeIt
  <2> SUFFICES ASSUME runExecuted = 0, ~UserStop PROVE CanTakeIt
    OBVIOUS
  <2>1. wouldPreempt
    BY <1>0, <1>1 DEF StopInv
  <2> QED BY <2>1 DEF wouldPreempt, CanTakeIt, AbsPend, PendAfter
<1>8. CASE CanTakeIt
  <2>1. PICK i \in {Timer, Button} :
                   /\ i \in AbsPend /\ AbsPend' = AbsPend \ {i}
                   /\ pc' = Handler /\ mode' = "handler" /\ saved' = pc
    BY <1>2, <1>3, <1>8, ServiceIs
  <2>2. ~UserStop /\ ~UserStop'
    BY <1>1, <1>6, <1>8 DEF UserStop
  <2>3. DebugState # "stopped" /\ Stepped /\ DebugState' # "stopped"
    BY <1>0, <1>1, <2>2 DEF StateIs, Stepped
  <2>4. AbsRange' = AbsRange
    BY <1>1, <2>3 DEF AbsRange
  <2> QED BY <1>1, <1>2, <1>4, <1>5, <1>8, <2>1, <2>3, <2>4, RefTakeIrq
<1>9. CASE ~CanTakeIt
  <2>1. UNCHANGED <<AbsPend, pc, mode, saved>>
    BY <1>2, <1>3, <1>9, ServiceIs
  <2>2. ~firstInsn \/ runExecuted # 0
    BY <1>6, <1>7, <1>9
  <2>3. AbsExempt = FALSE
    BY <1>0, <2>2 DEF AbsExempt
  <2>4. DebugState' = DebugState
    <3>1. CASE op = "run"
      BY <1>0, <1>1, <3>1 DEF StateIs, UserStop
    <3>2. CASE op = "step"
      <4>1. runExecuted # 0
        BY <1>0, <1>1, <1>7, <1>9, <3>2, <2>2 DEF StepInv, LoopInv, Running
      <4>2. runExecuted > 0
        BY <1>0, <4>1, IntFacts
      <4> QED BY <1>0, <1>1, <3>2, <4>2 DEF StateIs
    <3> QED BY <1>0, <3>1, <3>2
  <2>5. AbsRange' = AbsRange
    BY <1>1, <2>4 DEF AbsRange
  <2> QED BY <1>1, <1>2, <1>4, <1>5, <2>1, <2>3, <2>4, <2>5, RefStutter
<1> QED BY <1>8, <1>9

\* A chunk asleep: time passes, or nothing does; then the sleep may end.
LEMMA SleepTickStep ==
    ASSUME LoopInv, LoopInv', SleepTick
    PROVE  Ref!Next \/ UNCHANGED Ref!vars
<1> DEFINE n == MaxOf(1, MinOf(MinOf(left, Chunk), cyclesToNextEvent))
           gap == IF pendingFlag THEN 0 ELSE n
<1>0. /\ StateIs /\ StateIs' /\ StepInv /\ op \in {"run", "step"} /\ TypeOK /\ CountsOK
  BY StateHolds, StateHoldsAfter DEF LoopInv, TypeOK, ControlOK
<1>1. /\ phase = "chunk" /\ phase' = "slept" /\ sleeping /\ lastCycles' = gap
      /\ cnt' = CountAfter(cnt, gap) /\ pend' = PendAfter(pend, cnt, gap)
      /\ UNCHANGED <<prog, pc, mode, saved, primask, op, bps, range, forceResume, sleeping>>
  BY DEF SleepTick
<1>2. n \in 1 .. Chunk /\ (cnt > 0 => n <= cnt)
  BY <1>0, ChunkFacts
<1> HIDE DEF n
<1>3. /\ AbsCnt = cnt /\ AbsPend = pend /\ AbsSleep = sleeping
      /\ UNCHANGED <<AbsSleep, AbsExempt>> /\ AbsCnt' = cnt' /\ AbsPend' = pend'
  BY <1>1, Apart, ApartAfter DEF Running
<1>4. CASE pendingFlag
  <2>1. gap = 0
    BY <1>4
  <2>2. UNCHANGED <<AbsCnt, AbsPend>>
    BY <1>0, <1>1, <1>3, <2>1, NoTime, IntFacts
  <2>3. DebugState' = DebugState
    BY <1>0, <1>1, <2>1 DEF StateIs
  <2>4. AbsRange' = AbsRange
    BY <1>1, <2>3 DEF AbsRange
  <2> QED BY <1>1, <1>3, <2>2, <2>3, <2>4, RefStutter
<1>5. CASE ~pendingFlag
  <2>1. gap = n /\ pend = {}
    BY <1>5 DEF pendingFlag
  <2>2. lastCycles' > 0 /\ lastCycles' \in Nat
    BY <1>1, <1>2, <2>1
  <2>3. Stepped /\ DebugState \in {"run", "step"} /\ DebugState' # "stopped"
    BY <1>0, <1>1, <2>2 DEF StateIs, Stepped
  <2>4. AbsRange' = AbsRange
    BY <1>1, <2>3 DEF AbsRange
  <2>5. PICK m \in {1} \cup 1 .. AbsCnt :
          /\ AbsCnt > 0 => m <= AbsCnt
          /\ AbsPend' = PendAfter(AbsPend, AbsCnt, m) /\ AbsCnt' = CountAfter(AbsCnt, m)
    <3>0. cnt \in Nat
      BY <1>0, IntFacts
    <3>1. CASE cnt > 0
      <4>1. n \in {1} \cup 1 .. AbsCnt /\ n <= AbsCnt
        BY <1>2, <1>3, <3>0, <3>1
      <4> QED BY <1>1, <1>3, <2>1, <4>1
    <3>2. CASE cnt = 0
      <4>1. /\ CountAfter(cnt, n) = 0 /\ CountAfter(cnt, 1) = 0
            /\ PendAfter(pend, cnt, n) = pend /\ PendAfter(pend, cnt, 1) = pend
        <5>1. \A k : ~Expires(0, k)
          BY DEF Expires
        <5> QED BY <3>2, <5>1 DEF CountAfter, PendAfter
      <4>2. 1 \in {1} \cup 1 .. AbsCnt /\ ~(AbsCnt > 0)
        BY <1>3, <3>2
      <4> QED BY <1>1, <1>3, <2>1, <4>1, <4>2
    <3> QED BY <3>0, <3>1, <3>2
  <2> QED BY <1>1, <1>3, <2>1, <2>3, <2>4, <2>5, RefIdle
<1> QED BY <1>4, <1>5

LEMMA SleepEndStep ==
    ASSUME LoopInv, LoopInv', SleepEnd
    PROVE  Ref!Next \/ UNCHANGED Ref!vars
<1>0. /\ StateIs /\ StateIs' /\ SleepInv /\ op \in {"run", "step"} /\ TypeOK
      /\ sleeping \in BOOLEAN /\ pend \in SUBSET {Timer, Button}
  BY StateHolds, StateHoldsAfter DEF LoopInv, TypeOK, ControlOK, MachineOK
<1>1. /\ phase = "slept" /\ phase' = "after" /\ sleeping' = (pend = {}) /\ ServiceOf(pend)
      /\ UNCHANGED <<prog, primask, cnt, lastCycles, lastStop, op, bps, range, forceResume>>
  BY DEF SleepEnd, pendingFlag, engine
<1>2. sleeping = TRUE /\ lastStop = "Sleep" /\ (lastCycles = 0 => pend # {})
  BY <1>0, <1>1 DEF SleepInv
<1>3. /\ AbsCnt = cnt /\ AbsPend = pend /\ AbsSleep = TRUE /\ AbsSleep' = sleeping'
      /\ UNCHANGED <<AbsCnt, AbsExempt>> /\ AbsPend' = pend'
  BY <1>1, <1>2, Apart, ApartAfter DEF Running
<1>4. DebugState # "stopped" /\ Stepped /\ DebugState' # "stopped"
  BY <1>0, <1>1, <1>2 DEF StateIs, Stepped, UserStop
<1>5. AbsRange' = AbsRange
  BY <1>1, <1>4 DEF AbsRange
<1>6. CASE CanTakeIt
  <2>1. PICK i \in {Timer, Button} :
                   /\ i \in AbsPend /\ AbsPend' = AbsPend \ {i}
                   /\ pc' = Handler /\ mode' = "handler" /\ saved' = pc
    BY <1>0, <1>1, <1>3, <1>6, ServiceIs
  <2>2. AbsSleep' \in {AbsSleep, FALSE}
    BY <1>1, <1>3
  <2> QED BY <1>1, <1>3, <1>4, <1>5, <1>6, <2>1, <2>2, RefTakeIrq
<1>7. CASE ~CanTakeIt /\ pend # {}
  <2>1. UNCHANGED <<AbsPend, pc, mode, saved>>
    BY <1>0, <1>1, <1>3, <1>7, ServiceIs
  <2>2. AbsSleep' = FALSE
    BY <1>1, <1>3, <1>7
  <2> QED BY <1>1, <1>3, <1>4, <1>5, <1>7, <2>1, <2>2, RefWake
<1>8. CASE pend = {}
  <2>0. ~CanTakeIt
    BY <1>3, <1>8 DEF CanTakeIt
  <2>1. UNCHANGED <<AbsPend, pc, mode, saved>>
    BY <1>0, <1>1, <1>3, <2>0, ServiceIs
  <2>2. AbsSleep' = TRUE
    BY <1>1, <1>3, <1>8
  <2>3. DebugState' = DebugState
    <3>1. lastCycles > 0
      BY <1>0, <1>2, <1>8, IntFacts
    <3> QED BY <1>0, <1>1, <1>2, <3>1 DEF StateIs, UserStop
  <2> QED BY <1>1, <1>3, <1>5, <2>1, <2>2, <2>3, RefStutter
<1> QED BY <1>6, <1>7, <1>8

\* What follows a chunk.
LEMMA AfterStepStep ==
    ASSUME LoopInv, LoopInv', AfterStep \/ AfterUserStop \/ NextChunk
    PROVE  Ref!Next \/ UNCHANGED Ref!vars
<1>0. StateIs /\ StateIs'
  BY StateHolds, StateHoldsAfter
<1>1. /\ phase = "after" /\ phase' \in {"stopped", "tick", "chunk"} /\ op' = op
      /\ UNCHANGED <<prog, pc, mode, saved, primask, pend, cnt, sleeping, bps, forceResume>>
  BY DEF AfterStep, AfterUserStop, NextChunk, Halt, core
<1>2. UNCHANGED <<AbsPend, AbsCnt, AbsSleep, AbsExempt>>
  BY <1>1, Apart, ApartAfter DEF Running
<1>3. CASE AfterStep
  <2>1. DebugState = "stepped" /\ DebugState' = "stopped"
    BY <1>0, <1>3 DEF AfterStep, Halt, StateIs
  <2>2. AbsRange' = {}
    BY <2>1 DEF AbsRange
  <2> QED BY <1>1, <1>2, <2>1, <2>2, RefStop
<1>4. CASE AfterUserStop
  <2>1. DebugState = "stopped" /\ DebugState' = "stopped"
    BY <1>0, <1>4 DEF AfterUserStop, Halt, StateIs
  <2>2. AbsRange' = AbsRange
    BY <2>1 DEF AbsRange
  <2> QED BY <1>1, <1>2, <2>1, <2>2, RefStutter
<1>5. CASE NextChunk
  <2>1. phase' \in {"tick", "chunk"} /\ op = "run" /\ ~UserStop /\ range' = range
    BY <1>5 DEF NextChunk
  <2>2. DebugState = "run" /\ DebugState' = "run"
    BY <1>0, <1>1, <2>1 DEF StateIs
  <2>3. AbsRange' = AbsRange
    BY <2>1, <2>2 DEF AbsRange
  <2> QED BY <1>1, <1>2, <2>2, <2>3, RefStutter
<1> QED BY <1>3, <1>4, <1>5

LEMMA NoStep ==
    ASSUME UNCHANGED vars
    PROVE  UNCHANGED Ref!vars
BY DEF vars, core, engine, Ref!vars, Ref!core, CountAfter, PendAfter, Expires, Lag, DebugState, InUserStop,
     UserStop, StepTaken

LEMMA RefInitial == Init => Ref!Init
<1> SUFFICES ASSUME Init PROVE Ref!Init
  OBVIOUS
<1>1. LoopInv /\ StateIs
  BY LoopInitial, StateHolds
<1>2. /\ prog \in Programs /\ pc = 0 /\ mode = "thread" /\ saved = 0 /\ primask = FALSE /\ pend = {}
      /\ cnt = Reload /\ sleeping = FALSE /\ phase = "stopped" /\ bps = {} /\ forceResume = FALSE
  BY DEF Init
<1>3. DebugState = "stopped" /\ AbsCnt = cnt /\ AbsPend = pend /\ AbsSleep = sleeping /\ AbsExempt = FALSE
      /\ AbsRange = {}
  BY <1>1, <1>2, Apart DEF StateIs, Running, AbsRange
<1> QED BY <1>2, <1>3, SameCore DEF Ref!Init, AbsCnt, AbsPend, AbsSleep, AbsExempt, AbsRange

LEMMA Simulation ==
    ASSUME LoopInv, LoopInv', [Next]_vars
    PROVE  [Ref!Next]_(Ref!vars)
BY UserStep, RunStep, InsnStep, EndStep, SleepTickStep, SleepEndStep, AfterStepStep, NoStep
   DEF Next, Work, User

(* Chunks, late ticks, idle skips and quanta are invisible, whatever the    *)
(* program, the chunk size, the quantum, the timer, the breakpoints and the *)
(* user: the run loop implements the core that takes one instruction and    *)
(* one timer cycle at a time, takes an interrupt before the next            *)
(* instruction and never passes a breakpoint it was not resumed at.         *)
THEOREM Refinement == Spec => Implements
<1>1. Init => Ref!Init
  BY RefInitial
<1>2. LoopInv /\ LoopInv' /\ [Next]_vars => [Ref!Next]_(Ref!vars)
  BY Simulation
<1> QED BY <1>1, <1>2, LoopAlways, PTL DEF Spec, Implements, Ref!Spec

=============================================================================
