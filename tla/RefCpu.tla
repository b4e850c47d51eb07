------------------------------- MODULE RefCpu -------------------------------
(***************************************************************************)
(* What the run loop promises: a core that takes one instruction at a time, *)
(* counts the timer every cycle, looks for an interrupt before every        *)
(* instruction, and stops before the instruction at a breakpoint.           *)
(***************************************************************************)
EXTENDS ToyCore

VARIABLES
  prog, pc, mode, saved, primask, pend, cnt, sleeping,
  dbg,     (* "run", "step", "stepped" or "stopped"                          *)
  bps,     (* breakpoint addresses                                           *)
  range,   (* addresses of a range step, {} without one                      *)
  exempt   (* the next instruction runs whatever its breakpoint              *)

core == <<prog, pc, mode, saved, primask, pend, cnt, sleeping>>
vars == <<core, dbg, bps, range, exempt>>

CanTake == pend # {} /\ mode = "thread" /\ ~primask

StopsHere == pc \in bps \/ (range # {} /\ pc \notin range)

Init ==
  /\ prog \in Programs
  /\ pc = 0 /\ mode = "thread" /\ saved = 0 /\ primask = FALSE
  /\ pend = {} /\ cnt = Reload /\ sleeping = FALSE
  /\ dbg = "stopped" /\ bps = {} /\ range = {} /\ exempt = FALSE

Resume ==
  /\ dbg = "stopped"
  /\ dbg' \in {"run", "step"}
  /\ exempt' = TRUE
  /\ range' \in IF dbg' = "run" THEN SUBSET Addresses ELSE {{}}
  /\ UNCHANGED <<core, bps>>

Exec ==
  LET kind == prog[pc] IN
  /\ dbg \in {"run", "step"} /\ ~sleeping /\ ~CanTake
  /\ ~exempt => ~StopsHere
  /\ pc' = IF kind = "ret" THEN saved ELSE Sequel(pc)
  /\ mode' = IF kind = "ret" THEN "thread" ELSE mode
  /\ primask' = CASE kind = "cpsid" -> TRUE [] kind = "cpsie" -> FALSE [] OTHER -> primask
  /\ pend' = PendAfter(pend, cnt, 1) \cup (IF kind = "pend" THEN {Button} ELSE {})
  /\ cnt' = IF kind = "arm" THEN Short ELSE CountAfter(cnt, 1)
  /\ sleeping' = (kind = "wfi" /\ pend = {})
  /\ exempt' = FALSE
  /\ dbg' = IF dbg = "step" THEN "stepped" ELSE dbg
  /\ UNCHANGED <<prog, saved, bps, range>>

(* A masked interrupt only ends the sleep.  An exemption left over from a   *)
(* resume during the sleep may survive the entry, and so may the sleep      *)
(* itself: see AwakeInHandler and BreakpointsHit of RunLoop.                *)
TakeIrq(i) ==
  /\ dbg # "stopped" /\ CanTake /\ i \in pend
  /\ pc' = Handler /\ mode' = "handler" /\ saved' = pc
  /\ pend' = pend \ {i}
  /\ sleeping' \in {sleeping, FALSE}
  /\ exempt' \in {exempt, FALSE}
  /\ dbg' = IF dbg = "step" THEN "stepped" ELSE dbg
  /\ UNCHANGED <<prog, primask, cnt, bps, range>>

Wake ==
  /\ dbg # "stopped" /\ sleeping /\ pend # {} /\ ~CanTake
  /\ sleeping' = FALSE
  /\ dbg' = IF dbg = "step" THEN "stepped" ELSE dbg
  /\ UNCHANGED <<prog, pc, mode, saved, primask, pend, cnt, bps, range, exempt>>

(* Asleep, time passes up to the next event.                                *)
Idle(n) ==
  /\ dbg \in {"run", "step"} /\ sleeping /\ pend = {}
  /\ cnt > 0 => n <= cnt
  /\ pend' = PendAfter(pend, cnt, n)
  /\ cnt' = CountAfter(cnt, n)
  /\ dbg' = IF dbg = "step" THEN "stepped" ELSE dbg
  /\ UNCHANGED <<prog, pc, mode, saved, primask, sleeping, bps, range, exempt>>

(* At a breakpoint or out of the range, after a step, or when asked to.     *)
Stop ==
  /\ dbg \in {"run", "stepped"}
  /\ dbg' = "stopped" /\ range' = {}
  /\ UNCHANGED <<core, bps, exempt>>

Press == pend' = pend \cup {Button} /\ UNCHANGED <<prog, pc, mode, saved, primask, cnt,
                                                  sleeping, dbg, bps, range, exempt>>

SetBreakpoints == bps' \in SUBSET Addresses /\ UNCHANGED <<core, dbg, range, exempt>>

Next ==
  \/ Resume \/ Exec \/ Wake \/ Stop \/ Press \/ SetBreakpoints
  \/ \E i \in {Timer, Button} : TakeIrq(i)
  \/ \E n \in {1} \cup 1 .. cnt : Idle(n)

Spec == Init /\ [][Next]_vars
=============================================================================
