------------------------------ MODULE ToyCore ------------------------------
(***************************************************************************)
(* A small instruction set for the run loop: just the instructions that     *)
(* change what the loop does next.  Thread code is a loop over addresses    *)
(* 0 .. Size - 1; the one interrupt handler is at Size and Size + 1.        *)
(***************************************************************************)
EXTENDS Integers

CONSTANTS
  Size,     (* thread instructions                                         *)
  Reload,   (* cycles the timer reloads on expiry, 0: it stops             *)
  Short,    (* cycles an "arm" instruction writes to the timer             *)
  ThreadKinds, HandlerKinds   (* what thread and handler code is made of    *)

(* nop; WFI; CPSID and CPSIE; a register write that rearms the timer; one   *)
(* that pends the other interrupt (ISPR).                                   *)
Kinds == {"nop", "wfi", "cpsid", "cpsie", "arm", "pend"}

ASSUME ToyCoreAssumption ==
  /\ Size \in Nat \ {0} /\ Reload \in Nat /\ Short \in Nat \ {0}
  /\ ThreadKinds \subseteq Kinds /\ HandlerKinds \subseteq Kinds

Handler   == Size
Addresses == 0 .. Size + 1

(* BX to EXC_RETURN ends the handler.                                       *)
Programs == {p \in [Addresses -> Kinds \cup {"ret"}] :
               /\ \A a \in 0 .. Size - 1 : p[a] \in ThreadKinds
               /\ p[Handler] \in HandlerKinds
               /\ p[Handler + 1] = "ret"}

Sequel(a) == IF a < Size THEN (a + 1) % Size ELSE a + 1

(* The interrupt of the timer and the one of the button or of ISPR.         *)
Timer  == "timer"
Button == "button"

(* The timer counts cnt cycles down to its event, 0: off.  After n cycles:  *)
Expires(cnt, n) == cnt > 0 /\ n >= cnt

CountAfter(cnt, n) ==
  CASE ~Expires(cnt, n)           -> IF cnt > 0 THEN cnt - n ELSE 0
    [] Expires(cnt, n) /\ Reload = 0 -> 0
    [] OTHER                      -> Reload - ((n - cnt) % Reload)

PendAfter(pend, cnt, n) == IF Expires(cnt, n) THEN pend \cup {Timer} ELSE pend
=============================================================================
