--------------------------- MODULE ExcFrameProofs ---------------------------
(***************************************************************************)
(* Proofs about ExcFrame.  What entry and return do depends on registers    *)
(* that Unicorn redirects or protects in some modes, and on frames that     *)
(* handlers and tasks must not have touched.  So the proofs come in layers: *)
(* what each register write does to MSP, PSP and CONTROL, what a store or a *)
(* pop does to the stacks, an invariant (Good) over all code that has       *)
(* started and is interrupted, parked or running, one lemma per operation   *)
(* that the invariant survives it, and the actions of ExcFrame as such      *)
(* operations.                                                              *)
(***************************************************************************)
EXTENDS ExcFrame, SequenceTheorems, TLAPS

-----------------------------------------------------------------------------
(* Unicorn's registers as firmware sees them.                               *)

(* A CPU with these registers, whatever their values.                       *)
IsCpu(c) ==
  c = [sp |-> c.sp, other |-> c.other, spsel |-> c.spsel, npriv |-> c.npriv,
       fpca |-> c.fpca, ipsr |-> c.ipsr, lr |-> c.lr, core |-> c.core,
       s |-> c.s, fpscr |-> c.fpscr]

(* The register file as firmware reads it, MSP and PSP wherever Unicorn     *)
(* keeps them.                                                              *)
Regs(c, msp, psp, spsel, npriv, fpca, ipsr, lr, core, s, fpscr) ==
  /\ IsCpu(c)
  /\ Msp(c) = msp /\ Psp(c) = psp /\ c.spsel = spsel /\ c.npriv = npriv /\ c.fpca = fpca
  /\ c.ipsr = ipsr /\ c.lr = lr /\ c.core = core /\ c.s = s /\ c.fpscr = fpscr

LEMMA RegsOf ==
  ASSUME NEW c, IsCpu(c)
  PROVE  Regs(c, Msp(c), Psp(c), c.spsel, c.npriv, c.fpca, c.ipsr, c.lr, c.core, c.s, c.fpscr)
BY DEF Regs

(* Where Unicorn keeps the two stack pointers.                              *)
LEMMA RegsSp ==
  ASSUME NEW c, NEW m, NEW p, NEW sel, NEW n, NEW f, NEW i, NEW l, NEW o, NEW s, NEW v,
         Regs(c, m, p, sel, n, f, i, l, o, s, v)
  PROVE  /\ c.sp = (IF i = 0 /\ sel = 1 THEN p ELSE m)
         /\ c.other = (IF i = 0 /\ sel = 1 THEN m ELSE p)
BY DEF Regs, Msp, Psp, UsesPsp

(* Writes of one plain register.                                            *)
LEMMA RegsExcept ==
  ASSUME NEW c, NEW m, NEW p, NEW sel, NEW n, NEW f, NEW i, NEW l, NEW o, NEW s, NEW v, NEW w,
         Regs(c, m, p, sel, n, f, i, l, o, s, v)
  PROVE  /\ Regs([c EXCEPT !.npriv = w], m, p, sel, w, f, i, l, o, s, v)
         /\ Regs([c EXCEPT !.fpca = w], m, p, sel, n, w, i, l, o, s, v)
         /\ Regs([c EXCEPT !.lr = w], m, p, sel, n, f, i, w, o, s, v)
         /\ Regs([c EXCEPT !.core = w], m, p, sel, n, f, i, l, w, s, v)
         /\ Regs([c EXCEPT !.s = w], m, p, sel, n, f, i, l, o, w, v)
         /\ Regs([c EXCEPT !.fpscr = w], m, p, sel, n, f, i, l, o, s, w)
<1>1. Regs([c EXCEPT !.npriv = w], m, p, sel, w, f, i, l, o, s, v)
  BY DEF Regs, IsCpu, Msp, Psp, UsesPsp
<1>2. Regs([c EXCEPT !.fpca = w], m, p, sel, n, w, i, l, o, s, v)
  BY DEF Regs, IsCpu, Msp, Psp, UsesPsp
<1>3. Regs([c EXCEPT !.lr = w], m, p, sel, n, f, i, w, o, s, v)
  BY DEF Regs, IsCpu, Msp, Psp, UsesPsp
<1>4. Regs([c EXCEPT !.core = w], m, p, sel, n, f, i, l, w, s, v)
  BY DEF Regs, IsCpu, Msp, Psp, UsesPsp
<1>5. Regs([c EXCEPT !.s = w], m, p, sel, n, f, i, l, o, w, v)
  BY DEF Regs, IsCpu, Msp, Psp, UsesPsp
<1>6. Regs([c EXCEPT !.fpscr = w], m, p, sel, n, f, i, l, o, s, w)
  BY DEF Regs, IsCpu, Msp, Psp, UsesPsp
<1> QED BY <1>1, <1>2, <1>3, <1>4, <1>5, <1>6

(* Rebanking keeps both stack pointers when only the mode or SPSEL changed. *)
LEMMA RebankRegs ==
  ASSUME NEW c, NEW d, IsCpu(d), d.sp = c.sp, d.other = c.other
  PROVE  Regs(Rebank(c, d), Msp(c), Psp(c), d.spsel, d.npriv, d.fpca, d.ipsr, d.lr, d.core,
              d.s, d.fpscr)
<1>1. CASE UsesPsp(c) = UsesPsp(d)
  <2>1. Rebank(c, d) = d
    BY <1>1 DEF Rebank
  <2> QED BY <1>1, <2>1 DEF Regs, Msp, Psp
<1>2. CASE UsesPsp(c) # UsesPsp(d)
  <2> DEFINE x == [d EXCEPT !.sp = c.other]
             y == [x EXCEPT !.other = c.sp]
  <2>1. Rebank(c, d) = y
    BY <1>2 DEF Rebank
  <2>2. /\ IsCpu(x) /\ x.sp = c.other /\ x.spsel = d.spsel /\ x.npriv = d.npriv /\ x.fpca = d.fpca
        /\ x.ipsr = d.ipsr /\ x.lr = d.lr /\ x.core = d.core /\ x.s = d.s /\ x.fpscr = d.fpscr
    BY DEF IsCpu
  <2> HIDE DEF x
  <2>3. /\ IsCpu(y) /\ y.sp = c.other /\ y.other = c.sp /\ y.spsel = d.spsel /\ y.npriv = d.npriv
        /\ y.fpca = d.fpca /\ y.ipsr = d.ipsr /\ y.lr = d.lr /\ y.core = d.core /\ y.s = d.s
        /\ y.fpscr = d.fpscr
    BY <2>2 DEF IsCpu
  <2> HIDE DEF y
  <2>4. UsesPsp(y) = UsesPsp(d)
    BY <2>3 DEF UsesPsp
  <2>5. UsesPsp(c) \in BOOLEAN /\ UsesPsp(d) \in BOOLEAN
    BY DEF UsesPsp
  <2>6. Msp(y) = Msp(c) /\ Psp(y) = Psp(c)
    BY <1>2, <2>3, <2>4, <2>5 DEF Msp, Psp
  <2> QED BY <2>1, <2>3, <2>6 DEF Regs
<1> QED BY <1>1, <1>2

(* A change of mode moves neither stack pointer.                            *)
LEMMA SetXpsrRegs ==
  ASSUME NEW c, NEW m, NEW p, NEW sel, NEW n, NEW f, NEW i, NEW l, NEW o, NEW s, NEW v, NEW w,
         Regs(c, m, p, sel, n, f, i, l, o, s, v)
  PROVE  Regs(SetXpsr(c, w), m, p, sel, n, f, w, l, o, s, v)
<1> DEFINE d == [c EXCEPT !.ipsr = w]
<1>1. /\ IsCpu(d) /\ d.sp = c.sp /\ d.other = c.other /\ d.spsel = sel /\ d.npriv = n
      /\ d.fpca = f /\ d.ipsr = w /\ d.lr = l /\ d.core = o /\ d.s = s /\ d.fpscr = v
      /\ Msp(c) = m /\ Psp(c) = p
  BY DEF Regs, IsCpu
<1>2. SetXpsr(c, w) = Rebank(c, d)
  BY DEF SetXpsr
<1> HIDE DEF d
<1>3. Regs(Rebank(c, d), Msp(c), Psp(c), d.spsel, d.npriv, d.fpca, d.ipsr, d.lr, d.core, d.s, d.fpscr)
  BY <1>1, RebankRegs
<1> QED BY <1>1, <1>2, <1>3

(* A CONTROL write takes effect unless the code is unprivileged; SPSEL only *)
(* in thread mode.                                                          *)
LEMMA SetControlRegs ==
  ASSUME NEW c, NEW m, NEW p, NEW sel, NEW n, NEW f, NEW i, NEW l, NEW o, NEW s, NEW v,
         NEW n2, NEW sel2, NEW f2, Regs(c, m, p, sel, n, f, i, l, o, s, v), ~(i = 0 /\ n = 1)
  PROVE  Regs(SetControl(c, n2, sel2, f2), m, p, IF i = 0 THEN sel2 ELSE sel, n2, f2, i, l, o, s, v)
<1> DEFINE sel3 == IF c.ipsr = 0 THEN sel2 ELSE c.spsel
           d1   == [c EXCEPT !.npriv = n2]
           d2   == [d1 EXCEPT !.fpca = f2]
           d3   == [d2 EXCEPT !.spsel = sel3]
<1>1. SetControl(c, n2, sel2, f2) = Rebank(c, d3)
  <2>1. ~Unprivileged(c)
    BY DEF Unprivileged, Regs
  <2> QED BY <2>1 DEF SetControl
<1>2. sel3 = IF i = 0 THEN sel2 ELSE sel
  BY DEF Regs
<1> HIDE DEF sel3
<1>3. Regs(d1, m, p, sel, n2, f, i, l, o, s, v) /\ d1.sp = c.sp /\ d1.other = c.other
  <2>1. Regs(d1, m, p, sel, n2, f, i, l, o, s, v)
    BY RegsExcept
  <2> QED BY <2>1, RegsSp
<1> HIDE DEF d1
<1>4. Regs(d2, m, p, sel, n2, f2, i, l, o, s, v) /\ d2.sp = c.sp /\ d2.other = c.other
  <2>1. Regs(d2, m, p, sel, n2, f2, i, l, o, s, v)
    BY <1>3, RegsExcept
  <2> QED BY <1>3, <2>1, RegsSp
<1> HIDE DEF d2
<1>5. /\ IsCpu(d3) /\ d3.sp = c.sp /\ d3.other = c.other /\ d3.spsel = sel3 /\ d3.npriv = n2
      /\ d3.fpca = f2 /\ d3.ipsr = i /\ d3.lr = l /\ d3.core = o /\ d3.s = s /\ d3.fpscr = v
  <2>1. IsCpu(d2) /\ d2.npriv = n2 /\ d2.fpca = f2 /\ d2.ipsr = i /\ d2.lr = l /\ d2.core = o
        /\ d2.s = s /\ d2.fpscr = v
    BY <1>4 DEF Regs
  <2> QED BY <1>4, <2>1 DEF IsCpu
<1> HIDE DEF d3
<1>6. Regs(Rebank(c, d3), Msp(c), Psp(c), d3.spsel, d3.npriv, d3.fpca, d3.ipsr, d3.lr, d3.core,
           d3.s, d3.fpscr)
  BY <1>5, RebankRegs
<1>7. Msp(c) = m /\ Psp(c) = p
  BY DEF Regs
<1> QED BY <1>1, <1>2, <1>5, <1>6, <1>7

(* Writes of MSP and PSP reach the right bank in both modes.                *)
LEMMA SetMspRegs ==
  ASSUME NEW c, NEW m, NEW p, NEW sel, NEW n, NEW f, NEW i, NEW l, NEW o, NEW s, NEW v, NEW w,
         Regs(c, m, p, sel, n, f, i, l, o, s, v), ~(i = 0 /\ n = 1)
  PROVE  Regs(SetMsp(c, w), w, p, sel, n, f, i, l, o, s, v)
<1>1. ~Unprivileged(c)
  BY DEF Unprivileged, Regs
<1>2. CASE UsesPsp(c)
  <2> DEFINE d == [c EXCEPT !.other = w]
  <2>1. SetMsp(c, w) = d
    BY <1>1, <1>2 DEF SetMsp
  <2> QED BY <1>2, <2>1 DEF Regs, IsCpu, Msp, Psp, UsesPsp
<1>3. CASE ~UsesPsp(c)
  <2> DEFINE d == [c EXCEPT !.sp = w]
  <2>1. SetMsp(c, w) = d
    BY <1>1, <1>3 DEF SetMsp
  <2> QED BY <1>3, <2>1 DEF Regs, IsCpu, Msp, Psp, UsesPsp
<1> QED BY <1>2, <1>3

LEMMA SetPspRegs ==
  ASSUME NEW c, NEW m, NEW p, NEW sel, NEW n, NEW f, NEW i, NEW l, NEW o, NEW s, NEW v, NEW w,
         Regs(c, m, p, sel, n, f, i, l, o, s, v), ~(i = 0 /\ n = 1)
  PROVE  Regs(SetPsp(c, w), m, w, sel, n, f, i, l, o, s, v)
<1>1. ~Unprivileged(c)
  BY DEF Unprivileged, Regs
<1>2. CASE UsesPsp(c)
  <2> DEFINE d == [c EXCEPT !.sp = w]
  <2>1. SetPsp(c, w) = d
    BY <1>1, <1>2 DEF SetPsp
  <2> QED BY <1>2, <2>1 DEF Regs, IsCpu, Msp, Psp, UsesPsp
<1>3. CASE ~UsesPsp(c)
  <2> DEFINE d == [c EXCEPT !.other = w]
  <2>1. SetPsp(c, w) = d
    BY <1>1, <1>3 DEF SetPsp
  <2> QED BY <1>3, <2>1 DEF Regs, IsCpu, Msp, Psp, UsesPsp
<1> QED BY <1>2, <1>3

(* setNPriv() succeeds in every mode, thanks to the detour.                 *)
LEMMA SetNPrivRegs ==
  ASSUME NEW c, NEW m, NEW p, NEW sel, NEW n \in {0, 1}, NEW f, NEW i, NEW l, NEW o, NEW s, NEW v,
         NEW on \in {0, 1}, Regs(c, m, p, sel, n, f, i, l, o, s, v)
  PROVE  Regs(SetNPriv(c, on), m, p, sel, on, f, i, l, o, s, v)
<1>0. c.npriv = n /\ c.ipsr = i /\ c.spsel = sel /\ c.fpca = f
  BY DEF Regs
<1>1. CASE n = on
  <2>1. SetNPriv(c, on) = c
    BY <1>0, <1>1 DEF SetNPriv
  <2> QED BY <1>1, <2>1
<1>2. CASE n # on /\ on = 0 /\ i = 0
  <2> DEFINE x == SetXpsr(c, 3)
             y == SetControl(x, 0, sel, f)
  <2>1. SetNPriv(c, on) = SetXpsr(y, 0)
    BY <1>0, <1>2 DEF SetNPriv
  <2>2. Regs(x, m, p, sel, n, f, 3, l, o, s, v)
    BY SetXpsrRegs
  <2> HIDE DEF x
  <2>3. Regs(y, m, p, IF 3 = 0 THEN sel ELSE sel, 0, f, 3, l, o, s, v)
    BY <2>2, SetControlRegs
  <2> HIDE DEF y
  <2>4. Regs(SetXpsr(y, 0), m, p, sel, 0, f, 0, l, o, s, v)
    BY <2>3, SetXpsrRegs
  <2> QED BY <1>2, <2>1, <2>4
<1>3. CASE n # on /\ ~(on = 0 /\ i = 0)
  <2>1. SetNPriv(c, on) = SetControl(c, on, sel, f)
    BY <1>0, <1>3 DEF SetNPriv
  <2>2. ~(i = 0 /\ n = 1)
    BY <1>3
  <2>3. Regs(SetControl(c, on, sel, f), m, p, IF i = 0 THEN sel ELSE sel, on, f, i, l, o, s, v)
    BY <2>2, SetControlRegs
  <2> QED BY <2>1, <2>3
<1> QED BY <1>1, <1>2, <1>3

(* Entry and return put nPRIV back.                                         *)
LEMMA RestoreNPrivRegs ==
  ASSUME NEW c, NEW m, NEW p, NEW sel, NEW f, NEW i, NEW l, NEW o, NEW s, NEW v,
         NEW n \in {0, 1}, Regs(c, m, p, sel, 0, f, i, l, o, s, v)
  PROVE  Regs(RestoreNPriv(c, n), m, p, sel, n, f, i, l, o, s, v)
<1>1. Regs(SetNPriv(c, 1), m, p, sel, 1, f, i, l, o, s, v)
  BY SetNPrivRegs
<1> QED BY <1>1 DEF RestoreNPriv

(* The frame of an exception, at the active stack pointer.                  *)
LEMMA EntryFrameRegs ==
  ASSUME NEW c, NEW m, NEW p, NEW sel, NEW n, NEW f, NEW i, NEW l, NEW o, NEW s, NEW v,
         Regs(c, m, p, sel, n, f, i, l, o, s, v)
  PROVE  EntryFrame(c) = LET sp == IF i = 0 /\ sel = 1 THEN p ELSE m IN
                         sp - (sp % 2) - FrameSize(f)
BY DEF Regs, EntryFrame, UsesPsp

(* enterException() ends in the handler on MSP, with nPRIV as it found it,  *)
(* EXC_RETURN in LR and the interrupted stack pointer below the frame.      *)
LEMMA EnteredRegs ==
  ASSUME NEW c, NEW m, NEW p, NEW sel, NEW n \in {0, 1}, NEW f, NEW i, NEW l, NEW o, NEW s, NEW v,
         NEW e, Regs(c, m, p, sel, n, f, i, l, o, s, v)
  PROVE  LET onPsp == i = 0 /\ sel = 1 IN
         Regs(Entered(c, e), IF onPsp THEN m ELSE EntryFrame(c), IF onPsp THEN EntryFrame(c) ELSE p,
              IF i = 0 THEN 0 ELSE sel, n, IF fpdscr # 0 THEN 1 ELSE 0, e, ExcReturnFor(c), o, s,
              IF fpdscr # 0 THEN fpdscr ELSE v)
<1> DEFINE c1  == SetNPriv(c, 0)
           msp == IF UsesPsp(c) THEN Msp(c1) ELSE EntryFrame(c1)
           psp == IF UsesPsp(c) THEN EntryFrame(c1) ELSE Psp(c1)
           h   == HandlerControl(c1)
           g   == SetMsp(h, msp)
           c2  == SetPsp(g, psp)
           xr  == ExcReturnFor(c)
           b   == [c2 EXCEPT !.lr = xr]
           c3  == SetXpsr(b, e)
           sel2 == IF i = 0 THEN 0 ELSE sel
           f2  == IF fpdscr # 0 THEN 1 ELSE 0
           v2  == IF fpdscr # 0 THEN fpdscr ELSE v
<1>1. Entered(c, e) = RestoreNPriv(c3, n)
  BY DEF Entered, Regs
<1>2. Regs(c1, m, p, sel, 0, f, i, l, o, s, v)
  BY SetNPrivRegs
<1> HIDE DEF c1
<1>3. Regs(h, m, p, sel2, 0, f2, i, l, o, s, v2)
  <2> DEFINE d == [c1 EXCEPT !.fpscr = fpdscr]
  <2>1. Regs(d, m, p, sel, 0, f, i, l, o, s, fpdscr)
    BY <1>2, RegsExcept
  <2>2. h = IF fpdscr # 0 THEN SetControl(d, 0, 0, 1) ELSE SetControl(c1, 0, 0, 0)
    BY DEF HandlerControl
  <2> HIDE DEF d, h
  <2>3. Regs(SetControl(d, 0, 0, 1), m, p, IF i = 0 THEN 0 ELSE sel, 0, 1, i, l, o, s, fpdscr)
    BY <2>1, SetControlRegs
  <2>4. Regs(SetControl(c1, 0, 0, 0), m, p, IF i = 0 THEN 0 ELSE sel, 0, 0, i, l, o, s, v)
    BY <1>2, SetControlRegs
  <2> QED BY <2>2, <2>3, <2>4
<1>4. EntryFrame(c1) = EntryFrame(c)
  BY <1>2, EntryFrameRegs
<1>5. UsesPsp(c) = (i = 0 /\ sel = 1) /\ Msp(c1) = m /\ Psp(c1) = p
  BY <1>2 DEF Regs, UsesPsp
<1>6. /\ msp = (IF i = 0 /\ sel = 1 THEN m ELSE EntryFrame(c))
      /\ psp = (IF i = 0 /\ sel = 1 THEN EntryFrame(c) ELSE p)
  BY <1>4, <1>5
<1> HIDE DEF h, msp, psp, sel2, f2, v2, xr
<1>7. Regs(g, msp, p, sel2, 0, f2, i, l, o, s, v2)
  BY <1>3, SetMspRegs
<1> HIDE DEF g
<1>8. Regs(c2, msp, psp, sel2, 0, f2, i, l, o, s, v2)
  BY <1>7, SetPspRegs
<1> HIDE DEF c2
<1>9. Regs(b, msp, psp, sel2, 0, f2, i, xr, o, s, v2)
  BY <1>8, RegsExcept
<1> HIDE DEF b
<1>10. Regs(c3, msp, psp, sel2, 0, f2, e, xr, o, s, v2)
  BY <1>9, SetXpsrRegs
<1> HIDE DEF c3
<1>11. Regs(Entered(c, e), msp, psp, sel2, n, f2, e, xr, o, s, v2)
  BY <1>1, <1>10, RestoreNPrivRegs
<1> QED BY <1>6, <1>11 DEF sel2, f2, v2, xr

(* exitException() loads the frame and puts nPRIV back.                     *)
LEMMA ReturnedRegs ==
  ASSUME NEW m, NEW p, NEW sel, NEW n \in {0, 1}, NEW f, NEW i, NEW l, NEW o, NEW s, NEW v,
         NEW exc, Regs(cpu, m, p, sel, n, f, i, l, o, s, v), i # 0
  PROVE  LET r == FrameAt(ReturnFrame(exc)) IN
         Regs(Returned(exc), IF IsToPsp(exc) THEN m ELSE ReturnTop(exc),
              IF IsToPsp(exc) THEN ReturnTop(exc) ELSE p,
              IF IsToPsp(exc) /\ r.ipsr = 0 THEN 1 ELSE sel, n, FpBit(exc), r.ipsr, r.lr, r.core,
              IF HasFp(exc) THEN r.s ELSE s, IF HasFp(exc) THEN r.fpscr ELSE v)
<1> DEFINE r   == FrameAt(ReturnFrame(exc))
           msp == IF IsToPsp(exc) THEN Msp(cpu) ELSE ReturnTop(exc)
           psp == IF IsToPsp(exc) THEN ReturnTop(exc) ELSE Psp(cpu)
           a   == [cpu EXCEPT !.s = r.s]
           c1  == IF HasFp(exc) THEN [a EXCEPT !.fpscr = r.fpscr] ELSE cpu
           s1  == IF HasFp(exc) THEN r.s ELSE s
           v1  == IF HasFp(exc) THEN r.fpscr ELSE v
           f1  == FpBit(exc)
           c2  == SetControl(c1, 0, c1.spsel, f1)
           b1  == [c2 EXCEPT !.core = r.core]
           b   == [b1 EXCEPT !.lr = r.lr]
           c3  == ReturnMode(b, r.ipsr, IsToPsp(exc))
           g   == SetMsp(c3, msp)
           c4  == SetPsp(g, psp)
           sel2 == IF IsToPsp(exc) /\ r.ipsr = 0 THEN 1 ELSE sel
<1>1. Returned(exc) = RestoreNPriv(c4, n)
  BY DEF Returned, Regs
<1>2. Regs(a, m, p, sel, n, f, i, l, o, r.s, v)
  BY RegsExcept
<1> HIDE DEF a
<1>3. Regs([a EXCEPT !.fpscr = r.fpscr], m, p, sel, n, f, i, l, o, r.s, r.fpscr)
  BY <1>2, RegsExcept
<1>4. Regs(c1, m, p, sel, n, f, i, l, o, s1, v1)
  BY <1>3
<1> HIDE DEF c1, s1, v1, f1
<1>5. Regs(c2, m, p, sel, 0, f1, i, l, o, s1, v1)
  <2>1. c1.spsel = sel
    BY <1>4 DEF Regs
  <2>2. Regs(c2, m, p, IF i = 0 THEN c1.spsel ELSE sel, 0, f1, i, l, o, s1, v1)
    BY <1>4, SetControlRegs
  <2> QED BY <2>1, <2>2
<1> HIDE DEF c2
<1>6. Regs(b1, m, p, sel, 0, f1, i, l, r.core, s1, v1)
  BY <1>5, RegsExcept
<1> HIDE DEF b1
<1>7. Regs(b, m, p, sel, 0, f1, i, r.lr, r.core, s1, v1)
  BY <1>6, RegsExcept
<1> HIDE DEF b, r
<1>8. Regs(c3, m, p, sel2, 0, f1, r.ipsr, r.lr, r.core, s1, v1)
  <2> DEFINE d == SetXpsr(b, r.ipsr)
  <2>1. Regs(d, m, p, sel, 0, f1, r.ipsr, r.lr, r.core, s1, v1)
    BY <1>7, SetXpsrRegs
  <2>2. c3 = IF IsToPsp(exc) THEN SetControl(d, d.npriv, 1, d.fpca) ELSE d
    BY DEF ReturnMode
  <2>3. d.npriv = 0 /\ d.fpca = f1
    BY <2>1 DEF Regs
  <2> HIDE DEF c3, d
  <2>4. Regs(SetControl(d, 0, 1, f1), m, p, IF r.ipsr = 0 THEN 1 ELSE sel, 0, f1, r.ipsr, r.lr, r.core, s1, v1)
    BY <2>1, SetControlRegs
  <2> QED BY <2>1, <2>2, <2>3, <2>4
<1> HIDE DEF c3
<1>9. /\ msp = (IF IsToPsp(exc) THEN m ELSE ReturnTop(exc))
      /\ psp = (IF IsToPsp(exc) THEN ReturnTop(exc) ELSE p)
  BY DEF Regs
<1> HIDE DEF msp, psp, sel2
<1>10. Regs(g, msp, p, sel2, 0, f1, r.ipsr, r.lr, r.core, s1, v1)
  BY <1>8, SetMspRegs
<1> HIDE DEF g
<1>11. Regs(c4, msp, psp, sel2, 0, f1, r.ipsr, r.lr, r.core, s1, v1)
  BY <1>10, SetPspRegs
<1> HIDE DEF c4
<1>12. Regs(Returned(exc), msp, psp, sel2, n, f1, r.ipsr, r.lr, r.core, s1, v1)
  BY <1>1, <1>11, RestoreNPrivRegs
<1> QED BY <1>9, <1>12 DEF sel2, f1, s1, v1, r

(* applyResetCpu() starts main() privileged and on MSP, whatever the old    *)
(* run left.                                                                *)
LEMMA ResetCpuRegs ==
  ASSUME NEW c, NEW m, NEW p, NEW sel, NEW n \in {0, 1}, NEW f, NEW i, NEW l, NEW o, NEW s, NEW v,
         Regs(c, m, p, sel, n, f, i, l, o, s, v)
  PROVE  Regs(ResetCpu(c), Top(0), Top(0), 0, 0, 0, 0, BootLr, 0, s, v)
<1> DEFINE b  == SetNPriv(c, 0)
           c1 == SetXpsr(b, 0)
           k  == SetControl(c1, 0, 0, 0)
           g  == SetMsp(k, Top(0))
           c2 == SetPsp(g, Top(0))
           d  == [c2 EXCEPT !.lr = BootLr]
<1>1. ResetCpu(c) = [d EXCEPT !.core = 0]
  BY DEF ResetCpu
<1>2. Regs(b, m, p, sel, 0, f, i, l, o, s, v)
  BY SetNPrivRegs
<1> HIDE DEF b
<1>3. Regs(c1, m, p, sel, 0, f, 0, l, o, s, v)
  BY <1>2, SetXpsrRegs
<1> HIDE DEF c1
<1>4. Regs(k, m, p, 0, 0, 0, 0, l, o, s, v)
  <2>1. Regs(k, m, p, IF 0 = 0 THEN 0 ELSE sel, 0, 0, 0, l, o, s, v)
    BY <1>3, SetControlRegs
  <2> QED BY <2>1
<1> HIDE DEF k
<1>5. Regs(g, Top(0), p, 0, 0, 0, 0, l, o, s, v)
  BY <1>4, SetMspRegs
<1> HIDE DEF g
<1>6. Regs(c2, Top(0), Top(0), 0, 0, 0, 0, l, o, s, v)
  BY <1>5, SetPspRegs
<1> HIDE DEF c2
<1>7. Regs(d, Top(0), Top(0), 0, 0, 0, 0, BootLr, o, s, v)
  BY <1>6, RegsExcept
<1> HIDE DEF d
<1>8. Regs([d EXCEPT !.core = 0], Top(0), Top(0), 0, 0, 0, 0, BootLr, 0, s, v)
  BY <1>7, RegsExcept
<1> QED BY <1>1, <1>8

(* A floating-point instruction without a context clears FPSCR.             *)
LEMMA WithFpContextRegs ==
  ASSUME NEW c, NEW m, NEW p, NEW sel, NEW n, NEW f, NEW i, NEW l, NEW o, NEW s, NEW v,
         Regs(c, m, p, sel, n, f, i, l, o, s, v)
  PROVE  Regs(WithFpContext(c), m, p, sel, n, 1, i, l, o, s, IF f = 1 THEN v ELSE 0)
<1> DEFINE a == [c EXCEPT !.fpca = 1]
           b == [a EXCEPT !.fpscr = 0]
<1>1. Regs(a, m, p, sel, n, 1, i, l, o, s, v)
  BY RegsExcept
<1>2. WithFpContext(c) = IF f = 1 THEN c ELSE b
  BY DEF WithFpContext, Regs
<1> HIDE DEF a
<1>3. Regs(b, m, p, sel, n, 1, i, l, o, s, 0)
  BY <1>1, RegsExcept
<1> HIDE DEF b
<1> QED BY <1>2, <1>3

-----------------------------------------------------------------------------
(* The stacks in the address space.                                         *)

(* The stack of main() and handlers, and one for each task.                 *)
Stacks == Tasks \cup {0}

(* The addresses of a stack.                                                *)
Within(b, t) == Top(t) - StackSize < b /\ b <= Top(t)

(* The assumption on the constants, in the form the proofs use.             *)
LEMMA StackFacts ==
  /\ StackSize \in Nat /\ StackSize >= 28 * (Depth + 1) /\ Depth \in Nat /\ Depth >= 1
  /\ StackSize >= 56 /\ Stacks \subseteq Nat /\ 0 \in Stacks /\ NoTask \notin Stacks
  /\ 0 \notin Tasks /\ Tasks \subseteq Stacks
BY ExcFrameAssumption DEF Stacks, NoTask

LEMMA Multiples ==
  ASSUME NEW n \in Nat, NEW x \in Int, NEW y \in Int, x <= y
  PROVE  n * x <= n * y
<1>1. n * y - n * x = n * (y - x)
  OBVIOUS
<1>2. \A a, b \in Nat : a * b \in Nat
  OBVIOUS
<1>3. n * (y - x) \in Nat
  BY <1>2
<1>4. n * x \in Int /\ n * y \in Int
  OBVIOUS
<1>5. \A a, b \in Int : b - a \in Nat => a <= b
  OBVIOUS
<1> QED BY <1>1, <1>3, <1>4, <1>5

(* Stacks are aligned, and do not overlap.                                  *)
LEMMA TopType ==
  ASSUME NEW t \in Stacks
  PROVE  /\ Top(t) \in Nat /\ Top(t) >= StackSize /\ Top(t) % 2 = 0
         /\ Top(t) - StackSize = StackSize * t
<1>1. t \in Nat /\ StackSize \in Nat
  BY StackFacts
<1>2. Top(t) = StackSize * t + StackSize /\ StackSize * t \in Nat
  <2>1. \A a, b \in Nat : a * b \in Nat /\ a * (b + 1) = a * b + a
    OBVIOUS
  <2> QED BY <1>1, <2>1 DEF Top
<1>3. PICK k \in Nat : StackSize = 2 * k
  <2>1. StackSize % 2 = 0
    BY ExcFrameAssumption
  <2>2. StackSize \div 2 \in Nat /\ StackSize = 2 * (StackSize \div 2)
    BY <1>1, <2>1
  <2> QED BY <2>2
<1>4. k * t \in Nat /\ StackSize * t = 2 * (k * t)
  <2>1. \A a, b \in Nat : a * b \in Nat /\ (2 * a) * b = 2 * (a * b)
    OBVIOUS
  <2> QED BY <1>1, <1>3, <2>1
<1>5. Top(t) = 2 * (k * t + k) /\ k * t + k \in Nat
  BY <1>2, <1>3, <1>4
<1>6. \A a \in Nat : (2 * a) % 2 = 0
  OBVIOUS
<1>7. Top(t) % 2 = 0
  BY <1>5, <1>6
<1> QED BY <1>1, <1>2, <1>7

LEMMA Spacing ==
  ASSUME NEW t \in Stacks, NEW u \in Stacks, t < u
  PROVE  Top(t) <= Top(u) - StackSize
<1>1. t + 1 <= u /\ t + 1 \in Int /\ u \in Int /\ StackSize \in Nat
  BY StackFacts
<1>2. StackSize * (t + 1) <= StackSize * u
  BY <1>1, Multiples
<1> QED BY <1>2, TopType DEF Top

(* StackOf names the stack that holds an address.                           *)
LEMMA StackIs ==
  ASSUME NEW t \in Stacks, NEW b \in Int, Within(b, t)
  PROVE  StackOf(b) = t
<1>1. t \in Nat /\ StackSize \in Nat /\ StackSize > 0
  BY StackFacts
<1> DEFINE q == (b - 1) \div StackSize
           r == (b - 1) % StackSize
<1>2. q \in Int /\ r \in Int /\ 0 <= r /\ r < StackSize /\ b - 1 = StackSize * q + r
  <2>1. \A x \in Int, n \in Nat \ {0} : /\ x \div n \in Int /\ x % n \in 0 .. (n - 1)
                                       /\ x = n * (x \div n) + (x % n)
    OBVIOUS
  <2> QED BY <1>1, <2>1
<1>3. StackSize * t <= b - 1 /\ b - 1 < StackSize * t + StackSize
  <2> DEFINE top == Top(t)
             low == StackSize * t
  <2>1. top \in Nat /\ top - StackSize = low /\ top - StackSize < b /\ b <= top
    BY TopType DEF Within
  <2>2. low \in Int
    BY <1>1
  <2> HIDE DEF top, low
  <2>3. low <= b - 1 /\ b - 1 < low + StackSize
    BY <1>1, <2>1, <2>2
  <2> QED BY <2>3 DEF low
<1> HIDE DEF q, r
<1>4. StackSize * t \in Int /\ StackSize * q \in Int
  BY <1>1, <1>2
<1>5. ~(q < t)
  <2> SUFFICES ASSUME q < t PROVE FALSE
    OBVIOUS
  <2>1. StackSize * (q + 1) <= StackSize * t
    BY <1>1, <1>2, Multiples
  <2>2. StackSize * (q + 1) = StackSize * q + StackSize
    BY <1>1, <1>2
  <2> QED BY <1>1, <1>2, <1>3, <1>4, <2>1, <2>2
<1>6. ~(t < q)
  <2> SUFFICES ASSUME t < q PROVE FALSE
    OBVIOUS
  <2>1. StackSize * (t + 1) <= StackSize * q
    BY <1>1, <1>2, Multiples
  <2>2. StackSize * (t + 1) = StackSize * t + StackSize
    BY <1>1, <1>2
  <2> QED BY <1>1, <1>2, <1>3, <1>4, <2>1, <2>2
<1>7. q = t
  BY <1>1, <1>2, <1>5, <1>6
<1> QED BY <1>7 DEF StackOf, q

-----------------------------------------------------------------------------
(* Stack memory and the frames on it.                                       *)

(* What LR holds.                                                           *)
Lrs == ExcReturns \cup {BootLr, CallLr}

(* Stack memory: every entry lies inside one stack.                         *)
MemOk(m) ==
  \A b \in DOMAIN m :
    /\ b \in Int /\ m[b].size \in Nat \ {0}
    /\ m[b].kind = "word" => m[b].lr \in Lrs
    /\ \E t \in Stacks : Top(t) - StackSize < b /\ b + m[b].size <= Top(t)

(* From address a up, stack t is the same in m and k.                       *)
Agree(m, k, t, a) ==
  \A b \in Int : StackOf(b) = t /\ b >= a =>
    /\ b \in DOMAIN k <=> b \in DOMAIN m
    /\ b \in DOMAIN m => k[b] = m[b]

(* The frame that entry pushes for x, and where.                            *)
Base(x) == x.sp - (x.sp % 2) - FrameSize(x.fpca)

FrameOf(x) ==
  [kind |-> "frame", size |-> FrameSize(x.fpca), core |-> x.core, lr |-> x.lr, ipsr |-> x.ipsr,
   align |-> x.sp % 2, s |-> IF x.fpca = 1 THEN x.s ELSE -1,
   fpscr |-> IF x.fpca = 1 THEN x.fpscr ELSE -1]

(* What a stack holds from address a up.                                    *)
Above(m, a) == [x \in {b \in DOMAIN m : StackOf(b) = StackOf(a) /\ b >= a} |-> m[x]]

(* The stack keeps everything that the interrupted code x needs.            *)
Framed(m, x) ==
  /\ StackOf(Base(x)) = StackOf(x.sp)
  /\ Base(x) \in DOMAIN m /\ m[Base(x)] = FrameOf(x)
  /\ x.stack = Above(m, x.sp)
  /\ \A b \in DOMAIN m : StackOf(b) = StackOf(x.sp) /\ b > Base(x) => b >= x.sp

(* An entry of the memory lies in the stack that StackOf names.             *)
LEMMA MemStack ==
  ASSUME NEW m, MemOk(m), NEW b \in DOMAIN m
  PROVE  /\ b \in Int /\ m[b].size \in Nat \ {0} /\ StackOf(b) \in Stacks
         /\ Within(b, StackOf(b)) /\ b + m[b].size <= Top(StackOf(b))
<1>1. b \in Int /\ m[b].size \in Nat \ {0}
  BY DEF MemOk
<1>2. PICK t \in Stacks : Top(t) - StackSize < b /\ b + m[b].size <= Top(t)
  BY DEF MemOk
<1> DEFINE z == m[b].size
           top == Top(t)
<1>3. z \in Nat \ {0} /\ top \in Nat /\ b + z <= top
  BY <1>1, <1>2, TopType
<1> HIDE DEF z
<1>4. b <= top
  <2> HIDE DEF top
  <2> QED BY <1>1, <1>3
<1>5. Within(b, t)
  BY <1>2, <1>4 DEF Within
<1>6. StackOf(b) = t
  BY <1>1, <1>5, StackIs
<1> QED BY <1>1, <1>2, <1>5, <1>6

(* A store below everything else on its stack destroys nothing.             *)
LEMMA StoreBelow ==
  ASSUME NEW m, MemOk(m), NEW t \in Stacks, NEW a \in Int, NEW x, x.size \in Nat \ {0},
         x.kind = "word" => x.lr \in Lrs, Top(t) - StackSize < a, a + x.size <= Top(t),
         \A b \in DOMAIN m : StackOf(b) = t => b >= a + x.size
  PROVE  /\ DOMAIN Store(m, a, x) = DOMAIN m \cup {a} /\ a \notin DOMAIN m
         /\ Store(m, a, x)[a] = x /\ StackOf(a) = t
         /\ \A b \in DOMAIN m : Store(m, a, x)[b] = m[b]
         /\ MemOk(Store(m, a, x))
<1> DEFINE z == x.size
           top == Top(t)
           k == Store(m, a, x)
           D == {b \in DOMAIN m : b + m[b].size <= a \/ b >= a + z}
<1>0. z \in Nat \ {0} /\ top \in Nat /\ StackSize \in Nat /\ top - StackSize < a /\ a + z <= top
  BY TopType, StackFacts
<1>1. StackOf(a) = t
  <2>1. a <= top
    <3> HIDE DEF z, top
    <3> QED BY <1>0
  <2> QED BY <2>1, StackIs DEF Within
<1>2. \A b \in DOMAIN m : b \in D
  <2> SUFFICES ASSUME NEW b \in DOMAIN m PROVE b + m[b].size <= a \/ b >= a + z
    OBVIOUS
  <2> DEFINE u == StackOf(b)
             w == m[b].size
             low == Top(u)
  <2>1. /\ b \in Int /\ w \in Nat \ {0} /\ u \in Stacks /\ low \in Nat
        /\ low - StackSize < b /\ b + w <= low
    BY MemStack, TopType DEF Within
  <2>2. CASE u = t
    BY <2>2
  <2>3. CASE u < t
    <3>1. low <= top - StackSize
      BY <2>1, <2>3, Spacing
    <3>2. b + w <= a
      <4> HIDE DEF u, w, low, z, top
      <4> QED BY <1>0, <2>1, <3>1
    <3> QED BY <3>2
  <2>4. CASE t < u
    <3>1. top <= low - StackSize
      BY <2>1, <2>4, Spacing
    <3> HIDE DEF u, w, low, z, top
    <3> QED BY <1>0, <2>1, <3>1
  <2>5. u \in Nat /\ t \in Nat
    BY <2>1, StackFacts
  <2> QED BY <2>2, <2>3, <2>4, <2>5
<1>3. a \notin DOMAIN m
  <2> SUFFICES ASSUME a \in DOMAIN m PROVE FALSE
    OBVIOUS
  <2>1. a >= a + z
    BY <1>1
  <2> HIDE DEF z
  <2> QED BY <1>0, <2>1
<1>4. k = [y \in DOMAIN m \cup {a} |-> IF y = a THEN x ELSE m[y]]
  <2>1. D = DOMAIN m
    BY <1>2
  <2> QED BY <2>1 DEF Store
<1>5. DOMAIN k = DOMAIN m \cup {a} /\ k[a] = x /\ \A b \in DOMAIN m : k[b] = m[b]
  BY <1>3, <1>4
<1> HIDE DEF k
<1>6. MemOk(k)
  BY <1>0, <1>5 DEF MemOk
<1> QED BY <1>1, <1>3, <1>5, <1>6 DEF k

(* Freeing from the lowest entry of a stack up.                             *)
LEMMA FreeLow ==
  ASSUME NEW m, MemOk(m), NEW t \in Stacks, NEW from \in Int, NEW to \in Int,
         Top(t) - StackSize < from, to <= Top(t), \A b \in DOMAIN m : StackOf(b) = t => b >= from
  PROVE  /\ \A b : b \in DOMAIN Free(m, from, to) <=> b \in DOMAIN m /\ ~(StackOf(b) = t /\ b < to)
         /\ \A b \in DOMAIN Free(m, from, to) : Free(m, from, to)[b] = m[b]
         /\ MemOk(Free(m, from, to))
<1> DEFINE k == Free(m, from, to)
           D == {b \in DOMAIN m : b < from \/ b >= to}
<1>1. k = [x \in D |-> m[x]]
  BY DEF Free
<1>2. \A b : b \in D <=> b \in DOMAIN m /\ ~(StackOf(b) = t /\ b < to)
  <2> SUFFICES ASSUME NEW b \in DOMAIN m
               PROVE  (b < from \/ b >= to) <=> ~(StackOf(b) = t /\ b < to)
    OBVIOUS
  <2>0. b \in Int /\ Top(t) \in Nat /\ StackSize \in Nat
    BY MemStack, TopType, StackFacts
  <2>1. CASE StackOf(b) = t
    <3>1. b >= from
      BY <2>1
    <3> QED BY <2>0, <2>1, <3>1
  <2>2. CASE StackOf(b) # t
    <3> SUFFICES ASSUME b >= from, b < to PROVE FALSE
      BY <2>0, <2>2
    <3> DEFINE top == Top(t)
    <3>1. top - StackSize < from /\ to <= top /\ top \in Nat
      BY <2>0
    <3>2. top - StackSize < b /\ b <= top
      <4> HIDE DEF top
      <4> QED BY <2>0, <3>1
    <3>3. StackOf(b) = t
      BY <2>0, <3>2, StackIs DEF Within
    <3> QED BY <2>2, <3>3
  <2> QED BY <2>1, <2>2
<1>3. DOMAIN k = D /\ \A b \in D : k[b] = m[b]
  BY <1>1
<1> HIDE DEF k, D
<1>4. MemOk(k)
  BY <1>2, <1>3 DEF MemOk
<1> QED BY <1>2, <1>3, <1>4 DEF k

(* Room that entry takes: a frame and at most one word of padding.          *)
LEMMA BaseFacts ==
  ASSUME NEW x, x.sp \in Int, x.fpca \in {0, 1}
  PROVE  /\ Base(x) \in Int /\ x.sp - 27 <= Base(x) /\ Base(x) <= x.sp - 8 /\ x.sp % 2 \in {0, 1}
         /\ FrameSize(x.fpca) \in Nat \ {0}
         /\ Base(x) + FrameSize(x.fpca) + (x.sp % 2) = x.sp
         /\ Base(x) + FrameSize(x.fpca) <= x.sp
         /\ x.fpca = 0 /\ x.sp % 2 = 0 => Base(x) = x.sp - FrameSize(0)
<1> DEFINE a == x.sp
           r == x.sp % 2
           z == FrameSize(x.fpca)
<1>1. a \in Int /\ r \in {0, 1} /\ z \in {8, 26} /\ Base(x) = a - r - z
  BY DEF Base, FrameSize
<1> HIDE DEF a, r, z
<1>2. /\ a - r - z \in Int /\ a - 27 <= a - r - z /\ a - r - z <= a - 8 /\ z \in Nat \ {0}
      /\ (a - r - z) + z + r = a /\ (a - r - z) + z <= a /\ (r = 0 => a - r - z = a - z)
  BY <1>1
<1> QED BY <1>1, <1>2 DEF a, r, z

(* A frame survives what happens below it and on other stacks.              *)
LEMMA FramedKept ==
  ASSUME NEW m, NEW k, NEW x, MemOk(m), MemOk(k), x.sp \in Int, x.fpca \in {0, 1},
         Framed(m, x), Agree(m, k, StackOf(x.sp), Base(x))
  PROVE  Framed(k, x)
<1> DEFINE t == StackOf(x.sp)
           a == Base(x)
           M == {b \in DOMAIN m : StackOf(b) = t /\ b >= x.sp}
           K == {b \in DOMAIN k : StackOf(b) = t /\ b >= x.sp}
<1>1. a \in Int /\ a <= x.sp
  <2>1. \A c, d \in Int : c <= d - 8 => c <= d
    OBVIOUS
  <2> QED BY <2>1, BaseFacts
<1>2. \A b \in Int : b >= x.sp => b >= a
  BY <1>1
<1>3. StackOf(a) = t /\ a \in DOMAIN m /\ m[a] = FrameOf(x) /\ x.stack = [y \in M |-> m[y]]
  BY DEF Framed, Above
<1>4. a \in DOMAIN k /\ k[a] = FrameOf(x)
  BY <1>1, <1>3 DEF Agree
<1>5. \A b \in DOMAIN m \cup DOMAIN k : b \in Int
  BY DEF MemOk
<1>6. K = M /\ \A b \in M : k[b] = m[b]
  BY <1>2, <1>5 DEF Agree
<1>7. x.stack = [y \in K |-> k[y]]
  BY <1>3, <1>6
<1>8. ASSUME NEW b \in DOMAIN k, StackOf(b) = t, b > a
      PROVE  b >= x.sp
  <2>1. b >= a
    BY <1>1, <1>5, <1>8
  <2>2. b \in DOMAIN m
    BY <1>5, <1>8, <2>1 DEF Agree
  <2> QED BY <1>8, <2>2 DEF Framed
<1> QED BY <1>3, <1>4, <1>7, <1>8 DEF Framed, Above

(* Stores and pops below interrupted code keep all it needs.                *)
LEMMA StoreFramed ==
  ASSUME NEW m, MemOk(m), NEW t \in Stacks, NEW a \in Int, NEW x, x.size \in Nat \ {0},
         x.kind = "word" => x.lr \in Lrs, Top(t) - StackSize < a, a + x.size <= Top(t),
         \A b \in DOMAIN m : StackOf(b) = t => b >= a + x.size,
         NEW y, y.sp \in Int, y.fpca \in {0, 1}, Framed(m, y)
  PROVE  Framed(Store(m, a, x), y)
<1> DEFINE k == Store(m, a, x)
           z == x.size
<1>1. /\ DOMAIN k = DOMAIN m \cup {a} /\ StackOf(a) = t
      /\ \A b \in DOMAIN m : k[b] = m[b]
      /\ MemOk(k)
  <2>1. /\ DOMAIN Store(m, a, x) = DOMAIN m \cup {a} /\ a \notin DOMAIN m
        /\ Store(m, a, x)[a] = x /\ StackOf(a) = t
        /\ \A b \in DOMAIN m : Store(m, a, x)[b] = m[b]
        /\ MemOk(Store(m, a, x))
    BY StoreBelow, Zenon
  <2> QED BY <2>1
<1>2. Base(y) \in DOMAIN m /\ StackOf(Base(y)) = StackOf(y.sp) /\ Base(y) \in Int
  BY BaseFacts DEF Framed
<1>3. StackOf(y.sp) = t => Base(y) > a
  <2> SUFFICES ASSUME StackOf(y.sp) = t PROVE Base(y) > a
    OBVIOUS
  <2>1. Base(y) >= a + z
    BY <1>2
  <2> HIDE DEF z
  <2>2. z \in Nat \ {0}
    BY DEF z
  <2> QED BY <1>2, <2>1, <2>2
<1> HIDE DEF k
<1>4. Agree(m, k, StackOf(y.sp), Base(y))
  BY <1>1, <1>2, <1>3 DEF Agree
<1>5. Framed(k, y)
  BY <1>1, <1>4, FramedKept
<1> QED BY <1>5 DEF k

LEMMA FreeFramed ==
  ASSUME NEW m, MemOk(m), NEW t \in Stacks, NEW from \in Int, NEW to \in Int,
         Top(t) - StackSize < from, to <= Top(t), \A b \in DOMAIN m : StackOf(b) = t => b >= from,
         NEW y, y.sp \in Int, y.fpca \in {0, 1}, Framed(m, y), StackOf(y.sp) = t => Base(y) >= to
  PROVE  Framed(Free(m, from, to), y)
<1> DEFINE k == Free(m, from, to)
<1>1. /\ \A b : b \in DOMAIN k <=> b \in DOMAIN m /\ ~(StackOf(b) = t /\ b < to)
      /\ \A b \in DOMAIN k : k[b] = m[b]
      /\ MemOk(k)
  BY FreeLow
<1>2. Base(y) \in Int
  BY BaseFacts
<1> HIDE DEF k
<1>3. Agree(m, k, StackOf(y.sp), Base(y))
  <2> SUFFICES ASSUME NEW b \in Int, StackOf(b) = StackOf(y.sp), b >= Base(y)
               PROVE  (b \in DOMAIN k <=> b \in DOMAIN m) /\ (b \in DOMAIN m => k[b] = m[b])
    BY DEF Agree
  <2>1. ~(StackOf(b) = t /\ b < to)
    BY <1>2
  <2> QED BY <1>1, <2>1
<1>4. Framed(k, y)
  BY <1>1, <1>3, FramedKept
<1> QED BY <1>4 DEF k

-----------------------------------------------------------------------------
(* The state of all code that has started: what is always true of it.       *)

(* Where SVC finds the stack pointer, and leaves the frame of main().       *)
Bottom == Top(0) - FrameSize(0)

(* What `fresh' may be.                                                     *)
FreshSets == SUBSET (Fpdscrs \cup {0})

(* The fields of a context.  Only thread code uses PSP.                     *)
IsContext(x) ==
  /\ x = [core |-> x.core, lr |-> x.lr, ipsr |-> x.ipsr, spsel |-> x.spsel, sp |-> x.sp,
          fpca |-> x.fpca, s |-> x.s, fpscr |-> x.fpscr, fresh |-> x.fresh, stack |-> x.stack]
  /\ x.lr \in Lrs /\ x.ipsr \in 0 .. Depth
  /\ x.spsel \in {0, 1} /\ x.fpca \in {0, 1} /\ x.sp \in Nat /\ x.fresh \in FreshSets
  /\ x.fpca = 0 => x.s = 0 /\ x.fpscr = 0
  /\ x.spsel = 1 => x.ipsr = 0

(* Thread code of stack t has at most the word of one call on it.           *)
Thread(x, t) ==
  /\ x.ipsr = 0 /\ x.spsel = (IF t = 0 THEN 0 ELSE 1) /\ x.fresh = {}
  /\ \/ x.sp = Top(t) /\ x.sp \notin DOMAIN x.stack
     \/ /\ x.sp = Top(t) - 1 /\ x.sp \in DOMAIN x.stack
        /\ x.stack[x.sp].kind = "word" /\ x.stack[x.sp].own = t

(* Where the stack of a handler that interrupts x begins.                   *)
Entry(x) == IF x.spsel = 1 THEN Bottom ELSE Base(x)

(* y is the handler that interrupted x: it has EXC_RETURN of x in LR, or on *)
(* the stack once it has called a function.                                 *)
Linked(m, x, y) ==
  /\ y.ipsr > x.ipsr /\ y.spsel = 0
  /\ \/ y.sp = Entry(x) /\ y.lr = ExcReturnFor(x)
     \/ /\ y.sp = Entry(x) - 1 /\ y.lr = CallLr
        /\ y.sp \in DOMAIN m /\ m[y.sp] = Word(10 + y.ipsr, ExcReturnFor(x))

(* c[1] to c[n] are interrupted, each by the next; c[n + 1] runs.           *)
Chain(m, c, n) ==
  /\ n \in Nat
  /\ \A i \in 1 .. n : Framed(m, c[i]) /\ Linked(m, c[i], c[i + 1])
  /\ \A i \in 1 .. n + 1 : IsContext(c[i]) /\ c[i].ipsr >= i - 1
  /\ c[n + 1].stack = Above(m, c[n + 1].sp)

(* The main stack holds their frames in order, with room for Depth levels.  *)
Order(c, n, k) ==
  /\ \A i \in 1 .. n + 1 :
       c[i].spsel = 0 => Top(0) - 28 * (i - 1) - 1 <= c[i].sp /\ c[i].sp <= Top(0)
  /\ \A i, j \in 1 .. n + 1 : i < j /\ c[i].spsel = 0 => c[j].sp <= Base(c[i])
  /\ k # 0 => \A i \in 2 .. n + 1 : c[i].sp <= Bottom

(* Task k runs, or is interrupted; its two stack pointers.  Once the        *)
(* scheduler has started, the frame of main() stays where SVC put it.       *)
Mode(m, c, n, k, msp, psp, park) ==
  /\ k \in Stacks \cup {NoTask} /\ msp \in Nat /\ psp \in Nat
  /\ c[n + 1].sp = IF c[n + 1].spsel = 1 THEN psp ELSE msp
  /\ k # NoTask => Thread(c[1], k)
  /\ k = NoTask => n >= 1 /\ c[2].ipsr = Kernel /\ \E t \in Tasks : c[1] = park[t]
  /\ k # 0 => Bottom \in DOMAIN m /\ m[Bottom].kind = "frame"
  /\ k \in Tasks => IF n = 0 THEN msp = Bottom ELSE psp = Base(c[1])

(* A parked task left a frame, and the scheduler knows where.               *)
Parked(m, k, park, tc) ==
  \A t \in Tasks :
    /\ IsContext(park[t])
    /\ t # k => /\ Thread(park[t], t) /\ Framed(m, park[t])
                /\ tc[t] = [psp |-> Base(park[t]), lr |-> ExcReturnFor(park[t])]

(* Nothing lies below the stack pointers.                                   *)
Lowest(k, msp, psp, park, t) == IF t = 0 THEN msp ELSE IF t = k THEN psp ELSE Base(park[t])

Low(m, k, msp, psp, park) ==
  \A b \in DOMAIN m : b >= Lowest(k, msp, psp, park, StackOf(b))

(* A handler that has not used the FPU will find in FPSCR what FPDSCR was   *)
(* at its entry, whatever FPDSCR is by then.                                *)
FpReady(c, n) ==
  \A i \in 1 .. n + 1 : c[i].fresh # {} => c[i].ipsr # 0 /\ c[i].fresh = {c[i].fpscr}

(* The invariant, over the code c[1] to c[n + 1] that has started.          *)
Good(m, c, n, k, msp, psp, park, tc) ==
  /\ MemOk(m) /\ Chain(m, c, n) /\ Order(c, n, k) /\ Mode(m, c, n, k, msp, psp, park)
  /\ Parked(m, k, park, tc) /\ Low(m, k, msp, psp, park) /\ FpReady(c, n)

LEMMA BottomFacts ==
  /\ Bottom \in Nat /\ Bottom = Top(0) - 8 /\ Within(Bottom, 0) /\ StackOf(Bottom) = 0
  /\ Bottom + 8 <= Top(0)
<1> DEFINE top == Top(0)
<1>1. top \in Nat /\ top >= StackSize /\ StackSize >= 56 /\ StackSize \in Nat
  BY TopType, StackFacts
<1>2. Bottom = top - 8
  BY DEF Bottom, FrameSize
<1>3. Bottom \in Nat /\ top - StackSize < Bottom /\ Bottom <= top /\ Bottom + 8 <= top
  <2> HIDE DEF top
  <2> QED BY <1>1, <1>2
<1>4. Within(Bottom, 0)
  BY <1>3 DEF Within
<1>5. StackOf(Bottom) = 0
  BY <1>3, <1>4, StackIs, StackFacts
<1> QED BY <1>2, <1>3, <1>4, <1>5

(* The code at the bottom of the chain is thread code of one stack.         *)
LEMMA OwnerOf ==
  ASSUME NEW m, NEW c, NEW n, NEW k, NEW msp, NEW psp, NEW park, NEW tc,
         Good(m, c, n, k, msp, psp, park, tc)
  PROVE  \E u \in Stacks : /\ Thread(c[1], u) /\ c[1].ipsr = 0
                           /\ k # NoTask => u = k
                           /\ k = NoTask => u \in Tasks /\ c[1] = park[u]
<1>1. Mode(m, c, n, k, msp, psp, park) /\ Parked(m, k, park, tc)
  BY DEF Good
<1>2. CASE k # NoTask
  <2>1. k \in Stacks /\ Thread(c[1], k)
    BY <1>1, <1>2 DEF Mode
  <2> QED BY <1>2, <2>1 DEF Thread
<1>3. CASE k = NoTask
  <2>1. PICK t \in Tasks : c[1] = park[t]
    BY <1>1, <1>3 DEF Mode
  <2>2. t # k /\ t \in Stacks
    BY <1>3, StackFacts
  <2>3. Thread(park[t], t)
    BY <1>1, <2>2 DEF Parked
  <2> QED BY <1>3, <2>1, <2>2, <2>3 DEF Thread
<1> QED BY <1>2, <1>3

(* Which stack each code of the chain is on, and the room left there.       *)
LEMMA Where ==
  ASSUME NEW m, NEW c, NEW n, NEW k, NEW msp, NEW psp, NEW park, NEW tc,
         Good(m, c, n, k, msp, psp, park, tc), NEW i \in 1 .. n + 1,
         NEW x, x = c[i], NEW t, t = StackOf(x.sp)
  PROVE  /\ IsContext(x) /\ n \in Nat /\ i \in Nat /\ i - 1 <= Depth
         /\ t \in Stacks /\ Within(x.sp, t) /\ Top(t) - StackSize + 26 < x.sp
         /\ i < n + 1 => StackOf(Base(x)) = t
         /\ x.spsel = 0 => t = 0
         /\ x.spsel = 1 => /\ i = 1 /\ t \in Tasks /\ t # 0 /\ k # 0 /\ Thread(x, t)
                           /\ k # NoTask => t = k
                           /\ k = NoTask => x = park[t]
         /\ i > 1 => x.spsel = 0
<1>1. /\ n \in Nat /\ IsContext(c[i]) /\ c[i].ipsr >= i - 1
      /\ i \in Nat /\ i >= 1 /\ i <= n + 1
  BY DEF Good, Chain
<1>2. i - 1 <= Depth /\ c[i].sp \in Nat /\ c[i].spsel \in {0, 1}
  <2>1. c[i].ipsr \in 0 .. Depth /\ Depth \in Nat
    BY <1>1, StackFacts DEF IsContext
  <2> QED BY <1>1, <2>1 DEF IsContext
<1>3. i > 1 => c[i].spsel = 0
  <2> SUFFICES ASSUME i > 1 PROVE c[i].spsel = 0
    OBVIOUS
  <2>1. i - 1 \in 1 .. n /\ (i - 1) + 1 = i
    BY <1>1
  <2>2. Linked(m, c[i - 1], c[(i - 1) + 1])
    BY <2>1 DEF Good, Chain
  <2> QED BY <2>1, <2>2 DEF Linked
<1>4. i < n + 1 => StackOf(Base(c[i])) = StackOf(c[i].sp)
  <2> SUFFICES ASSUME i < n + 1 PROVE StackOf(Base(c[i])) = StackOf(c[i].sp)
    OBVIOUS
  <2>1. i \in 1 .. n
    BY <1>1
  <2> QED BY <2>1 DEF Good, Chain, Framed
<1> DEFINE a == c[i].sp
<1>5. CASE c[i].spsel = 0
  <2> DEFINE top == Top(0)
  <2>1. top - 28 * (i - 1) - 1 <= a /\ a <= top
    BY <1>5 DEF Good, Order
  <2>2. top \in Nat /\ a \in Nat /\ StackSize \in Nat /\ StackSize >= 28 * (Depth + 1) /\ Depth \in Nat
    BY <1>2, TopType, StackFacts
  <2>3. top - StackSize + 26 < a /\ top - StackSize < a
    <3> HIDE DEF top, a
    <3> QED BY <1>1, <1>2, <2>1, <2>2
  <2>4. Within(a, 0)
    BY <2>1, <2>3 DEF Within
  <2>5. StackOf(a) = 0
    BY <2>2, <2>4, StackIs, StackFacts
  <2> QED BY <1>1, <1>2, <1>3, <1>4, <1>5, <2>3, <2>4, <2>5, StackFacts
<1>6. CASE c[i].spsel = 1
  <2>1. i = 1
    BY <1>1, <1>3, <1>6
  <2>2. PICK u \in Stacks : /\ Thread(c[1], u)
                            /\ k # NoTask => u = k
                            /\ k = NoTask => u \in Tasks /\ c[1] = park[u]
    BY OwnerOf
  <2>3. u # 0 /\ u \in Tasks
    BY <1>6, <2>1, <2>2 DEF Thread, Stacks
  <2> DEFINE top == Top(u)
  <2>4. a = top \/ a = top - 1
    BY <2>1, <2>2 DEF Thread
  <2>5. top \in Nat /\ a \in Nat /\ StackSize \in Nat /\ StackSize >= 56
    BY <1>2, TopType, StackFacts
  <2>6. top - StackSize + 26 < a /\ top - StackSize < a /\ a <= top
    <3> HIDE DEF top, a
    <3> QED BY <2>4, <2>5
  <2>7. Within(a, u)
    BY <2>6 DEF Within
  <2>8. StackOf(a) = u
    BY <2>5, <2>7, StackIs
  <2>9. k # 0
    BY <2>2, <2>3 DEF NoTask
  <2>10. StackOf(c[i].sp) = u /\ Within(c[i].sp, u) /\ Top(u) - StackSize + 26 < c[i].sp
    BY <2>6, <2>7, <2>8
  <2> HIDE DEF top, a
  <2> QED BY <1>1, <1>2, <1>3, <1>4, <1>6, <2>1, <2>2, <2>3, <2>9, <2>10
<1> QED BY <1>2, <1>5, <1>6

(* The running code owns the low end of its stack.                          *)
LEMMA Running ==
  ASSUME NEW m, NEW c, NEW n, NEW k, NEW msp, NEW psp, NEW park, NEW tc,
         Good(m, c, n, k, msp, psp, park, tc),
         NEW x, x = c[n + 1], NEW t, t = StackOf(x.sp)
  PROVE  /\ n \in Nat /\ IsContext(x) /\ t \in Stacks /\ n <= Depth
         /\ Within(x.sp, t) /\ Top(t) - StackSize + 26 < x.sp
         /\ t = (IF x.spsel = 1 THEN k ELSE 0)
         /\ Lowest(k, msp, psp, park, t) = x.sp
         /\ \A b \in DOMAIN m : StackOf(b) = t => b >= x.sp
         /\ x.spsel = 1 => n = 0 /\ k \in Tasks /\ k # 0
         /\ x.sp \in DOMAIN x.stack <=> x.sp \in DOMAIN m
         /\ x.sp \in DOMAIN m => x.stack[x.sp] = m[x.sp]
         /\ n = 0 => k \in Stacks /\ k # NoTask /\ Thread(x, k) /\ x.ipsr = 0
         /\ n > 0 => /\ n \in 1 .. n /\ IsContext(c[n]) /\ Framed(m, c[n]) /\ Linked(m, c[n], x)
                     /\ x.ipsr > 0 /\ x.spsel = 0
<1>1. n \in Nat /\ n + 1 \in 1 .. n + 1
  BY DEF Good, Chain
<1>2. /\ IsContext(x) /\ (n + 1) - 1 <= Depth /\ t \in Stacks /\ Within(x.sp, t)
      /\ Top(t) - StackSize + 26 < x.sp
      /\ x.spsel = 0 => t = 0
      /\ x.spsel = 1 => /\ n + 1 = 1 /\ t \in Tasks /\ t # 0 /\ k # 0
                        /\ k # NoTask => t = k
  <2> DEFINE i == n + 1
  <2> HIDE DEF i
  <2>1. i \in 1 .. n + 1 /\ x = c[i]
    BY <1>1 DEF i
  <2>2. /\ IsContext(x) /\ i - 1 <= Depth /\ t \in Stacks /\ Within(x.sp, t)
        /\ Top(t) - StackSize + 26 < x.sp
        /\ x.spsel = 0 => t = 0
        /\ x.spsel = 1 => /\ i = 1 /\ t \in Tasks /\ t # 0 /\ k # 0
                          /\ k # NoTask => t = k
    BY <2>1, Where
  <2> QED BY <2>2 DEF i
<1>3. Mode(m, c, n, k, msp, psp, park)
  BY DEF Good
<1>4. n = 0 => k \in Stacks /\ k # NoTask /\ Thread(x, k) /\ x.ipsr = 0
  BY <1>1, <1>3 DEF Mode, Thread
<1>5. n > 0 => n \in 1 .. n /\ IsContext(c[n]) /\ Framed(m, c[n]) /\ Linked(m, c[n], x)
  <2> SUFFICES ASSUME n > 0 PROVE n \in 1 .. n /\ IsContext(c[n]) /\ Framed(m, c[n]) /\ Linked(m, c[n], x)
    OBVIOUS
  <2>1. n \in 1 .. n /\ n \in 1 .. n + 1
    BY <1>1
  <2> QED BY <2>1 DEF Good, Chain
<1>6. n > 0 => x.ipsr > 0 /\ x.spsel = 0
  <2> SUFFICES ASSUME n > 0 PROVE x.ipsr > 0 /\ x.spsel = 0
    OBVIOUS
  <2>1. x.ipsr > c[n].ipsr /\ x.spsel = 0 /\ x.ipsr \in Nat /\ c[n].ipsr \in Nat
    BY <1>2, <1>5, StackFacts DEF Linked, IsContext
  <2> QED BY <2>1
<1>7. x.spsel = 1 => n = 0 /\ k \in Tasks /\ k # 0 /\ t = k
  <2> SUFFICES ASSUME x.spsel = 1 PROVE n = 0 /\ k \in Tasks /\ k # 0 /\ t = k
    OBVIOUS
  <2>1. n = 0
    BY <1>1, <1>2
  <2> QED BY <1>2, <1>4, <2>1
<1>8. x.spsel \in {0, 1}
  BY <1>2 DEF IsContext
<1>9. t = (IF x.spsel = 1 THEN k ELSE 0)
  BY <1>2, <1>7, <1>8
<1>10. Lowest(k, msp, psp, park, t) = x.sp
  BY <1>3, <1>7, <1>9 DEF Lowest, Mode
<1>11. \A b \in DOMAIN m : StackOf(b) = t => b >= x.sp
  BY <1>10 DEF Good, Low
<1>12. x.stack = [b \in {b \in DOMAIN m : StackOf(b) = t /\ b >= x.sp} |-> m[b]]
  BY DEF Good, Chain, Above
<1>13. x.sp >= x.sp
  BY <1>2 DEF IsContext
<1>14. /\ x.sp \in DOMAIN x.stack <=> x.sp \in DOMAIN m
       /\ x.sp \in DOMAIN m => x.stack[x.sp] = m[x.sp]
  BY <1>12, <1>13
<1>15. n <= Depth
  BY <1>1, <1>2
<1> QED BY <1>1, <1>2, <1>4, <1>5, <1>6, <1>7, <1>9, <1>10, <1>11, <1>14, <1>15

(* Owner and HasPushed, of a context.                                       *)
OwnerIn(x, k) == IF x.ipsr = 0 THEN k ELSE 10 + x.ipsr

Pushed(m, x, k) == x.sp \in DOMAIN m /\ m[x.sp].kind = "word" /\ m[x.sp].own = OwnerIn(x, k)

(* The stack pointer of the running code tells whether it called a function.*)
LEMMA CallState ==
  ASSUME NEW m, NEW c, NEW n, NEW k, NEW msp, NEW psp, NEW park, NEW tc,
         Good(m, c, n, k, msp, psp, park, tc), NEW x, x = c[n + 1]
  PROVE  /\ ~Pushed(m, x, k) => IF n = 0 THEN x.sp = Top(k)
                                ELSE x.sp = Entry(c[n]) /\ x.lr = ExcReturnFor(c[n])
         /\ Pushed(m, x, k) => IF n = 0 THEN x.sp = Top(k) - 1
                               ELSE /\ x.sp = Entry(c[n]) - 1
                                    /\ m[x.sp] = Word(10 + x.ipsr, ExcReturnFor(c[n]))
<1>1. /\ n \in Nat
      /\ x.sp \in DOMAIN x.stack <=> x.sp \in DOMAIN m
      /\ x.sp \in DOMAIN m => x.stack[x.sp] = m[x.sp]
      /\ n = 0 => k \in Stacks /\ k # NoTask /\ Thread(x, k) /\ x.ipsr = 0
      /\ n > 0 => n \in 1 .. n /\ IsContext(c[n]) /\ Framed(m, c[n]) /\ Linked(m, c[n], x)
                  /\ x.ipsr > 0 /\ x.spsel = 0
  BY Running
<1>2. CASE n = 0
  BY <1>1, <1>2 DEF Thread, Pushed, OwnerIn
<1>3. CASE n > 0
  <2>1. OwnerIn(x, k) = 10 + x.ipsr
    BY <1>1, <1>3 DEF OwnerIn
  <2>2. ASSUME x.sp = Entry(c[n]) - 1, m[x.sp] = Word(10 + x.ipsr, ExcReturnFor(c[n])), x.sp \in DOMAIN m
        PROVE  Pushed(m, x, k)
    BY <2>1, <2>2 DEF Pushed, Word
  <2>3. ASSUME Pushed(m, x, k), x.sp = Entry(c[n]) PROVE FALSE
    <3>1. m[x.sp].kind = "word" /\ x.sp \in DOMAIN m
      BY <2>3 DEF Pushed
    <3>2. CASE c[n].spsel = 1
      <4>1. n \in 1 .. n + 1
        BY <1>1, <1>3
      <4>2. k # 0
        BY <3>2, <4>1, Where
      <4>3. m[Bottom].kind = "frame"
        BY <4>2 DEF Good, Mode
      <4> QED BY <2>3, <3>1, <3>2, <4>3 DEF Entry
    <3>3. CASE c[n].spsel # 1
      <4>1. m[Base(c[n])].kind = "frame"
        BY <1>1, <1>3 DEF Framed, FrameOf
      <4> QED BY <2>3, <3>1, <3>3, <4>1 DEF Entry
    <3> QED BY <3>2, <3>3
  <2>4. Linked(m, c[n], x)
    BY <1>1, <1>3
  <2>5. n # 0
    BY <1>3
  <2> QED BY <2>2, <2>3, <2>4, <2>5 DEF Linked
<1>4. n = 0 \/ n > 0
  BY <1>1
<1> QED BY <1>2, <1>3, <1>4

-----------------------------------------------------------------------------
(* Each operation, on contexts and memory, keeps that state good.           *)

(* The stack of a parked task is not the running one.                       *)
LEMMA ParkedElsewhere ==
  ASSUME NEW m, NEW c, NEW n, NEW k, NEW msp, NEW psp, NEW park, NEW tc,
         Good(m, c, n, k, msp, psp, park, tc), NEW u \in Tasks, u # k
  PROVE  /\ IsContext(park[u]) /\ Thread(park[u], u) /\ Framed(m, park[u])
         /\ StackOf(park[u].sp) = u /\ Within(park[u].sp, u) /\ StackOf(Base(park[u])) = u
         /\ park[u].sp \in Int /\ park[u].fpca \in {0, 1} /\ park[u].spsel = 1
         /\ u # StackOf(c[n + 1].sp)
<1>1. IsContext(park[u]) /\ Thread(park[u], u) /\ Framed(m, park[u])
  BY DEF Good, Parked
<1> DEFINE a == park[u].sp
           top == Top(u)
<1>2. top \in Nat /\ top >= StackSize /\ StackSize >= 56 /\ StackSize \in Nat /\ u # 0 /\ u \in Stacks
  BY TopType, StackFacts
<1>3. a \in Nat /\ (a = top \/ a = top - 1) /\ park[u].fpca \in {0, 1} /\ park[u].spsel = 1
  BY <1>1, <1>2 DEF Thread, IsContext
<1>4. top - StackSize < a /\ a <= top
  <2> HIDE DEF a, top
  <2> QED BY <1>2, <1>3
<1>5. Within(a, u)
  BY <1>4 DEF Within
<1>6. StackOf(a) = u
  BY <1>2, <1>3, <1>5, StackIs
<1>7. StackOf(c[n + 1].sp) = 0 \/ StackOf(c[n + 1].sp) = k
  BY Running
<1>8. StackOf(Base(park[u])) = u
  BY <1>1, <1>6 DEF Framed
<1> QED BY <1>1, <1>2, <1>3, <1>5, <1>6, <1>7, <1>8

(* How far entry moves the stack pointer.                                   *)
LEMMA EntryFacts ==
  ASSUME NEW x, IsContext(x)
  PROVE  /\ Base(x) \in Int /\ Entry(x) \in Int /\ Base(x) < x.sp
         /\ Base(x) >= x.sp - 27 /\ x.sp \in Nat /\ x.fpca \in {0, 1} /\ x.spsel \in {0, 1}
<1> x.sp \in Int /\ x.fpca \in {0, 1} /\ x.sp \in Nat /\ x.spsel \in {0, 1}
  BY DEF IsContext
<1>1. Base(x) \in Int /\ x.sp - 27 <= Base(x) /\ Base(x) <= x.sp - 8
  BY BaseFacts
<1>2. Base(x) < x.sp /\ Base(x) >= x.sp - 27
  BY <1>1
<1> QED BY <1>1, <1>2, BottomFacts DEF Entry

(* Pushing LR: the word is the lowest entry of the running stack.           *)
LEMMA PushStep ==
  ASSUME NEW m, NEW c, NEW n, NEW k, NEW msp, NEW psp, NEW park, NEW tc,
         Good(m, c, n, k, msp, psp, park, tc), NEW x, x = c[n + 1], ~Pushed(m, x, k),
         NEW c2, NEW y, \A i \in 1 .. n : c2[i] = c[i], c2[n + 1] = y, IsContext(y),
         y.ipsr = x.ipsr, y.spsel = x.spsel, y.sp = x.sp - 1, y.lr = CallLr, y.fresh = x.fresh,
         y.fpca = x.fpca, y.fpscr = x.fpscr,
         NEW m2, m2 = Store(m, x.sp - 1, Word(OwnerIn(x, k), x.lr)), y.stack = Above(m2, y.sp),
         NEW msp2, msp2 = IF x.spsel = 1 THEN msp ELSE x.sp - 1,
         NEW psp2, psp2 = IF x.spsel = 1 THEN x.sp - 1 ELSE psp
  PROVE  Good(m2, c2, n, k, msp2, psp2, park, tc)
<1> DEFINE a == x.sp - 1
           t == StackOf(x.sp)
           w == Word(OwnerIn(x, k), x.lr)
<1>1. /\ n \in Nat /\ IsContext(x) /\ t \in Stacks /\ n <= Depth
      /\ Within(x.sp, t) /\ Top(t) - StackSize + 26 < x.sp
      /\ t = (IF x.spsel = 1 THEN k ELSE 0)
      /\ \A b \in DOMAIN m : StackOf(b) = t => b >= x.sp
      /\ x.spsel = 1 => n = 0 /\ k \in Tasks /\ k # 0
      /\ n = 0 => k \in Stacks /\ k # NoTask /\ Thread(x, k) /\ x.ipsr = 0
      /\ n > 0 => /\ n \in 1 .. n /\ IsContext(c[n]) /\ Framed(m, c[n]) /\ Linked(m, c[n], x)
                  /\ x.ipsr > 0 /\ x.spsel = 0
  BY Running
<1>2. IF n = 0 THEN x.sp = Top(k) ELSE x.sp = Entry(c[n]) /\ x.lr = ExcReturnFor(c[n])
  BY CallState
<1>3. /\ MemOk(m) /\ Chain(m, c, n) /\ Order(c, n, k) /\ Mode(m, c, n, k, msp, psp, park)
      /\ Parked(m, k, park, tc) /\ Low(m, k, msp, psp, park) /\ FpReady(c, n)
  BY DEF Good
<1>4. x.sp \in Nat /\ x.lr \in Lrs /\ x.spsel \in {0, 1}
  BY <1>1 DEF IsContext
<1>5. /\ a \in Int /\ a + 1 = x.sp /\ w.size = 1 /\ w.kind = "word" /\ w.lr = x.lr
      /\ w.own = OwnerIn(x, k)
  BY <1>4 DEF Word
<1>6. Top(t) - StackSize < a /\ a + w.size <= Top(t) /\ a \in Nat
  <2> DEFINE top == Top(t)
             p == x.sp
  <2>1. top \in Nat /\ top >= StackSize /\ p \in Nat /\ StackSize \in Nat /\ p <= top /\ top - StackSize + 26 < p
    BY <1>1, <1>4, TopType, StackFacts DEF Within
  <2>2. top - StackSize < p - 1 /\ (p - 1) + 1 <= top /\ p - 1 \in Nat
    <3> HIDE DEF top, p
    <3> QED BY <2>1
  <2> QED BY <1>5, <2>2
<1> HIDE DEF a, t, w
<1>7. m2 = Store(m, a, w)
  BY DEF a, w
<1>8. \A b \in DOMAIN m : StackOf(b) = t => b >= a + w.size
  BY <1>1, <1>5
<1>9. w.size \in Nat \ {0} /\ (w.kind = "word" => w.lr \in Lrs)
  BY <1>4, <1>5
<1>10. /\ DOMAIN m2 = DOMAIN m \cup {a} /\ a \notin DOMAIN m /\ m2[a] = w /\ StackOf(a) = t
       /\ \A b \in DOMAIN m : m2[b] = m[b]
       /\ MemOk(m2)
  <2>1. /\ DOMAIN Store(m, a, w) = DOMAIN m \cup {a} /\ a \notin DOMAIN m
        /\ Store(m, a, w)[a] = w /\ StackOf(a) = t
        /\ \A b \in DOMAIN m : Store(m, a, w)[b] = m[b]
        /\ MemOk(Store(m, a, w))
    BY <1>1, <1>3, <1>5, <1>6, <1>8, <1>9, StoreBelow, Zenon
  <2> QED BY <1>7, <2>1
<1>11. \A z : IsContext(z) /\ Framed(m, z) => Framed(m2, z)
  <2> SUFFICES ASSUME NEW z, IsContext(z), Framed(m, z) PROVE Framed(m2, z)
    OBVIOUS
  <2>1. z.sp \in Int /\ z.fpca \in {0, 1}
    BY DEF IsContext
  <2> QED BY <1>1, <1>3, <1>5, <1>6, <1>7, <1>8, <1>9, <2>1, StoreFramed
<1>12. y.sp = a /\ y.sp = x.sp - 1
  BY DEF a
<1>13. Chain(m2, c2, n)
  <2>1. ASSUME NEW i \in 1 .. n
        PROVE  Framed(m2, c2[i]) /\ Linked(m2, c2[i], c2[i + 1])
    <3>1. Framed(m, c[i]) /\ Linked(m, c[i], c[i + 1]) /\ c2[i] = c[i] /\ IsContext(c[i])
      <4>1. i \in 1 .. n + 1
        BY <1>1
      <4> QED BY <1>3, <4>1 DEF Chain
    <3>2. CASE i < n
      <4>1. i + 1 \in 1 .. n
        BY <1>1, <3>2
      <4> QED BY <1>10, <1>11, <3>1, <4>1 DEF Linked
    <3>3. CASE i = n
      <4>1. n > 0
        BY <1>1, <3>3
      <4>2. n # 0 /\ OwnerIn(x, k) = 10 + x.ipsr
        BY <1>1, <4>1 DEF OwnerIn
      <4>3. x.sp = Entry(c[n]) /\ x.lr = ExcReturnFor(c[n])
        BY <1>2, <4>2
      <4>4. m2[y.sp] = Word(10 + y.ipsr, ExcReturnFor(c[n])) /\ y.sp \in DOMAIN m2
        BY <1>10, <1>12, <4>2, <4>3 DEF w
      <4>5. y.ipsr > c[n].ipsr /\ y.spsel = 0
        BY <1>1, <4>1 DEF Linked
      <4>6. Linked(m2, c[n], y)
        BY <1>12, <4>3, <4>4, <4>5 DEF Linked
      <4> QED BY <1>11, <3>1, <3>3, <4>6
    <3> QED BY <1>1, <3>2, <3>3
  <2>2. \A i \in 1 .. n + 1 : IsContext(c2[i]) /\ c2[i].ipsr >= i - 1
    <3>1. \A i \in 1 .. n + 1 : i \in 1 .. n \/ i = n + 1
      BY <1>1
    <3>2. \A i \in 1 .. n + 1 : IsContext(c[i]) /\ c[i].ipsr >= i - 1
      BY <1>3 DEF Chain
    <3> QED BY <3>1, <3>2
  <2> QED BY <1>1, <2>1, <2>2 DEF Chain
<1>14. Order(c2, n, k)
  <2>0. \A i \in 1 .. n + 1 : i \in 1 .. n \/ i = n + 1
    BY <1>1
  <2>1. /\ \A i \in 1 .. n + 1 :
            c[i].spsel = 0 => Top(0) - 28 * (i - 1) - 1 <= c[i].sp /\ c[i].sp <= Top(0)
        /\ \A i, j \in 1 .. n + 1 : i < j /\ c[i].spsel = 0 => c[j].sp <= Base(c[i])
        /\ k # 0 => \A i \in 2 .. n + 1 : c[i].sp <= Bottom
    BY <1>3 DEF Order
  <2>2. \A i \in 1 .. n + 1 : IsContext(c[i])
    BY <1>3 DEF Chain
  <2>3. ASSUME y.spsel = 0
        PROVE  Top(0) - 28 * ((n + 1) - 1) - 1 <= y.sp /\ y.sp <= Top(0)
    <3> DEFINE top == Top(0)
               p == x.sp
    <3>1. top \in Nat /\ p \in Nat /\ n \in Nat /\ p <= top
      <4>1. n + 1 \in 1 .. n + 1
        BY <1>1
      <4> QED BY <1>1, <1>4, <2>1, <2>3, <4>1, TopType, StackFacts
    <3>2. CASE n = 0
      <4>1. k = 0
        BY <1>1, <2>3, <3>2 DEF Thread
      <4>2. p = top
        BY <1>2, <3>2, <4>1
      <4> HIDE DEF top, p
      <4>3. top - 28 * ((0 + 1) - 1) - 1 <= p - 1 /\ p - 1 <= top
        BY <3>1, <4>2
      <4> QED BY <1>12, <3>2, <4>3 DEF top, p
    <3>3. CASE n > 0
      <4>1. n # 0 /\ n \in 1 .. n + 1
        BY <1>1, <3>3
      <4>2. p = Entry(c[n])
        BY <1>2, <4>1
      <4>3. p >= top - 28 * n
        <5>1. CASE c[n].spsel = 1
          <6>1. p = top - 8
            BY <4>2, <5>1, BottomFacts DEF Entry
          <6> HIDE DEF top, p
          <6> QED BY <3>1, <3>3, <6>1
        <5>2. CASE c[n].spsel # 1
          <6> DEFINE q == c[n].sp
                     r == Base(c[n])
          <6>1. r \in Int /\ q \in Nat /\ r >= q - 27 /\ c[n].spsel = 0
            BY <2>2, <4>1, <5>2, EntryFacts
          <6>2. top - 28 * (n - 1) - 1 <= q
            BY <2>1, <4>1, <6>1
          <6>3. p = r
            BY <4>2, <5>2 DEF Entry
          <6> HIDE DEF top, p, q, r
          <6> QED BY <3>1, <6>1, <6>2, <6>3
        <5> QED BY <5>1, <5>2
      <4>4. top - 28 * ((n + 1) - 1) - 1 <= p - 1 /\ p - 1 <= top
        <5> HIDE DEF top, p
        <5> QED BY <3>1, <4>3
      <4> QED BY <1>12, <4>4
    <3> QED BY <1>1, <3>2, <3>3
  <2>4. ASSUME NEW i \in 1 .. n, c[i].spsel = 0
        PROVE  y.sp <= Base(c[i])
    <3>1. i \in 1 .. n + 1 /\ n + 1 \in 1 .. n + 1 /\ i < n + 1
      BY <1>1
    <3>2. x.sp <= Base(c[i]) /\ Base(c[i]) \in Int
      BY <2>1, <2>2, <2>4, <3>1, EntryFacts
    <3> QED BY <1>4, <1>12, <3>2
  <2>5. ASSUME k # 0, n + 1 \in 2 .. n + 1 PROVE y.sp <= Bottom
    <3>1. x.sp <= Bottom
      BY <2>1, <2>5
    <3> QED BY <1>4, <1>12, <3>1, BottomFacts
  <2>6. \A i \in 1 .. n + 1 :
            c2[i].spsel = 0 => Top(0) - 28 * (i - 1) - 1 <= c2[i].sp /\ c2[i].sp <= Top(0)
    BY <2>0, <2>1, <2>3
  <2>7. \A i, j \in 1 .. n + 1 : i < j /\ c2[i].spsel = 0 => c2[j].sp <= Base(c2[i])
    <3>1. ASSUME NEW i \in 1 .. n + 1, NEW j \in 1 .. n + 1, i < j, c2[i].spsel = 0
          PROVE  c2[j].sp <= Base(c2[i])
      <4>1. i \in 1 .. n
        BY <1>1, <3>1
      <4> QED BY <2>0, <2>1, <2>4, <3>1, <4>1
    <3> QED BY <3>1
  <2>8. k # 0 => \A i \in 2 .. n + 1 : c2[i].sp <= Bottom
    <3>1. \A i \in 2 .. n + 1 : i \in 1 .. n \/ i = n + 1
      BY <1>1
    <3> QED BY <2>1, <2>5, <3>1
  <2> QED BY <2>6, <2>7, <2>8 DEF Order
<1>15. Mode(m2, c2, n, k, msp2, psp2, park)
  <2>1. /\ k \in Stacks \cup {NoTask} /\ msp \in Nat /\ psp \in Nat
        /\ k # NoTask => Thread(c[1], k)
        /\ k = NoTask => n >= 1 /\ c[2].ipsr = Kernel /\ \E u \in Tasks : c[1] = park[u]
        /\ k # 0 => Bottom \in DOMAIN m /\ m[Bottom].kind = "frame"
        /\ k \in Tasks => IF n = 0 THEN msp = Bottom ELSE psp = Base(c[1])
    BY <1>3 DEF Mode
  <2>2. msp2 = (IF x.spsel = 1 THEN msp ELSE a) /\ psp2 = (IF x.spsel = 1 THEN a ELSE psp)
    BY DEF a
  <2>3. msp2 \in Nat /\ psp2 \in Nat
    BY <1>6, <2>1, <2>2
  <2>4. y.sp = IF y.spsel = 1 THEN psp2 ELSE msp2
    BY <1>12, <2>2
  <2>5. k # NoTask => Thread(c2[1], k)
    <3>1. CASE n = 0
      <4>1. /\ x.ipsr = 0 /\ x.spsel = (IF k = 0 THEN 0 ELSE 1) /\ x.fresh = {} /\ x.sp = Top(k)
        BY <1>1, <1>2, <3>1 DEF Thread
      <4>2. a >= a
        BY <1>5
      <4>3. y.stack = [b \in {b \in DOMAIN m2 : StackOf(b) = StackOf(a) /\ b >= a} |-> m2[b]]
        BY <1>12 DEF Above
      <4>4. a \in DOMAIN y.stack /\ y.stack[a] = w
        BY <1>10, <4>2, <4>3
      <4>5. w.own = k
        BY <1>5, <4>1 DEF OwnerIn
      <4>6. Thread(y, k)
        BY <1>5, <1>12, <4>1, <4>4, <4>5 DEF Thread
      <4> QED BY <3>1, <4>6
    <3>2. CASE n > 0
      <4>1. 1 \in 1 .. n
        BY <1>1, <3>2
      <4> QED BY <2>1, <4>1
    <3> QED BY <1>1, <3>1, <3>2
  <2>6. k = NoTask => n >= 1 /\ c2[2].ipsr = Kernel /\ \E u \in Tasks : c2[1] = park[u]
    <3> SUFFICES ASSUME k = NoTask
                 PROVE  n >= 1 /\ c2[2].ipsr = Kernel /\ \E u \in Tasks : c2[1] = park[u]
      OBVIOUS
    <3>1. n >= 1 /\ c[2].ipsr = Kernel /\ \E u \in Tasks : c[1] = park[u]
      BY <2>1
    <3>2. 1 \in 1 .. n /\ (2 \in 1 .. n \/ n = 1)
      BY <1>1, <3>1
    <3>3. n = 1 => c2[2] = y /\ c[2] = x
      OBVIOUS
    <3> QED BY <3>1, <3>2, <3>3
  <2>7. k # 0 => Bottom \in DOMAIN m2 /\ m2[Bottom].kind = "frame"
    BY <1>10, <2>1
  <2>8. k \in Tasks => IF n = 0 THEN msp2 = Bottom ELSE psp2 = Base(c2[1])
    <3> SUFFICES ASSUME k \in Tasks PROVE IF n = 0 THEN msp2 = Bottom ELSE psp2 = Base(c2[1])
      OBVIOUS
    <3>1. CASE n = 0
      BY <1>1, <2>1, <2>2, <3>1, StackFacts DEF Thread
    <3>2. CASE n > 0
      <4>1. 1 \in 1 .. n /\ x.spsel = 0 /\ n # 0
        BY <1>1, <3>2
      <4> QED BY <2>1, <2>2, <4>1
    <3> QED BY <1>1, <3>1, <3>2
  <2> QED BY <2>1, <2>3, <2>4, <2>5, <2>6, <2>7, <2>8 DEF Mode
<1>16. Parked(m2, k, park, tc)
  BY <1>3, <1>11 DEF Parked
<1>17. Low(m2, k, msp2, psp2, park)
  <2>1. ASSUME NEW b \in DOMAIN m2
        PROVE  b >= Lowest(k, msp2, psp2, park, StackOf(b))
    <3>1. CASE b = a
      <4>1. Lowest(k, msp2, psp2, park, t) = a
        BY <1>1, <1>4 DEF Lowest, a
      <4> QED BY <1>5, <1>10, <3>1, <4>1
    <3>2. CASE b \in DOMAIN m
      <4>1. b >= Lowest(k, msp, psp, park, StackOf(b)) /\ b \in Int
        BY <1>3, <3>2 DEF Low, MemOk
      <4>2. CASE StackOf(b) = t
        <5>1. Lowest(k, msp2, psp2, park, t) = a
          BY <1>1, <1>4 DEF Lowest, a
        <5>2. b >= x.sp
          BY <1>1, <3>2, <4>2
        <5> QED BY <1>4, <1>5, <4>1, <4>2, <5>1, <5>2
      <4>3. CASE StackOf(b) # t
        <5>1. Lowest(k, msp2, psp2, park, StackOf(b)) = Lowest(k, msp, psp, park, StackOf(b))
          BY <1>1, <1>4, <4>3 DEF Lowest
        <5> QED BY <4>1, <5>1
      <4> QED BY <4>2, <4>3
    <3> QED BY <1>10, <3>1, <3>2
  <2> QED BY <2>1 DEF Low
<1>18. FpReady(c2, n)
  <2>1. \A i \in 1 .. n + 1 : i \in 1 .. n \/ i = n + 1
    BY <1>1
  <2>2. x.fresh # {} => x.ipsr # 0 /\ x.fresh = {x.fpscr}
    <3>1. n + 1 \in 1 .. n + 1
      BY <1>1
    <3> QED BY <1>3, <3>1 DEF FpReady
  <2> QED BY <1>3, <2>1, <2>2 DEF FpReady
<1> QED BY <1>10, <1>13, <1>14, <1>15, <1>16, <1>17, <1>18 DEF Good

(* Once the scheduler runs, thread code uses PSP.                           *)
LEMMA ThreadMode ==
  ASSUME NEW m, NEW c, NEW n, NEW k, NEW msp, NEW psp, NEW park, NEW tc,
         Good(m, c, n, k, msp, psp, park, tc)
  PROVE  c[1].spsel = (IF k = 0 THEN 0 ELSE 1) /\ c[1].ipsr = 0
<1>1. PICK u \in Stacks : /\ Thread(c[1], u) /\ c[1].ipsr = 0
                          /\ k # NoTask => u = k
                          /\ k = NoTask => u \in Tasks /\ c[1] = park[u]
  BY OwnerOf
<1>2. u = 0 <=> k = 0
  BY <1>1, StackFacts
<1> QED BY <1>1, <1>2 DEF Thread

(* Popping it again.                                                        *)
LEMMA PopStep ==
  ASSUME NEW m, NEW c, NEW n, NEW k, NEW msp, NEW psp, NEW park, NEW tc,
         Good(m, c, n, k, msp, psp, park, tc), NEW x, x = c[n + 1], Pushed(m, x, k),
         NEW c2, NEW y, \A i \in 1 .. n : c2[i] = c[i], c2[n + 1] = y, IsContext(y),
         y.ipsr = x.ipsr, y.spsel = x.spsel, y.sp = x.sp + 1, y.lr = m[x.sp].lr,
         y.fresh = x.fresh, y.fpca = x.fpca, y.fpscr = x.fpscr,
         NEW m2, m2 = Free(m, x.sp, x.sp + 1), y.stack = Above(m2, y.sp),
         NEW msp2, msp2 = IF x.spsel = 1 THEN msp ELSE x.sp + 1,
         NEW psp2, psp2 = IF x.spsel = 1 THEN x.sp + 1 ELSE psp
  PROVE  Good(m2, c2, n, k, msp2, psp2, park, tc)
<1> DEFINE a == x.sp
           t == StackOf(x.sp)
<1>1. /\ n \in Nat /\ IsContext(x) /\ t \in Stacks /\ n <= Depth
      /\ Within(x.sp, t) /\ Top(t) - StackSize + 26 < x.sp
      /\ t = (IF x.spsel = 1 THEN k ELSE 0)
      /\ \A b \in DOMAIN m : StackOf(b) = t => b >= x.sp
      /\ x.spsel = 1 => n = 0 /\ k \in Tasks /\ k # 0
      /\ n = 0 => k \in Stacks /\ k # NoTask /\ Thread(x, k) /\ x.ipsr = 0
      /\ n > 0 => /\ n \in 1 .. n /\ IsContext(c[n]) /\ Framed(m, c[n]) /\ Linked(m, c[n], x)
                  /\ x.ipsr > 0 /\ x.spsel = 0
  BY Running
<1>2. IF n = 0 THEN x.sp = Top(k) - 1
      ELSE x.sp = Entry(c[n]) - 1 /\ m[x.sp] = Word(10 + x.ipsr, ExcReturnFor(c[n]))
  BY CallState
<1>3. /\ MemOk(m) /\ Chain(m, c, n) /\ Order(c, n, k) /\ Mode(m, c, n, k, msp, psp, park)
      /\ Parked(m, k, park, tc) /\ Low(m, k, msp, psp, park) /\ FpReady(c, n)
  BY DEF Good
<1>4. x.sp \in Nat /\ x.spsel \in {0, 1} /\ a \in DOMAIN m /\ m[a].kind = "word"
  BY <1>1 DEF IsContext, Pushed
<1>5. Top(t) - StackSize < a /\ a + 1 <= Top(t)
  <2> DEFINE top == Top(t)
             z == m[a].size
  <2>1. z \in Nat \ {0} /\ a + z <= top /\ top - StackSize < a
    BY <1>3, <1>4, MemStack DEF Within
  <2>2. top \in Nat /\ StackSize \in Nat
    BY <1>1, TopType, StackFacts
  <2>3. top - StackSize < a /\ a + 1 <= top
    <3> HIDE DEF top, z, a
    <3> QED BY <1>4, <2>1, <2>2 DEF a
  <2> QED BY <2>3
<1> HIDE DEF a, t
<1>6. m2 = Free(m, a, a + 1) /\ a \in Nat /\ a + 1 \in Int
  BY <1>4 DEF a
<1>7. \A b \in DOMAIN m : StackOf(b) = t => b >= a
  BY <1>1 DEF a
<1>8. /\ \A b : b \in DOMAIN m2 <=> b \in DOMAIN m /\ b # a
      /\ \A b \in DOMAIN m2 : m2[b] = m[b]
      /\ MemOk(m2)
  <2>1. /\ \A b : b \in DOMAIN Free(m, a, a + 1) <=> b \in DOMAIN m /\ ~(StackOf(b) = t /\ b < a + 1)
        /\ \A b \in DOMAIN Free(m, a, a + 1) : Free(m, a, a + 1)[b] = m[b]
        /\ MemOk(Free(m, a, a + 1))
    BY <1>1, <1>3, <1>5, <1>6, <1>7, FreeLow
  <2>2. \A b \in DOMAIN m : (StackOf(b) = t /\ b < a + 1) <=> b = a
    <3>1. \A b \in DOMAIN m : b \in Int
      BY <1>3 DEF MemOk
    <3>2. StackOf(a) = t /\ a < a + 1
      BY <1>6 DEF t, a
    <3>3. \A b \in Int : b >= a /\ b < a + 1 => b = a
      BY <1>6
    <3> QED BY <1>7, <3>1, <3>2, <3>3
  <2> QED BY <1>6, <2>1, <2>2
<1>9. \A z : IsContext(z) /\ Framed(m, z) => Framed(m2, z)
  <2> SUFFICES ASSUME NEW z, IsContext(z), Framed(m, z) PROVE Framed(m2, z)
    OBVIOUS
  <2>1. z.sp \in Int /\ z.fpca \in {0, 1} /\ Base(z) \in Int
    BY EntryFacts DEF IsContext
  <2>2. Base(z) \in DOMAIN m /\ m[Base(z)].kind = "frame" /\ StackOf(Base(z)) = StackOf(z.sp)
    BY DEF Framed, FrameOf
  <2>3. StackOf(z.sp) = t => Base(z) >= a + 1
    <3>1. Base(z) # a
      BY <1>4, <2>2 DEF a
    <3> QED BY <1>6, <1>7, <2>1, <2>2, <3>1
  <2> QED BY <1>1, <1>3, <1>5, <1>6, <1>7, <2>1, <2>3, FreeFramed
<1>10. y.sp = a + 1 /\ x.sp = a
  BY DEF a
<1>o. /\ \A i \in 1 .. n + 1 :
           c[i].spsel = 0 => Top(0) - 28 * (i - 1) - 1 <= c[i].sp /\ c[i].sp <= Top(0)
      /\ \A i, j \in 1 .. n + 1 : i < j /\ c[i].spsel = 0 => c[j].sp <= Base(c[i])
      /\ k # 0 => \A i \in 2 .. n + 1 : c[i].sp <= Bottom
  BY <1>3 DEF Order
<1>c. \A i \in 1 .. n + 1 : IsContext(c[i])
  BY <1>3 DEF Chain
<1>i. \A i \in 1 .. n + 1 : i \in 1 .. n \/ i = n + 1
  BY <1>1
<1>11. Chain(m2, c2, n)
  <2>1. ASSUME NEW i \in 1 .. n
        PROVE  Framed(m2, c2[i]) /\ Linked(m2, c2[i], c2[i + 1])
    <3>1. Framed(m, c[i]) /\ Linked(m, c[i], c[i + 1]) /\ c2[i] = c[i] /\ IsContext(c[i])
      <4>1. i \in 1 .. n + 1
        BY <1>1
      <4> QED BY <1>3, <4>1 DEF Chain
    <3>2. CASE i < n
      <4>1. i + 1 \in 1 .. n /\ i + 1 \in 1 .. n + 1 /\ n + 1 \in 1 .. n + 1 /\ i + 1 < n + 1
        BY <1>1, <3>2
      <4>2. c[i + 1].spsel = 0
        BY <3>1 DEF Linked
      <4>3. a <= Base(c[i + 1])
        BY <1>o, <1>10, <4>1, <4>2
      <4>4. Base(c[i + 1]) < c[i + 1].sp /\ Base(c[i + 1]) \in Int /\ c[i + 1].sp \in Nat
        BY <1>c, <4>1, EntryFacts
      <4>5. c[i + 1].sp # a
        BY <1>6, <4>3, <4>4
      <4> QED BY <1>8, <1>9, <3>1, <4>1, <4>5 DEF Linked
    <3>3. CASE i = n
      <4>1. n # 0 /\ n > 0
        BY <1>1, <3>3
      <4>2. a = Entry(c[n]) - 1 /\ Entry(c[n]) \in Int /\ m[x.sp] = Word(10 + x.ipsr, ExcReturnFor(c[n]))
        BY <1>1, <1>2, <1>10, <4>1, EntryFacts
      <4>3. y.sp = Entry(c[n])
        BY <1>6, <1>10, <4>2
      <4>4. y.lr = ExcReturnFor(c[n])
        BY <4>2 DEF Word
      <4>5. y.ipsr > c[n].ipsr /\ y.spsel = 0
        BY <1>1, <4>1 DEF Linked
      <4>6. Linked(m2, c[n], y)
        BY <4>3, <4>4, <4>5 DEF Linked
      <4> QED BY <1>9, <3>1, <3>3, <4>6
    <3> QED BY <1>1, <3>2, <3>3
  <2>2. \A i \in 1 .. n + 1 : IsContext(c2[i]) /\ c2[i].ipsr >= i - 1
    <3>1. \A i \in 1 .. n + 1 : IsContext(c[i]) /\ c[i].ipsr >= i - 1
      BY <1>3 DEF Chain
    <3> QED BY <1>i, <3>1
  <2> QED BY <1>1, <2>1, <2>2 DEF Chain
<1>12. Order(c2, n, k)
  <2> DEFINE top == Top(0)
  <2>1. top \in Nat
    BY TopType, StackFacts
  <2>2. n > 0 => /\ n \in 1 .. n + 1 /\ n + 1 \in 1 .. n + 1 /\ n < n + 1
                 /\ y.sp = Entry(c[n]) /\ Entry(c[n]) \in Int
                 /\ Base(c[n]) < c[n].sp /\ Base(c[n]) \in Int /\ c[n].sp \in Nat /\ c[n].spsel \in {0, 1}
    <3> SUFFICES ASSUME n > 0
                 PROVE  /\ n \in 1 .. n + 1 /\ n + 1 \in 1 .. n + 1 /\ n < n + 1
                        /\ y.sp = Entry(c[n]) /\ Entry(c[n]) \in Int
                        /\ Base(c[n]) < c[n].sp /\ Base(c[n]) \in Int /\ c[n].sp \in Nat
                        /\ c[n].spsel \in {0, 1}
      OBVIOUS
    <3>1. n \in 1 .. n + 1 /\ n + 1 \in 1 .. n + 1 /\ n < n + 1 /\ n # 0
      BY <1>1
    <3>2. /\ Entry(c[n]) \in Int /\ Base(c[n]) < c[n].sp /\ Base(c[n]) \in Int /\ c[n].sp \in Nat
          /\ c[n].spsel \in {0, 1}
      BY <1>c, <3>1, EntryFacts
    <3>3. a = Entry(c[n]) - 1
      BY <1>2, <1>10, <3>1
    <3> QED BY <1>6, <1>10, <3>1, <3>2, <3>3
  <2>3. ASSUME y.spsel = 0
        PROVE  Top(0) - 28 * ((n + 1) - 1) - 1 <= y.sp /\ y.sp <= Top(0)
    <3>1. n + 1 \in 1 .. n + 1
      BY <1>1
    <3>2. top - 28 * ((n + 1) - 1) - 1 <= a
      BY <1>o, <1>10, <2>3, <3>1
    <3>3. y.sp <= top
      <4>1. CASE n = 0
        <5>1. k = 0 /\ a = top - 1
          BY <1>1, <1>2, <1>10, <2>3, <4>1 DEF Thread
        <5> HIDE DEF top
        <5> QED BY <1>6, <1>10, <2>1, <5>1
      <4>2. CASE n > 0
        <5>1. CASE c[n].spsel = 1
          <6>1. y.sp = Bottom /\ Bottom + 8 <= top /\ Bottom \in Nat
            BY <2>2, <4>2, <5>1, BottomFacts DEF Entry
          <6> HIDE DEF top
          <6> QED BY <2>1, <6>1
        <5>2. CASE c[n].spsel = 0
          <6>1. y.sp = Base(c[n]) /\ c[n].sp <= top
            BY <1>o, <2>2, <4>2, <5>2 DEF Entry
          <6> HIDE DEF top
          <6> QED BY <2>1, <2>2, <4>2, <6>1
        <5> QED BY <2>2, <4>2, <5>1, <5>2
      <4> QED BY <1>1, <4>1, <4>2
    <3>4. top - 28 * ((n + 1) - 1) - 1 <= y.sp
      <4> HIDE DEF top
      <4> QED BY <1>1, <1>6, <1>10, <2>1, <3>2
    <3> QED BY <3>3, <3>4
  <2>4. ASSUME NEW i \in 1 .. n, c[i].spsel = 0
        PROVE  y.sp <= Base(c[i])
    <3>1. n > 0 /\ i \in 1 .. n + 1
      BY <1>1
    <3>2. Base(c[i]) \in Int
      BY <1>c, <3>1, EntryFacts
    <3>3. CASE i = n
      BY <2>2, <2>4, <3>1, <3>2, <3>3 DEF Entry
    <3>4. CASE i < n
      <4>1. n > 1
        BY <1>1, <3>4
      <4>2. c[n].spsel = 0
        BY <2>2, <3>1, <4>1, Where
      <4>3. y.sp = Base(c[n]) /\ c[n].sp <= Base(c[i])
        BY <1>o, <2>2, <2>4, <3>1, <3>4, <4>2 DEF Entry
      <4> QED BY <2>2, <3>1, <3>2, <4>3
    <3> QED BY <1>1, <3>3, <3>4
  <2>5. ASSUME k # 0, n > 0 PROVE y.sp <= Bottom
    <3>1. CASE c[n].spsel = 1
      BY <2>2, <2>5, <3>1, BottomFacts DEF Entry
    <3>2. CASE c[n].spsel = 0
      <4>1. n # 1
        BY <2>5, <3>2, ThreadMode
      <4>2. n \in 2 .. n + 1
        BY <1>1, <2>5, <4>1
      <4>3. y.sp = Base(c[n]) /\ c[n].sp <= Bottom
        BY <1>o, <2>2, <2>5, <3>2, <4>2 DEF Entry
      <4> QED BY <2>2, <2>5, <4>3, BottomFacts
    <3> QED BY <2>2, <2>5, <3>1, <3>2
  <2>6. \A i \in 1 .. n + 1 :
            c2[i].spsel = 0 => Top(0) - 28 * (i - 1) - 1 <= c2[i].sp /\ c2[i].sp <= Top(0)
    BY <1>i, <1>o, <2>3
  <2>7. \A i, j \in 1 .. n + 1 : i < j /\ c2[i].spsel = 0 => c2[j].sp <= Base(c2[i])
    <3>1. ASSUME NEW i \in 1 .. n + 1, NEW j \in 1 .. n + 1, i < j, c2[i].spsel = 0
          PROVE  c2[j].sp <= Base(c2[i])
      <4>1. i \in 1 .. n
        BY <1>1, <3>1
      <4> QED BY <1>i, <1>o, <2>4, <3>1, <4>1
    <3> QED BY <3>1
  <2>8. k # 0 => \A i \in 2 .. n + 1 : c2[i].sp <= Bottom
    <3>1. \A i \in 2 .. n + 1 : n > 0 /\ (i \in 1 .. n \/ i = n + 1)
      BY <1>1
    <3> QED BY <1>o, <2>5, <3>1
  <2> QED BY <2>6, <2>7, <2>8 DEF Order
<1>13. Mode(m2, c2, n, k, msp2, psp2, park)
  <2>1. /\ k \in Stacks \cup {NoTask} /\ msp \in Nat /\ psp \in Nat
        /\ k # NoTask => Thread(c[1], k)
        /\ k = NoTask => n >= 1 /\ c[2].ipsr = Kernel /\ \E u \in Tasks : c[1] = park[u]
        /\ k # 0 => Bottom \in DOMAIN m /\ m[Bottom].kind = "frame"
        /\ k \in Tasks => IF n = 0 THEN msp = Bottom ELSE psp = Base(c[1])
    BY <1>3 DEF Mode
  <2>2. msp2 = (IF x.spsel = 1 THEN msp ELSE a + 1) /\ psp2 = (IF x.spsel = 1 THEN a + 1 ELSE psp)
    BY DEF a
  <2>3. msp2 \in Nat /\ psp2 \in Nat
    BY <1>6, <2>1, <2>2
  <2>4. y.sp = IF y.spsel = 1 THEN psp2 ELSE msp2
    BY <1>10, <2>2
  <2>5. k # NoTask => Thread(c2[1], k)
    <3>1. CASE n = 0
      <4> DEFINE top == Top(k)
      <4>1. /\ x.ipsr = 0 /\ x.spsel = (IF k = 0 THEN 0 ELSE 1) /\ x.fresh = {} /\ a = top - 1
            /\ k \in Stacks
        BY <1>1, <1>2, <1>10, <3>1 DEF Thread
      <4>2. top \in Nat
        BY <4>1, TopType
      <4>3. y.sp = top
        <5> HIDE DEF top
        <5> QED BY <1>6, <1>10, <4>1, <4>2
      <4>4. top \notin DOMAIN m2
        <5> SUFFICES ASSUME top \in DOMAIN m2 PROVE FALSE
          OBVIOUS
        <5> DEFINE z == m2[top].size
        <5>1. z \in Nat \ {0} /\ top + z <= Top(StackOf(top))
          BY <1>8, MemStack
        <5>2. Within(top, k)
          <6>1. StackSize \in Nat /\ StackSize >= 56
            BY StackFacts
          <6>2. top - StackSize < top /\ top <= top
            <7> HIDE DEF top
            <7> QED BY <4>2, <6>1
          <6> QED BY <6>2 DEF Within
        <5>3. StackOf(top) = k
          BY <4>1, <4>2, <5>2, StackIs
        <5>4. top + z <= top
          BY <5>1, <5>3
        <5> HIDE DEF top, z
        <5> QED BY <4>2, <5>1, <5>4
      <4>5. y.sp \notin DOMAIN y.stack
        BY <4>3, <4>4 DEF Above
      <4>6. Thread(y, k)
        BY <4>1, <4>3, <4>5 DEF Thread
      <4> QED BY <3>1, <4>6
    <3>2. CASE n > 0
      <4>1. 1 \in 1 .. n
        BY <1>1, <3>2
      <4> QED BY <2>1, <4>1
    <3> QED BY <1>1, <3>1, <3>2
  <2>6. k = NoTask => n >= 1 /\ c2[2].ipsr = Kernel /\ \E u \in Tasks : c2[1] = park[u]
    <3> SUFFICES ASSUME k = NoTask
                 PROVE  n >= 1 /\ c2[2].ipsr = Kernel /\ \E u \in Tasks : c2[1] = park[u]
      OBVIOUS
    <3>1. n >= 1 /\ c[2].ipsr = Kernel /\ \E u \in Tasks : c[1] = park[u]
      BY <2>1
    <3>2. 1 \in 1 .. n /\ (2 \in 1 .. n \/ n = 1)
      BY <1>1, <3>1
    <3>3. n = 1 => c2[2] = y /\ c[2] = x
      OBVIOUS
    <3> QED BY <3>1, <3>2, <3>3
  <2>7. k # 0 => Bottom \in DOMAIN m2 /\ m2[Bottom].kind = "frame"
    BY <1>4, <1>8, <2>1
  <2>8. k \in Tasks => IF n = 0 THEN msp2 = Bottom ELSE psp2 = Base(c2[1])
    <3> SUFFICES ASSUME k \in Tasks PROVE IF n = 0 THEN msp2 = Bottom ELSE psp2 = Base(c2[1])
      OBVIOUS
    <3>1. CASE n = 0
      BY <1>1, <2>1, <2>2, <3>1, StackFacts DEF Thread
    <3>2. CASE n > 0
      <4>1. 1 \in 1 .. n /\ x.spsel = 0 /\ n # 0
        BY <1>1, <3>2
      <4> QED BY <2>1, <2>2, <4>1
    <3> QED BY <1>1, <3>1, <3>2
  <2> QED BY <2>1, <2>3, <2>4, <2>5, <2>6, <2>7, <2>8 DEF Mode
<1>14. Parked(m2, k, park, tc)
  BY <1>3, <1>9 DEF Parked
<1>15. Low(m2, k, msp2, psp2, park)
  <2>1. ASSUME NEW b \in DOMAIN m2
        PROVE  b >= Lowest(k, msp2, psp2, park, StackOf(b))
    <3>1. b \in DOMAIN m /\ b # a
      BY <1>8
    <3>2. b >= Lowest(k, msp, psp, park, StackOf(b)) /\ b \in Int
      BY <1>3, <3>1 DEF Low, MemOk
    <3>3. CASE StackOf(b) = t
      <4>1. Lowest(k, msp2, psp2, park, t) = a + 1
        BY <1>1, <1>4 DEF Lowest, a
      <4>2. b >= a
        BY <1>7, <3>1, <3>3
      <4> QED BY <1>6, <3>1, <3>2, <3>3, <4>1, <4>2
    <3>4. CASE StackOf(b) # t
      <4>1. Lowest(k, msp2, psp2, park, StackOf(b)) = Lowest(k, msp, psp, park, StackOf(b))
        BY <1>1, <1>4, <3>4 DEF Lowest
      <4> QED BY <3>2, <4>1
    <3> QED BY <3>3, <3>4
  <2> QED BY <2>1 DEF Low
<1>16. FpReady(c2, n)
  <2>1. x.fresh # {} => x.ipsr # 0 /\ x.fresh = {x.fpscr}
    <3>1. n + 1 \in 1 .. n + 1
      BY <1>1
    <3> QED BY <1>3, <3>1 DEF FpReady
  <2> QED BY <1>i, <1>3, <2>1 DEF FpReady
<1> QED BY <1>8, <1>11, <1>12, <1>13, <1>14, <1>15, <1>16 DEF Good

(* Entry: the interrupted code joins the chain with a frame below its stack *)
(* pointer.                                                                 *)
LEMMA EnterStep ==
  ASSUME NEW m, NEW c, NEW n, NEW k, NEW msp, NEW psp, NEW park, NEW tc,
         Good(m, c, n, k, msp, psp, park, tc), NEW x, x = c[n + 1],
         NEW e \in Levels, e > x.ipsr, NEW c2, NEW y, NEW n2, n2 = n + 1,
         \A i \in 1 .. n2 : c2[i] = c[i], c2[n2 + 1] = y, IsContext(y),
         y.ipsr = e, y.spsel = 0, y.lr = ExcReturnFor(x),
         y.sp = IF x.spsel = 1 THEN msp ELSE Base(x),
         y.fresh = {y.fpscr},
         NEW m2, m2 = Store(m, Base(x), FrameOf(x)), y.stack = Above(m2, y.sp),
         NEW msp2, msp2 = IF x.spsel = 1 THEN msp ELSE Base(x),
         NEW psp2, psp2 = IF x.spsel = 1 THEN Base(x) ELSE psp
  PROVE  Good(m2, c2, n2, k, msp2, psp2, park, tc)
<1> DEFINE a == Base(x)
           t == StackOf(x.sp)
           w == FrameOf(x)
<1>1. /\ n \in Nat /\ IsContext(x) /\ t \in Stacks /\ n <= Depth
      /\ Within(x.sp, t) /\ Top(t) - StackSize + 26 < x.sp
      /\ t = (IF x.spsel = 1 THEN k ELSE 0)
      /\ \A b \in DOMAIN m : StackOf(b) = t => b >= x.sp
      /\ x.spsel = 1 => n = 0 /\ k \in Tasks /\ k # 0
      /\ n = 0 => k \in Stacks /\ k # NoTask /\ Thread(x, k) /\ x.ipsr = 0
      /\ n > 0 => /\ n \in 1 .. n /\ IsContext(c[n]) /\ Framed(m, c[n]) /\ Linked(m, c[n], x)
                  /\ x.ipsr > 0 /\ x.spsel = 0
  BY Running
<1>3. /\ MemOk(m) /\ Chain(m, c, n) /\ Order(c, n, k) /\ Mode(m, c, n, k, msp, psp, park)
      /\ Parked(m, k, park, tc) /\ Low(m, k, msp, psp, park) /\ FpReady(c, n)
  BY DEF Good
<1>4. /\ x.sp \in Nat /\ x.spsel \in {0, 1} /\ a \in Int /\ a < x.sp /\ a >= x.sp - 27
      /\ w.size \in Nat \ {0} /\ a + w.size <= x.sp /\ w.kind = "frame"
  <2>1. x.sp \in Int /\ x.sp \in Nat /\ x.fpca \in {0, 1} /\ x.spsel \in {0, 1}
    BY <1>1 DEF IsContext
  <2>2. FrameSize(x.fpca) \in Nat \ {0} /\ Base(x) + FrameSize(x.fpca) <= x.sp
    BY <2>1, BaseFacts
  <2>3. w.size = FrameSize(x.fpca) /\ w.kind = "frame"
    BY DEF FrameOf
  <2>4. Base(x) \in Int /\ Base(x) < x.sp /\ Base(x) >= x.sp - 27
    BY <1>1, EntryFacts
  <2> QED BY <2>1, <2>2, <2>3, <2>4
<1>o. /\ \A i \in 1 .. n + 1 :
           c[i].spsel = 0 => Top(0) - 28 * (i - 1) - 1 <= c[i].sp /\ c[i].sp <= Top(0)
      /\ \A i, j \in 1 .. n + 1 : i < j /\ c[i].spsel = 0 => c[j].sp <= Base(c[i])
      /\ k # 0 => \A i \in 2 .. n + 1 : c[i].sp <= Bottom
  BY <1>3 DEF Order
<1>c. \A i \in 1 .. n + 1 : IsContext(c[i]) /\ c[i].ipsr >= i - 1
  BY <1>3 DEF Chain
<1>n. n2 \in Nat /\ n2 = n + 1 /\ n2 \in 1 .. n + 1 /\ n2 <= e /\ e \in Nat /\ e <= Depth
  <2>1. n + 1 \in 1 .. n + 1 /\ e \in Nat /\ e <= Depth
    BY <1>1, StackFacts DEF Levels
  <2>2. x.ipsr >= (n + 1) - 1 /\ x.ipsr \in Nat
    BY <1>1, <1>c, <2>1, StackFacts DEF IsContext
  <2> QED BY <1>1, <2>1, <2>2
<1>i. \A i \in 1 .. n2 + 1 : i \in 1 .. n2 \/ i = n2 + 1
  BY <1>n
<1>5. x.spsel = 0 => /\ Top(0) - 28 * n - 1 <= x.sp /\ x.sp <= Top(0)
                     /\ Top(0) - 28 * n2 <= a /\ a <= Top(0) /\ Top(0) - StackSize < a
  <2> SUFFICES ASSUME x.spsel = 0
               PROVE  /\ Top(0) - 28 * n - 1 <= x.sp /\ x.sp <= Top(0)
                      /\ Top(0) - 28 * n2 <= a /\ a <= Top(0) /\ Top(0) - StackSize < a
    OBVIOUS
  <2> DEFINE top == Top(0)
             p == x.sp
  <2>1. top - 28 * ((n + 1) - 1) - 1 <= p /\ p <= top
    BY <1>o, <1>n
  <2>2. top \in Nat /\ StackSize \in Nat /\ StackSize >= 28 * (Depth + 1) /\ Depth \in Nat
    BY TopType, StackFacts
  <2>3. p \in Nat /\ a \in Int /\ a < p /\ a >= p - 27
    BY <1>4
  <2> HIDE DEF top, p, a
  <2>4. top - 28 * n - 1 <= p /\ top - 28 * n2 <= a /\ a <= top
    BY <1>1, <1>n, <2>1, <2>2, <2>3
  <2>5. 28 * n2 <= 28 * Depth
    BY <1>n, <2>2
  <2>6. top - StackSize < a
    BY <1>n, <2>2, <2>3, <2>4, <2>5
  <2> QED BY <2>1, <2>4, <2>6 DEF top, p
<1>6. Top(t) - StackSize < a /\ a + w.size <= Top(t) /\ a \in Nat
  <2> DEFINE top == Top(t)
             p == x.sp
             z == w.size
  <2>1. top \in Nat /\ top >= StackSize /\ StackSize \in Nat /\ StackSize >= 56 /\ p <= top
    BY <1>1, TopType, StackFacts DEF Within
  <2>2. top - StackSize < a
    <3>1. CASE x.spsel = 0
      BY <1>1, <1>5, <3>1
    <3>2. CASE x.spsel = 1
      <4>1. p = top \/ p = top - 1
        BY <1>1, <3>2 DEF Thread
      <4> HIDE DEF top, p, a
      <4> QED BY <1>4, <2>1, <4>1 DEF p
    <3> QED BY <1>4, <3>1, <3>2
  <2>3. p \in Nat /\ z \in Nat \ {0} /\ a \in Int /\ a + z <= p
    BY <1>4
  <2>4. a + z <= top /\ a \in Nat
    <3> HIDE DEF top, p, a, z
    <3> QED BY <2>1, <2>2, <2>3
  <2> QED BY <2>2, <2>4
<1> HIDE DEF a, t, w
<1>7. m2 = Store(m, a, w)
  BY DEF a, w
<1>8. \A b \in DOMAIN m : StackOf(b) = t => b >= a + w.size
  <2>1. \A b \in DOMAIN m : b \in Int
    BY <1>3 DEF MemOk
  <2>2. \A b \in Int : b >= x.sp => b >= a + w.size
    BY <1>4
  <2> QED BY <1>1, <2>1, <2>2
<1>9. w.size \in Nat \ {0} /\ (w.kind = "word" => w.lr \in Lrs)
  BY <1>4
<1>10. /\ DOMAIN m2 = DOMAIN m \cup {a} /\ a \notin DOMAIN m /\ m2[a] = w /\ StackOf(a) = t
       /\ \A b \in DOMAIN m : m2[b] = m[b]
       /\ MemOk(m2)
  <2>1. /\ DOMAIN Store(m, a, w) = DOMAIN m \cup {a} /\ a \notin DOMAIN m
        /\ Store(m, a, w)[a] = w /\ StackOf(a) = t
        /\ \A b \in DOMAIN m : Store(m, a, w)[b] = m[b]
        /\ MemOk(Store(m, a, w))
    <3>1. t \in Stacks /\ a \in Int /\ MemOk(m)
      BY <1>1, <1>3, <1>6
    <3>2. w.kind = "word" => w.lr \in Lrs
      BY <1>9
    <3> QED BY <1>6, <1>8, <1>9, <3>1, <3>2, StoreBelow, Zenon
  <2> QED BY <1>7, <2>1
<1>11. \A z : IsContext(z) /\ Framed(m, z) => Framed(m2, z)
  <2> SUFFICES ASSUME NEW z, IsContext(z), Framed(m, z) PROVE Framed(m2, z)
    OBVIOUS
  <2>1. z.sp \in Int /\ z.fpca \in {0, 1}
    BY DEF IsContext
  <2> QED BY <1>1, <1>3, <1>4, <1>6, <1>7, <1>8, <1>9, <2>1, StoreFramed
<1>12. Framed(m2, x)
  <2>1. StackOf(Base(x)) = StackOf(x.sp) /\ Base(x) \in DOMAIN m2 /\ m2[Base(x)] = FrameOf(x)
    BY <1>10 DEF a, t, w
  <2>2. x.stack = [b \in {b \in DOMAIN m : StackOf(b) = StackOf(x.sp) /\ b >= x.sp} |-> m[b]]
    BY <1>3 DEF Chain, Above
  <2>3. ~(a >= x.sp)
    BY <1>4 DEF a
  <2>4. {b \in DOMAIN m2 : StackOf(b) = StackOf(x.sp) /\ b >= x.sp}
        = {b \in DOMAIN m : StackOf(b) = StackOf(x.sp) /\ b >= x.sp}
    BY <1>10, <2>3
  <2>5. x.stack = [b \in {b \in DOMAIN m2 : StackOf(b) = StackOf(x.sp) /\ b >= x.sp} |-> m2[b]]
    BY <1>10, <2>2, <2>4
  <2>6. \A b \in DOMAIN m2 : StackOf(b) = StackOf(x.sp) /\ b > Base(x) => b >= x.sp
    <3>1. ~(a > a)
      BY <1>4 DEF a
    <3> QED BY <1>1, <1>10, <3>1 DEF a, t
  <2> QED BY <2>1, <2>5, <2>6 DEF Framed, Above
<1>m. /\ k \in Stacks \cup {NoTask} /\ msp \in Nat /\ psp \in Nat
      /\ k # NoTask => Thread(c[1], k)
      /\ k = NoTask => n >= 1 /\ c[2].ipsr = Kernel /\ \E u \in Tasks : c[1] = park[u]
      /\ k # 0 => Bottom \in DOMAIN m /\ m[Bottom].kind = "frame"
      /\ k \in Tasks => IF n = 0 THEN msp = Bottom ELSE psp = Base(c[1])
  BY <1>3 DEF Mode
<1>13. y.sp = Entry(x) /\ Linked(m2, x, y) /\ y.sp = msp2 /\ (x.spsel = 0 => y.sp = a)
       /\ (x.spsel = 1 => y.sp = Bottom)
  <2>1. x.spsel = 1 => msp = Bottom
    BY <1>1, <1>m
  <2>2. y.sp = Entry(x)
    BY <1>4, <2>1 DEF Entry
  <2>3. y.ipsr > x.ipsr
    OBVIOUS
  <2> QED BY <1>4, <2>1, <2>2, <2>3 DEF Linked, a
<1>14. Chain(m2, c2, n2)
  <2>1. ASSUME NEW i \in 1 .. n2
        PROVE  Framed(m2, c2[i]) /\ Linked(m2, c2[i], c2[i + 1])
    <3>1. CASE i = n2
      BY <1>n, <1>12, <1>13, <3>1
    <3>2. CASE i # n2
      <4>1. i \in 1 .. n /\ i \in 1 .. n + 1 /\ i + 1 \in 1 .. n2
        BY <1>n, <1>1, <3>2
      <4>2. Framed(m, c[i]) /\ Linked(m, c[i], c[i + 1]) /\ IsContext(c[i])
        BY <1>3, <1>c, <4>1 DEF Chain
      <4> QED BY <1>10, <1>11, <4>1, <4>2 DEF Linked
    <3> QED BY <3>1, <3>2
  <2>2. \A i \in 1 .. n2 + 1 : IsContext(c2[i]) /\ c2[i].ipsr >= i - 1
    <3>1. y.ipsr >= (n2 + 1) - 1
      BY <1>n
    <3>2. \A i \in 1 .. n2 : i \in 1 .. n + 1
      BY <1>n
    <3> QED BY <1>c, <1>i, <3>1, <3>2
  <2> QED BY <1>n, <2>1, <2>2 DEF Chain
<1>15. Order(c2, n2, k)
  <2>0. \A i \in 1 .. n2 : i \in 1 .. n + 1
    BY <1>n
  <2>1. Top(0) - 28 * ((n2 + 1) - 1) - 1 <= y.sp /\ y.sp <= Top(0)
    <3> DEFINE top == Top(0)
    <3>0. top \in Nat
      BY TopType, StackFacts
    <3>1. CASE x.spsel = 0
      <4>1. y.sp = a /\ top - 28 * n2 <= a /\ a <= top
        BY <1>5, <1>13, <3>1
      <4> HIDE DEF top
      <4> QED BY <1>n, <1>6, <3>0, <4>1 DEF top
    <3>2. CASE x.spsel = 1
      <4>1. y.sp = top - 8 /\ n2 = 1
        BY <1>1, <1>n, <1>13, <3>2, BottomFacts
      <4>2. top - 28 * ((1 + 1) - 1) - 1 <= top - 8 /\ top - 8 <= top
        <5> HIDE DEF top
        <5> QED BY <3>0
      <4> QED BY <4>1, <4>2
    <3> QED BY <1>4, <3>1, <3>2
  <2>2. ASSUME NEW i \in 1 .. n2, c[i].spsel = 0
        PROVE  y.sp <= Base(c[i])
    <3>1. Base(c[i]) \in Int
      BY <1>c, <2>0, EntryFacts
    <3>2. CASE i = n2
      <4>1. y.sp = Base(c[i])
        BY <1>n, <1>13, <2>2, <3>2 DEF a
      <4> QED BY <3>1, <4>1
    <3>3. CASE i # n2
      <4>1. i < n + 1 /\ n > 0 /\ i \in 1 .. n + 1 /\ n + 1 \in 1 .. n + 1
        BY <1>1, <1>n, <3>3
      <4>2. x.sp <= Base(c[i]) /\ x.spsel = 0
        BY <1>1, <1>o, <2>2, <4>1
      <4>3. y.sp = a /\ a < x.sp
        BY <1>4, <1>13, <4>2 DEF a
      <4> QED BY <1>4, <1>6, <3>1, <4>2, <4>3
    <3> QED BY <3>2, <3>3
  <2>3. ASSUME k # 0 PROVE y.sp <= Bottom
    <3>1. CASE x.spsel = 1
      BY <1>13, <3>1, BottomFacts
    <3>2. CASE x.spsel = 0
      <4>1. n # 0
        BY <2>3, <3>2, ThreadMode
      <4>2. n + 1 \in 2 .. n + 1
        BY <1>1, <4>1
      <4>3. x.sp <= Bottom /\ y.sp = a /\ a < x.sp
        BY <1>o, <1>4, <1>13, <2>3, <3>2, <4>2 DEF a
      <4> QED BY <1>4, <1>6, <4>3, BottomFacts
    <3> QED BY <1>4, <3>1, <3>2
  <2>6. \A i \in 1 .. n2 + 1 :
            c2[i].spsel = 0 => Top(0) - 28 * (i - 1) - 1 <= c2[i].sp /\ c2[i].sp <= Top(0)
    BY <1>i, <1>o, <2>0, <2>1
  <2>7. \A i, j \in 1 .. n2 + 1 : i < j /\ c2[i].spsel = 0 => c2[j].sp <= Base(c2[i])
    <3>1. ASSUME NEW i \in 1 .. n2 + 1, NEW j \in 1 .. n2 + 1, i < j, c2[i].spsel = 0
          PROVE  c2[j].sp <= Base(c2[i])
      <4>1. i \in 1 .. n2
        BY <1>n, <3>1
      <4>2. CASE j = n2 + 1
        BY <2>2, <3>1, <4>1, <4>2
      <4>3. CASE j \in 1 .. n2
        BY <1>o, <2>0, <3>1, <4>1, <4>3
      <4> QED BY <1>i, <4>2, <4>3
    <3> QED BY <3>1
  <2>8. k # 0 => \A i \in 2 .. n2 + 1 : c2[i].sp <= Bottom
    <3>1. \A i \in 2 .. n2 + 1 : (i \in 1 .. n2 /\ i \in 2 .. n + 1) \/ i = n2 + 1
      BY <1>n
    <3> QED BY <1>o, <2>3, <3>1
  <2> QED BY <2>6, <2>7, <2>8 DEF Order
<1>16. Mode(m2, c2, n2, k, msp2, psp2, park)
  <2>1. 1 \in 1 .. n2 /\ n2 # 0 /\ n2 >= 1
    BY <1>1, <1>n
  <2>2. msp2 \in Nat /\ psp2 \in Nat
    BY <1>6, <1>m DEF a
  <2>3. k = NoTask => n2 >= 1 /\ c2[2].ipsr = Kernel /\ \E u \in Tasks : c2[1] = park[u]
    <3> SUFFICES ASSUME k = NoTask
                 PROVE  n2 >= 1 /\ c2[2].ipsr = Kernel /\ \E u \in Tasks : c2[1] = park[u]
      OBVIOUS
    <3>1. n >= 1
      BY <1>m
    <3>2. 2 \in 1 .. n2
      BY <1>1, <1>n, <3>1
    <3> QED BY <1>m, <2>1, <3>2
  <2>4. k # 0 => Bottom \in DOMAIN m2 /\ m2[Bottom].kind = "frame"
    BY <1>10, <1>m
  <2>5. k \in Tasks => psp2 = Base(c2[1])
    <3> SUFFICES ASSUME k \in Tasks PROVE psp2 = Base(c2[1])
      OBVIOUS
    <3>1. CASE n = 0
      <4>1. x.spsel = 1 /\ c2[1] = x
        BY <1>1, <1>n, <2>1, <3>1, StackFacts DEF Thread
      <4> QED BY <4>1
    <3>2. CASE n > 0
      BY <1>1, <1>m, <2>1, <3>2
    <3> QED BY <1>1, <3>1, <3>2
  <2>6. k # NoTask => Thread(c2[1], k)
    BY <1>m, <2>1
  <2>7. y.sp = IF y.spsel = 1 THEN psp2 ELSE msp2
    BY <1>13
  <2> QED BY <1>m, <2>1, <2>2, <2>3, <2>4, <2>5, <2>6, <2>7 DEF Mode
<1>17. Parked(m2, k, park, tc)
  BY <1>3, <1>11 DEF Parked
<1>18. Low(m2, k, msp2, psp2, park)
  <2>1. ASSUME NEW b \in DOMAIN m2
        PROVE  b >= Lowest(k, msp2, psp2, park, StackOf(b))
    <3>1. CASE b = a
      <4>1. Lowest(k, msp2, psp2, park, t) = a
        BY <1>1, <1>4 DEF Lowest, a
      <4> QED BY <1>6, <1>10, <3>1, <4>1
    <3>2. CASE b \in DOMAIN m
      <4>1. b >= Lowest(k, msp, psp, park, StackOf(b)) /\ b \in Int
        BY <1>3, <3>2 DEF Low, MemOk
      <4>2. CASE StackOf(b) = t
        <5>1. Lowest(k, msp2, psp2, park, t) = a
          BY <1>1, <1>4 DEF Lowest, a
        <5>2. b >= x.sp /\ a < x.sp
          BY <1>1, <1>4, <3>2, <4>2 DEF a
        <5> QED BY <1>4, <1>6, <4>1, <4>2, <5>1, <5>2
      <4>3. CASE StackOf(b) # t
        <5>1. Lowest(k, msp2, psp2, park, StackOf(b)) = Lowest(k, msp, psp, park, StackOf(b))
          BY <1>1, <1>4, <4>3 DEF Lowest
        <5> QED BY <4>1, <5>1
      <4> QED BY <4>2, <4>3
    <3> QED BY <1>10, <3>1, <3>2
  <2> QED BY <2>1 DEF Low
<1>19. FpReady(c2, n2)
  <2>1. \A i \in 1 .. n2 : i \in 1 .. n + 1
    BY <1>n
  <2>2. y.ipsr # 0
    BY <1>n
  <2> QED BY <1>i, <1>3, <2>1, <2>2 DEF FpReady
<1> QED BY <1>10, <1>14, <1>15, <1>16, <1>17, <1>18, <1>19 DEF Good

(* What the running handler returns to, and where it finds the frame.       *)
LEMMA ExitFacts ==
  ASSUME NEW m, NEW c, NEW n, NEW k, NEW msp, NEW psp, NEW park, NEW tc,
         Good(m, c, n, k, msp, psp, park, tc), n > 0, NEW r, r = c[n + 1], NEW x, x = c[n],
         r.lr \in ExcReturns, r.ipsr = Kernel => k # NoTask
  PROVE  /\ n \in Nat /\ n \in 1 .. n + 1 /\ IsContext(x) /\ Framed(m, x) /\ r.ipsr > x.ipsr
         /\ r.spsel = 0 /\ r.sp = Entry(x) /\ r.sp = msp /\ r.lr = ExcReturnFor(x)
         /\ x.spsel = 1 => n = 1 /\ k \in Tasks /\ k # 0 /\ psp = Base(x) /\ msp = Bottom
                           /\ StackOf(x.sp) = k
         /\ x.spsel = 0 => msp = Base(x) /\ StackOf(x.sp) = 0
         /\ k = NoTask => n > 1
<1>1. /\ n \in Nat /\ IsContext(r) /\ n \in 1 .. n /\ IsContext(x) /\ Framed(m, x)
      /\ Linked(m, x, r) /\ r.ipsr > 0 /\ r.spsel = 0
  BY Running
<1>2. r.lr # CallLr
  BY DEF ExcReturns, ThreadReturns, WithFp, ToMsp, ToPsp, ToHandler, CallLr
<1>3. r.sp = Entry(x) /\ r.lr = ExcReturnFor(x) /\ r.ipsr > x.ipsr
  BY <1>1, <1>2 DEF Linked
<1>4. /\ k \in Stacks \cup {NoTask} /\ msp \in Nat /\ psp \in Nat
      /\ r.sp = msp
      /\ k = NoTask => n >= 1 /\ c[2].ipsr = Kernel /\ \E t \in Tasks : c[1] = park[t]
      /\ k \in Tasks => IF n = 0 THEN msp = Bottom ELSE psp = Base(c[1])
  BY <1>1 DEF Good, Mode
<1>5. n \in 1 .. n + 1 /\ n # 0
  BY <1>1
<1>6. k = NoTask => n > 1
  <2> SUFFICES ASSUME k = NoTask, n = 1 PROVE FALSE
    BY <1>1, <1>5
  <2>1. c[2] = r
    OBVIOUS
  <2> QED BY <1>4, <2>1
<1>7. /\ x.spsel = 0 => StackOf(x.sp) = 0
      /\ x.spsel = 1 => n = 1 /\ StackOf(x.sp) \in Tasks /\ k # 0 /\ (k # NoTask => StackOf(x.sp) = k)
  BY <1>5, Where
<1>8. x.spsel = 1 => n = 1 /\ k \in Tasks /\ k # 0 /\ psp = Base(x) /\ msp = Bottom /\ StackOf(x.sp) = k
  <2> SUFFICES ASSUME x.spsel = 1
               PROVE  n = 1 /\ k \in Tasks /\ k # 0 /\ psp = Base(x) /\ msp = Bottom /\ StackOf(x.sp) = k
    OBVIOUS
  <2>1. n = 1 /\ k # NoTask /\ k # 0 /\ StackOf(x.sp) = k
    BY <1>6, <1>7
  <2>2. k \in Tasks
    BY <1>7, <2>1
  <2> QED BY <1>3, <1>4, <2>1, <2>2 DEF Entry
<1>9. x.spsel = 0 => msp = Base(x)
  BY <1>3, <1>4 DEF Entry
<1> QED BY <1>1, <1>3, <1>4, <1>5, <1>6, <1>7, <1>8, <1>9

(* Return: the frame goes, the interrupted code runs again.                 *)
LEMMA ExitStep ==
  ASSUME NEW m, NEW c, NEW n, NEW k, NEW msp, NEW psp, NEW park, NEW tc,
         Good(m, c, n, k, msp, psp, park, tc), n > 0, NEW r, r = c[n + 1], NEW x, x = c[n],
         r.lr \in ExcReturns, r.ipsr = Kernel => k # NoTask,
         NEW c2, NEW n2, n2 = n - 1, \A i \in 1 .. n : c2[i] = c[i],
         NEW m2, m2 = Free(m, Base(x), x.sp),
         NEW msp2, msp2 = IF x.spsel = 1 THEN msp ELSE x.sp,
         NEW psp2, psp2 = IF x.spsel = 1 THEN x.sp ELSE psp
  PROVE  Good(m2, c2, n2, k, msp2, psp2, park, tc) /\ Above(m2, x.sp) = x.stack
<1> DEFINE a == Base(x)
           t == StackOf(x.sp)
<1>1. /\ n \in Nat /\ n \in 1 .. n + 1 /\ IsContext(x) /\ Framed(m, x) /\ r.ipsr > x.ipsr
      /\ r.spsel = 0 /\ r.sp = Entry(x) /\ r.sp = msp /\ r.lr = ExcReturnFor(x)
      /\ x.spsel = 1 => n = 1 /\ k \in Tasks /\ k # 0 /\ psp = Base(x) /\ msp = Bottom
                        /\ StackOf(x.sp) = k
      /\ x.spsel = 0 => msp = Base(x) /\ StackOf(x.sp) = 0
      /\ k = NoTask => n > 1
  BY ExitFacts
<1>2. /\ MemOk(m) /\ Chain(m, c, n) /\ Order(c, n, k) /\ Mode(m, c, n, k, msp, psp, park)
      /\ Parked(m, k, park, tc) /\ Low(m, k, msp, psp, park) /\ FpReady(c, n)
  BY DEF Good
<1>3. /\ x.sp \in Nat /\ x.spsel \in {0, 1} /\ a \in Int /\ a < x.sp /\ a \in DOMAIN m /\ StackOf(a) = t
      /\ t \in Stacks /\ x.sp <= Top(t) /\ Top(t) - StackSize < a
  <2>1. a \in DOMAIN m /\ StackOf(a) = t
    BY <1>1 DEF Framed
  <2>2. t \in Stacks /\ x.sp <= Top(t)
    BY <1>1, Where DEF Within
  <2>3. Top(t) - StackSize < a
    BY <1>2, <2>1, MemStack DEF Within
  <2> QED BY <1>1, <2>1, <2>2, <2>3, EntryFacts
<1>o. /\ \A i \in 1 .. n + 1 :
           c[i].spsel = 0 => Top(0) - 28 * (i - 1) - 1 <= c[i].sp /\ c[i].sp <= Top(0)
      /\ \A i, j \in 1 .. n + 1 : i < j /\ c[i].spsel = 0 => c[j].sp <= Base(c[i])
      /\ k # 0 => \A i \in 2 .. n + 1 : c[i].sp <= Bottom
  BY <1>2 DEF Order
<1>c. \A i \in 1 .. n + 1 : IsContext(c[i]) /\ c[i].ipsr >= i - 1
  BY <1>2 DEF Chain
<1>m. /\ k \in Stacks \cup {NoTask} /\ msp \in Nat /\ psp \in Nat
      /\ k # NoTask => Thread(c[1], k)
      /\ k = NoTask => n >= 1 /\ c[2].ipsr = Kernel /\ \E u \in Tasks : c[1] = park[u]
      /\ k # 0 => Bottom \in DOMAIN m /\ m[Bottom].kind = "frame"
      /\ k \in Tasks => IF n = 0 THEN msp = Bottom ELSE psp = Base(c[1])
  BY <1>2 DEF Mode
<1>n. /\ n2 \in Nat /\ n2 + 1 = n /\ n2 < n /\ n >= 1
      /\ \A i \in 1 .. n2 + 1 : i \in 1 .. n + 1 /\ i \in 1 .. n
      /\ \A i \in 1 .. n2 : i \in 1 .. n + 1 /\ i \in 1 .. n /\ i < n /\ i + 1 \in 1 .. n
                            /\ i + 1 \in 1 .. n + 1
  BY <1>1
<1>4. Lowest(k, msp, psp, park, t) = a
  BY <1>1, <1>3 DEF Lowest
<1>5. \A b \in DOMAIN m : StackOf(b) = t => b >= a
  BY <1>2, <1>4 DEF Low
<1> HIDE DEF a, t
<1>6. /\ \A b : b \in DOMAIN m2 <=> b \in DOMAIN m /\ ~(StackOf(b) = t /\ b < x.sp)
      /\ \A b \in DOMAIN m2 : m2[b] = m[b]
      /\ MemOk(m2)
  <2>1. m2 = Free(m, a, x.sp) /\ x.sp \in Int
    BY <1>3 DEF a
  <2> QED BY <1>2, <1>3, <1>5, <2>1, FreeLow
<1>7. ASSUME NEW z, IsContext(z), Framed(m, z), StackOf(z.sp) = t => Base(z) >= x.sp
      PROVE  Framed(m2, z)
  <2>1. z.sp \in Int /\ z.fpca \in {0, 1}
    BY <1>7 DEF IsContext
  <2>2. m2 = Free(m, a, x.sp) /\ x.sp \in Int
    BY <1>3 DEF a
  <2> QED BY <1>2, <1>3, <1>5, <1>7, <2>1, <2>2, FreeFramed
<1>8. ASSUME NEW i \in 1 .. n, i < n, StackOf(c[i].sp) = t
      PROVE  x.sp <= Base(c[i])
  <2>1. x.spsel = 0 /\ t = 0
    <3>1. n # 1
      BY <1>1, <1>8
    <3> QED BY <1>1, <1>3, <3>1 DEF t
  <2>2. i \in 1 .. n + 1
    BY <1>1
  <2>3. c[i].spsel = 0
    <3>1. c[i].spsel = 1 => StackOf(c[i].sp) # 0
      BY <2>2, Where
    <3>2. c[i].spsel \in {0, 1}
      BY <1>c, <2>2 DEF IsContext
    <3> QED BY <1>8, <2>1, <3>1, <3>2
  <2> QED BY <1>1, <1>8, <1>o, <2>2, <2>3
<1>9. Above(m2, x.sp) = x.stack
  <2>1. x.stack = [b \in {b \in DOMAIN m : StackOf(b) = t /\ b >= x.sp} |-> m[b]]
    BY <1>1 DEF Framed, Above, t
  <2>2. \A b \in DOMAIN m : b \in Int
    BY <1>2 DEF MemOk
  <2>3. {b \in DOMAIN m2 : StackOf(b) = t /\ b >= x.sp} = {b \in DOMAIN m : StackOf(b) = t /\ b >= x.sp}
    <3>1. \A b \in Int : b >= x.sp => ~(b < x.sp)
      BY <1>3
    <3> QED BY <1>6, <2>2, <3>1
  <2>4. x.stack = [b \in {b \in DOMAIN m2 : StackOf(b) = t /\ b >= x.sp} |-> m2[b]]
    BY <1>6, <2>1, <2>3
  <2> QED BY <2>4 DEF Above, t
<1>10. Chain(m2, c2, n2)
  <2>1. ASSUME NEW i \in 1 .. n2
        PROVE  Framed(m2, c2[i]) /\ Linked(m2, c2[i], c2[i + 1])
    <3>1. /\ i \in 1 .. n + 1 /\ i \in 1 .. n /\ i < n /\ i + 1 \in 1 .. n /\ i + 1 \in 1 .. n + 1
      BY <1>n
    <3>2. c2[i] = c[i] /\ c2[i + 1] = c[i + 1] /\ Framed(m, c[i]) /\ Linked(m, c[i], c[i + 1])
          /\ IsContext(c[i])
      BY <1>2, <1>c, <3>1 DEF Chain
    <3>3. StackOf(c[i].sp) = t => Base(c[i]) >= x.sp
      <4>1. Base(c[i]) \in Int
        BY <3>2, EntryFacts
      <4> QED BY <1>3, <1>8, <3>1, <4>1
    <3>4. Framed(m2, c[i])
      BY <1>7, <3>2, <3>3
    <3>5. c[i + 1].sp >= x.sp
      <4> DEFINE z == c[i + 1]
      <4>1. IsContext(z) /\ z.spsel = 0 /\ z.sp \in Nat /\ Base(z) \in Int /\ Base(z) < z.sp
        BY <1>c, <3>1, <3>2, EntryFacts DEF Linked
      <4>2. CASE i + 1 = n
        BY <1>3, <4>2
      <4>3. CASE i + 1 < n
        <5>1. x.sp <= Base(z)
          BY <1>1, <1>o, <3>1, <4>1, <4>3
        <5> HIDE DEF z
        <5>2. z.sp >= x.sp
          BY <1>3, <4>1, <5>1
        <5> QED BY <5>2 DEF z
      <4> QED BY <1>1, <3>1, <4>2, <4>3
    <3>6. c[i + 1].sp \in Nat
      BY <1>c, <3>1, EntryFacts
    <3>7. ~(c[i + 1].sp < x.sp)
      BY <1>3, <3>5, <3>6
    <3>8. Linked(m2, c[i], c[i + 1])
      BY <1>6, <3>2, <3>7 DEF Linked
    <3> QED BY <3>2, <3>4, <3>8
  <2>2. \A i \in 1 .. n2 + 1 : IsContext(c2[i]) /\ c2[i].ipsr >= i - 1
    BY <1>c, <1>n
  <2>3. c2[n2 + 1] = x
    BY <1>1, <1>n
  <2> QED BY <1>n, <1>9, <2>1, <2>2, <2>3 DEF Chain
<1>11. Order(c2, n2, k)
  <2>1. \A i \in 2 .. n2 + 1 : i \in 2 .. n + 1 /\ i \in 1 .. n
    BY <1>1, <1>n
  <2> QED BY <1>n, <1>o, <2>1 DEF Order
<1>12. Mode(m2, c2, n2, k, msp2, psp2, park)
  <2>1. 1 \in 1 .. n /\ c2[1] = c[1] /\ c2[n2 + 1] = x
    BY <1>1, <1>n
  <2>2. msp2 \in Nat /\ psp2 \in Nat
    BY <1>3, <1>m
  <2>3. k = NoTask => n2 >= 1 /\ c2[2].ipsr = Kernel /\ \E u \in Tasks : c2[1] = park[u]
    <3> SUFFICES ASSUME k = NoTask
                 PROVE  n2 >= 1 /\ c2[2].ipsr = Kernel /\ \E u \in Tasks : c2[1] = park[u]
      OBVIOUS
    <3>1. n > 1
      BY <1>1
    <3>2. 2 \in 1 .. n /\ n2 >= 1
      BY <1>1, <1>n, <3>1
    <3> QED BY <1>m, <2>1, <3>2
  <2>4. k # 0 => Bottom \in DOMAIN m2 /\ m2[Bottom].kind = "frame"
    <3> SUFFICES ASSUME k # 0 PROVE Bottom \in DOMAIN m2 /\ m2[Bottom].kind = "frame"
      OBVIOUS
    <3>1. ~(StackOf(Bottom) = t /\ Bottom < x.sp)
      <4>1. CASE x.spsel = 1
        <5>1. t # 0
          BY <1>1, <4>1 DEF t
        <5> QED BY <5>1, BottomFacts
      <4>2. CASE x.spsel = 0
        <5>1. n # 1
          BY <4>2, ThreadMode
        <5>2. n \in 2 .. n + 1
          BY <1>1, <5>1
        <5>3. x.sp <= Bottom
          BY <1>o, <5>2
        <5> QED BY <1>3, <5>3, BottomFacts
      <4> QED BY <1>3, <4>1, <4>2
    <3> QED BY <1>6, <1>m, <3>1
  <2>5. k \in Tasks => IF n2 = 0 THEN msp2 = Bottom ELSE psp2 = Base(c2[1])
    <3> SUFFICES ASSUME k \in Tasks PROVE IF n2 = 0 THEN msp2 = Bottom ELSE psp2 = Base(c2[1])
      OBVIOUS
    <3>1. CASE n2 = 0
      <4>1. n = 1 /\ k # 0
        BY <1>n, <3>1, StackFacts
      <4>2. x.spsel = 1
        BY <4>1, ThreadMode
      <4> QED BY <1>1, <3>1, <4>2
    <3>2. CASE n2 # 0
      <4>1. n # 1 /\ n # 0
        BY <1>n, <3>2
      <4>2. x.spsel = 0
        BY <1>1, <1>3, <4>1
      <4> QED BY <1>m, <2>1, <3>2, <4>1, <4>2
    <3> QED BY <3>1, <3>2
  <2>6. k # NoTask => Thread(c2[1], k)
    BY <1>m, <2>1
  <2>7. x.sp = IF x.spsel = 1 THEN psp2 ELSE msp2
    OBVIOUS
  <2> QED BY <1>m, <2>1, <2>2, <2>3, <2>4, <2>5, <2>6, <2>7 DEF Mode
<1>13. Parked(m2, k, park, tc)
  <2>1. ASSUME NEW u \in Tasks, u # k PROVE Framed(m2, park[u])
    <3>1. IsContext(park[u]) /\ Framed(m, park[u]) /\ StackOf(park[u].sp) = u
      BY <2>1, ParkedElsewhere
    <3>2. u # t
      BY <1>1, <1>3, <2>1, StackFacts DEF t
    <3> QED BY <1>7, <3>1, <3>2
  <2> QED BY <1>2, <2>1 DEF Parked
<1>14. Low(m2, k, msp2, psp2, park)
  <2>1. ASSUME NEW b \in DOMAIN m2
        PROVE  b >= Lowest(k, msp2, psp2, park, StackOf(b))
    <3>1. b \in DOMAIN m /\ ~(StackOf(b) = t /\ b < x.sp)
      BY <1>6
    <3>2. b >= Lowest(k, msp, psp, park, StackOf(b)) /\ b \in Int
      BY <1>2, <3>1 DEF Low, MemOk
    <3>3. CASE StackOf(b) = t
      <4>1. Lowest(k, msp2, psp2, park, t) = x.sp
        BY <1>1, <1>3 DEF Lowest, t
      <4>2. b >= x.sp
        BY <1>3, <3>1, <3>2, <3>3
      <4> QED BY <3>3, <4>1, <4>2
    <3>4. CASE StackOf(b) # t
      <4>1. Lowest(k, msp2, psp2, park, StackOf(b)) = Lowest(k, msp, psp, park, StackOf(b))
        BY <1>1, <1>3, <3>4 DEF Lowest, t
      <4> QED BY <3>2, <4>1
    <3> QED BY <3>3, <3>4
  <2> QED BY <2>1 DEF Low
<1>15. FpReady(c2, n2)
  BY <1>2, <1>n DEF FpReady
<1> QED BY <1>6, <1>9, <1>10, <1>11, <1>12, <1>13, <1>14, <1>15 DEF Good

(* Steps that leave the running code where it is.                           *)
LEMMA QuietStep ==
  ASSUME NEW m, NEW c, NEW n, NEW k, NEW msp, NEW psp, NEW park, NEW tc,
         Good(m, c, n, k, msp, psp, park, tc), NEW x, x = c[n + 1],
         NEW c2, NEW y, \A i \in 1 .. n : c2[i] = c[i], c2[n + 1] = y, IsContext(y),
         y.ipsr = x.ipsr, y.spsel = x.spsel, y.sp = x.sp, y.lr = x.lr, y.stack = x.stack,
         y.fresh # {} => x.fresh # {} /\ y.fresh = {y.fpscr}
  PROVE  Good(m, c2, n, k, msp, psp, park, tc)
<1>1. /\ MemOk(m) /\ Chain(m, c, n) /\ Order(c, n, k) /\ Mode(m, c, n, k, msp, psp, park)
      /\ Parked(m, k, park, tc) /\ Low(m, k, msp, psp, park) /\ FpReady(c, n)
  BY DEF Good
<1>2. n \in Nat /\ n + 1 \in 1 .. n + 1 /\ \A i \in 1 .. n + 1 : i \in 1 .. n \/ i = n + 1
  BY <1>1 DEF Chain
<1>3. Chain(m, c2, n)
  <2>1. ASSUME NEW i \in 1 .. n
        PROVE  Framed(m, c2[i]) /\ Linked(m, c2[i], c2[i + 1])
    <3>1. Framed(m, c[i]) /\ Linked(m, c[i], c[i + 1]) /\ c2[i] = c[i]
      BY <1>1 DEF Chain
    <3>2. i + 1 \in 1 .. n \/ i = n
      BY <1>2
    <3> QED BY <3>1, <3>2 DEF Linked
  <2>2. \A i \in 1 .. n + 1 : IsContext(c2[i]) /\ c2[i].ipsr >= i - 1
    BY <1>1, <1>2 DEF Chain
  <2>3. x.stack = Above(m, x.sp)
    BY <1>1 DEF Chain
  <2> QED BY <1>2, <2>1, <2>2, <2>3 DEF Chain
<1>4. Order(c2, n, k)
  <2>1. \A i \in 1 .. n + 1 : c2[i].sp = c[i].sp /\ c2[i].spsel = c[i].spsel
    BY <1>2
  <2>2. ASSUME NEW i \in 1 .. n + 1, NEW j \in 1 .. n + 1, i < j PROVE c2[i] = c[i]
    <3>1. i \in 1 .. n
      BY <1>2, <2>2
    <3> QED BY <3>1
  <2>3. \A i \in 2 .. n + 1 : i \in 1 .. n + 1
    BY <1>2
  <2>4. \A i \in 1 .. n + 1 :
            c2[i].spsel = 0 => Top(0) - 28 * (i - 1) - 1 <= c2[i].sp /\ c2[i].sp <= Top(0)
    BY <1>1, <2>1 DEF Order
  <2>5. \A i, j \in 1 .. n + 1 : i < j /\ c2[i].spsel = 0 => c2[j].sp <= Base(c2[i])
    BY <1>1, <2>1, <2>2 DEF Order
  <2>6. k # 0 => \A i \in 2 .. n + 1 : c2[i].sp <= Bottom
    BY <1>1, <2>1, <2>3 DEF Order
  <2> QED BY <2>4, <2>5, <2>6 DEF Order
<1>5. Mode(m, c2, n, k, msp, psp, park)
  <2>0. /\ k \in Stacks \cup {NoTask} /\ msp \in Nat /\ psp \in Nat
        /\ x.sp = IF x.spsel = 1 THEN psp ELSE msp
        /\ k # NoTask => Thread(c[1], k)
        /\ k = NoTask => n >= 1 /\ c[2].ipsr = Kernel /\ \E u \in Tasks : c[1] = park[u]
        /\ k # 0 => Bottom \in DOMAIN m /\ m[Bottom].kind = "frame"
        /\ k \in Tasks => IF n = 0 THEN msp = Bottom ELSE psp = Base(c[1])
    BY <1>1 DEF Mode
  <2>1. CASE n = 0
    <3>1. c[1] = x /\ c2[1] = y
      BY <2>1
    <3>2. k # NoTask
      BY <2>0, <2>1
    <3>3. Thread(y, k)
      <4>1. Thread(x, k)
        BY <2>0, <3>1, <3>2
      <4>2. y.fresh = {}
        BY <4>1 DEF IsContext, Thread
      <4> QED BY <4>1, <4>2 DEF Thread
    <3> QED BY <2>0, <2>1, <3>1, <3>2, <3>3 DEF Mode
  <2>2. CASE n > 0
    <3>1. 1 \in 1 .. n /\ c2[1] = c[1]
      BY <1>2, <2>2
    <3>2. n >= 1 => 2 \in 1 .. n + 1
      BY <1>2
    <3>3. \A i \in 1 .. n + 1 : c2[i].ipsr = c[i].ipsr
      BY <1>2
    <3> QED BY <2>0, <3>1, <3>2, <3>3 DEF Mode
  <2> QED BY <1>2, <2>1, <2>2
<1>6. FpReady(c2, n)
  <2>1. y.fresh # {} => y.ipsr # 0 /\ y.fresh = {y.fpscr}
    BY <1>1, <1>2 DEF FpReady
  <2> QED BY <1>1, <1>2, <2>1 DEF FpReady
<1> QED BY <1>1, <1>3, <1>4, <1>5, <1>6 DEF Good

(* prvPortStartFirstTask() empties the main stack.                          *)
LEMMA PrepareStep ==
  ASSUME NEW m, NEW c, NEW n, NEW k, NEW msp, NEW psp, NEW park, NEW tc,
         Good(m, c, n, k, msp, psp, park, tc), NEW x, x = c[n + 1], n = 0, k = 0,
         NEW c2, NEW y, c2[1] = y, IsContext(y), y.ipsr = 0, y.spsel = 0, y.sp = Top(0),
         y.fresh = x.fresh,
         NEW m2, m2 = Free(m, x.sp, Top(0)), y.stack = Above(m2, y.sp)
  PROVE  Good(m2, c2, n, k, Top(0), psp, park, tc)
<1> DEFINE top == Top(0)
<1>1. /\ IsContext(x) /\ StackOf(x.sp) \in Stacks
      /\ Within(x.sp, StackOf(x.sp))
      /\ StackOf(x.sp) = (IF x.spsel = 1 THEN k ELSE 0)
      /\ \A b \in DOMAIN m : StackOf(b) = StackOf(x.sp) => b >= x.sp
      /\ Thread(x, k)
  BY Running
<1>2. /\ MemOk(m) /\ Chain(m, c, n) /\ Order(c, n, k) /\ Mode(m, c, n, k, msp, psp, park)
      /\ Parked(m, k, park, tc) /\ Low(m, k, msp, psp, park) /\ FpReady(c, n)
  BY DEF Good
<1>3. /\ StackOf(x.sp) = 0 /\ x.sp \in Nat /\ x.sp <= top /\ top - StackSize < x.sp /\ top \in Nat
      /\ 0 \in Stacks /\ StackSize \in Nat /\ StackSize >= 56 /\ 0 \notin Tasks
  BY <1>1, TopType, StackFacts DEF IsContext, Within
<1>4. /\ \A b : b \in DOMAIN m2 <=> b \in DOMAIN m /\ ~(StackOf(b) = 0 /\ b < top)
      /\ \A b \in DOMAIN m2 : m2[b] = m[b]
      /\ MemOk(m2)
  <2>1. x.sp \in Int /\ top \in Int /\ top <= top /\ \A b \in DOMAIN m : StackOf(b) = 0 => b >= x.sp
    BY <1>1, <1>3
  <2> QED BY <1>2, <1>3, <2>1, FreeLow
<1>5. \A b \in DOMAIN m2 : StackOf(b) # 0
  <2> SUFFICES ASSUME NEW b \in DOMAIN m2, StackOf(b) = 0 PROVE FALSE
    OBVIOUS
  <2> DEFINE z == m2[b].size
  <2>1. b \in Int /\ z \in Nat \ {0} /\ b + z <= Top(StackOf(b)) /\ ~(b < top)
    BY <1>4, MemStack
  <2>2. b + z <= top
    BY <2>1
  <2> HIDE DEF z, top
  <2> QED BY <1>3, <2>1, <2>2
<1>6. StackOf(top) = 0
  <2>1. top - StackSize < top /\ top <= top
    <3> HIDE DEF top
    <3> QED BY <1>3
  <2>2. Within(top, 0)
    BY <2>1 DEF Within
  <2> QED BY <1>3, <2>2, StackIs
<1>7. Thread(y, 0)
  <2>1. y.sp \notin DOMAIN y.stack
    BY <1>5, <1>6 DEF Above
  <2>2. y.fresh = {}
    BY <1>1 DEF Thread
  <2> QED BY <2>1, <2>2 DEF Thread
<1>8. \A i \in 1 .. n + 1 : i = 1
  OBVIOUS
<1>9. Chain(m2, c2, n)
  <2>1. \A i \in 1 .. n : FALSE
    OBVIOUS
  <2>2. y.ipsr >= 1 - 1
    OBVIOUS
  <2>3. \A i \in 1 .. n + 1 : IsContext(c2[i]) /\ c2[i].ipsr >= i - 1
    BY <1>8, <2>2
  <2>4. c2[n + 1] = y /\ n \in Nat
    OBVIOUS
  <2> QED BY <2>1, <2>3, <2>4 DEF Chain
<1>10. Order(c2, n, k)
  <2>1. top - 28 * (1 - 1) - 1 <= top /\ top <= top
    <3> HIDE DEF top
    <3> QED BY <1>3
  <2>2. \A i \in 1 .. n + 1 :
            c2[i].spsel = 0 => Top(0) - 28 * (i - 1) - 1 <= c2[i].sp /\ c2[i].sp <= Top(0)
    BY <1>8, <2>1
  <2>3. \A i, j \in 1 .. n + 1 : ~(i < j)
    BY <1>8
  <2> QED BY <2>2, <2>3 DEF Order
<1>11. Mode(m2, c2, n, k, top, psp, park)
  <2>1. c2[n + 1] = y /\ k # NoTask /\ k \in Stacks /\ k \notin Tasks
    BY <1>3 DEF NoTask
  <2>2. psp \in Nat
    BY <1>2 DEF Mode
  <2> QED BY <1>3, <1>7, <2>1, <2>2 DEF Mode
<1>12. Parked(m2, k, park, tc)
  <2>1. ASSUME NEW u \in Tasks, u # k PROVE Framed(m2, park[u])
    <3>1. /\ park[u].sp \in Int /\ park[u].fpca \in {0, 1} /\ Framed(m, park[u])
          /\ StackOf(park[u].sp) = u
      BY <2>1, ParkedElsewhere
    <3>2. x.sp \in Int /\ top \in Int /\ top <= top /\ \A b \in DOMAIN m : StackOf(b) = 0 => b >= x.sp
      BY <1>1, <1>3
    <3>3. StackOf(park[u].sp) = 0 => Base(park[u]) >= top
      BY <2>1, <3>1
    <3> QED BY <1>2, <1>3, <3>1, <3>2, <3>3, FreeFramed
  <2> QED BY <1>2, <2>1 DEF Parked
<1>13. Low(m2, k, top, psp, park)
  BY <1>2, <1>4, <1>5 DEF Low, Lowest
<1>14. FpReady(c2, n)
  <2>1. y.fresh = {}
    BY <1>1 DEF Thread
  <2> QED BY <1>8, <2>1 DEF FpReady
<1> QED BY <1>4, <1>9, <1>10, <1>11, <1>12, <1>13, <1>14 DEF Good

(* The scheduler's handler interrupted thread code directly.                *)
LEMMA KernelFacts ==
  ASSUME NEW m, NEW c, NEW n, NEW k, NEW msp, NEW psp, NEW park, NEW tc,
         Good(m, c, n, k, msp, psp, park, tc), NEW r, r = c[n + 1], r.ipsr = Kernel,
         r.lr \in ThreadReturns
  PROVE  /\ n = 1 /\ r = c[2] /\ IsContext(r) /\ IsContext(c[1]) /\ Framed(m, c[1])
         /\ r.spsel = 0 /\ r.sp = Entry(c[1]) /\ r.lr = ExcReturnFor(c[1])
<1>1. /\ n \in Nat /\ IsContext(r)
      /\ n = 0 => r.ipsr = 0
      /\ n > 0 => /\ n \in 1 .. n /\ IsContext(c[n]) /\ Framed(m, c[n]) /\ Linked(m, c[n], r)
                  /\ r.ipsr > 0 /\ r.spsel = 0
  BY Running
<1>2. n = 1
  <2>1. n + 1 \in 1 .. n + 1
    BY <1>1
  <2>2. r.ipsr >= (n + 1) - 1
    BY <2>1 DEF Good, Chain
  <2> QED BY <1>1, <2>2 DEF Kernel
<1>3. r.lr # CallLr
  BY DEF ThreadReturns, WithFp, ToMsp, ToPsp, CallLr
<1> QED BY <1>1, <1>2, <1>3 DEF Linked

(* PendSV puts the task aside that it interrupted.                          *)
LEMMA ParkStep ==
  ASSUME NEW m, NEW c, NEW n, NEW k, NEW msp, NEW psp, NEW park, NEW tc,
         Good(m, c, n, k, msp, psp, park, tc), NEW r, r = c[n + 1], r.ipsr = Kernel,
         r.lr \in ThreadReturns, k \in Tasks,
         NEW park2, park2[k] = c[1], \A u \in Tasks \ {k} : park2[u] = park[u],
         NEW tc2, tc2[k] = [psp |-> psp, lr |-> r.lr], \A u \in Tasks \ {k} : tc2[u] = tc[u]
  PROVE  Good(m, c, n, NoTask, msp, psp, park2, tc2)
<1>1. /\ n = 1 /\ r = c[2] /\ IsContext(r) /\ IsContext(c[1]) /\ Framed(m, c[1])
      /\ r.lr = ExcReturnFor(c[1])
  BY KernelFacts
<1>2. /\ MemOk(m) /\ Chain(m, c, n) /\ Order(c, n, k) /\ Mode(m, c, n, k, msp, psp, park)
      /\ Parked(m, k, park, tc) /\ Low(m, k, msp, psp, park) /\ FpReady(c, n)
  BY DEF Good
<1>3. k # 0 /\ k # NoTask /\ NoTask \notin Tasks /\ NoTask # 0
  BY StackFacts DEF NoTask
<1>4. Thread(c[1], k) /\ psp = Base(c[1])
  BY <1>1, <1>2, <1>3 DEF Mode
<1>5. Order(c, n, NoTask)
  BY <1>2, <1>3 DEF Order
<1>6. Mode(m, c, n, NoTask, msp, psp, park2)
  <2>1. n >= 1
    BY <1>1
  <2> QED BY <1>1, <1>2, <1>3, <2>1 DEF Mode
<1>7. Parked(m, NoTask, park2, tc2)
  <2>1. ASSUME NEW u \in Tasks
        PROVE  /\ IsContext(park2[u]) /\ Thread(park2[u], u) /\ Framed(m, park2[u])
               /\ tc2[u] = [psp |-> Base(park2[u]), lr |-> ExcReturnFor(park2[u])]
    <3>1. CASE u = k
      BY <1>1, <1>4, <3>1
    <3>2. CASE u # k
      BY <1>2, <2>1, <3>2 DEF Parked
    <3> QED BY <3>1, <3>2
  <2> QED BY <2>1 DEF Parked
<1>8. Low(m, NoTask, msp, psp, park2)
  <2>1. ASSUME NEW b \in DOMAIN m
        PROVE  b >= Lowest(NoTask, msp, psp, park2, StackOf(b))
    <3>1. StackOf(b) \in Stacks
      BY <1>2, MemStack
    <3>2. Lowest(NoTask, msp, psp, park2, StackOf(b)) = Lowest(k, msp, psp, park, StackOf(b))
      BY <1>3, <1>4, <3>1 DEF Lowest, Stacks
    <3> QED BY <1>2, <3>2 DEF Low
  <2> QED BY <2>1 DEF Low
<1> QED BY <1>2, <1>5, <1>6, <1>7, <1>8 DEF Good

(* PendSV or SVC takes a parked task in place of what it interrupted.       *)
LEMMA UnparkStep ==
  ASSUME NEW m, NEW c, NEW n, NEW k, NEW msp, NEW psp, NEW park, NEW tc,
         Good(m, c, n, k, msp, psp, park, tc), NEW r, r = c[n + 1], r.ipsr = Kernel,
         r.lr \in ThreadReturns, k \notin Tasks, k = 0 => c[1].sp = Top(0) /\ c[1].fpca = 0,
         NEW t \in Tasks, NEW c2, NEW y, c2[1] = park[t], c2[2] = y, IsContext(y),
         y.ipsr = r.ipsr, y.spsel = r.spsel, y.sp = r.sp, y.stack = r.stack, y.lr = tc[t].lr,
         y.fresh # {} => r.fresh # {} /\ y.fresh = {y.fpscr}
  PROVE  Good(m, c2, n, t, msp, tc[t].psp, park, tc)
<1> DEFINE x == park[t]
           a == Base(x)
<1>1. /\ n = 1 /\ r = c[2] /\ IsContext(r) /\ IsContext(c[1]) /\ Framed(m, c[1])
      /\ r.spsel = 0 /\ r.sp = Entry(c[1])
  BY KernelFacts
<1>2. /\ MemOk(m) /\ Chain(m, c, n) /\ Order(c, n, k) /\ Mode(m, c, n, k, msp, psp, park)
      /\ Parked(m, k, park, tc) /\ Low(m, k, msp, psp, park) /\ FpReady(c, n)
  BY DEF Good
<1>3. t # 0 /\ t # NoTask /\ t # k /\ t \in Stacks /\ NoTask # 0 /\ (k = 0 \/ k = NoTask)
  BY <1>2, StackFacts DEF NoTask, Mode, Stacks
<1>4. /\ IsContext(x) /\ Thread(x, t) /\ Framed(m, x) /\ x.spsel = 1 /\ x.ipsr = 0 /\ x.fresh = {}
      /\ tc[t].psp = a /\ tc[t].lr = ExcReturnFor(x)
  <2>1. /\ IsContext(x) /\ Thread(x, t) /\ Framed(m, x)
        /\ tc[t] = [psp |-> a, lr |-> ExcReturnFor(x)]
    BY <1>2, <1>3 DEF Parked
  <2> HIDE DEF x, a
  <2>2. x.spsel = 1 /\ x.ipsr = 0 /\ x.fresh = {}
    BY <1>3, <2>1 DEF Thread
  <2>3. tc[t].psp = a /\ tc[t].lr = ExcReturnFor(x)
    BY <2>1
  <2> QED BY <2>1, <2>2, <2>3
<1>5. a \in Nat
  <2> DEFINE top == Top(t)
  <2>1. a \in DOMAIN m /\ a \in Int
    BY <1>4, EntryFacts DEF Framed
  <2>2. StackOf(a) = StackOf(x.sp) /\ StackOf(x.sp) = t
    BY <1>3, <1>4, ParkedElsewhere DEF Framed
  <2>3. top - StackSize < a
    BY <1>2, <2>1, <2>2, MemStack DEF Within
  <2>4. top \in Nat /\ top >= StackSize /\ StackSize \in Nat
    BY <1>3, TopType, StackFacts
  <2> HIDE DEF top, a
  <2> QED BY <2>1, <2>3, <2>4
<1>6. r.sp = Bottom /\ Bottom \in DOMAIN m /\ m[Bottom].kind = "frame"
  <2>1. CASE k = 0
    <3>1. c[1].spsel = 0 /\ c[1].sp = Top(0) /\ c[1].fpca = 0
      BY <2>1, ThreadMode
    <3>2. Base(c[1]) = Bottom
      <4>1. c[1].sp \in Int /\ c[1].fpca \in {0, 1} /\ c[1].sp % 2 = 0
        BY <3>1, TopType, StackFacts
      <4> QED BY <3>1, <4>1, BaseFacts DEF Bottom
    <3> QED BY <1>1, <3>1, <3>2 DEF Entry, Framed, FrameOf
  <2>2. CASE k = NoTask
    <3>1. c[1].spsel = 1
      BY <1>3, <2>2, ThreadMode
    <3> QED BY <1>1, <1>2, <1>3, <2>2, <3>1 DEF Entry, Mode
  <2> QED BY <1>3, <2>1, <2>2
<1> HIDE DEF x, a
<1>7. /\ 1 .. n = {1} /\ 1 .. n + 1 = {1, 2} /\ 2 .. n + 1 = {2} /\ n + 1 = 2 /\ n \in Nat /\ n >= 1
      /\ n # 0 /\ c2[1] = x
  BY <1>1 DEF x
<1>8. Chain(m, c2, n)
  <2>1. Linked(m, x, y)
    <3>1. y.ipsr > x.ipsr
      BY <1>4 DEF Kernel
    <3> QED BY <1>1, <1>4, <1>6, <3>1 DEF Linked, Entry
  <2>2. \A i \in 1 .. n : Framed(m, c2[i]) /\ Linked(m, c2[i], c2[i + 1])
    BY <1>4, <1>7, <2>1
  <2>3. x.ipsr >= 1 - 1 /\ y.ipsr >= 2 - 1
    BY <1>4 DEF Kernel
  <2>4. \A i \in 1 .. n + 1 : IsContext(c2[i]) /\ c2[i].ipsr >= i - 1
    BY <1>4, <1>7, <2>3
  <2>5. y.stack = Above(m, y.sp)
    BY <1>2 DEF Chain
  <2> QED BY <1>7, <2>2, <2>4, <2>5 DEF Chain
<1>9. Order(c2, n, t)
  <2>1. \A i \in 1 .. n + 1 :
            c2[i].spsel = 0 => Top(0) - 28 * (i - 1) - 1 <= c2[i].sp /\ c2[i].sp <= Top(0)
    <3>1. Top(0) - 28 * (2 - 1) - 1 <= r.sp /\ r.sp <= Top(0)
      BY <1>1, <1>2, <1>7 DEF Order
    <3> QED BY <1>4, <1>7, <3>1
  <2>2. \A i, j \in 1 .. n + 1 : i < j /\ c2[i].spsel = 0 => c2[j].sp <= Base(c2[i])
    <3>1. ASSUME NEW i \in 1 .. n + 1, NEW j \in 1 .. n + 1, i < j PROVE c2[i].spsel = 1
      <4>1. i = 1
        BY <1>7, <3>1
      <4> QED BY <1>4, <1>7, <4>1
    <3> QED BY <3>1
  <2>3. \A i \in 2 .. n + 1 : c2[i].sp <= Bottom
    BY <1>6, <1>7, BottomFacts
  <2> QED BY <2>1, <2>2, <2>3 DEF Order
<1>10. Mode(m, c2, n, t, msp, a, park)
  <2>1. msp \in Nat /\ r.sp = msp
    BY <1>1, <1>2, <1>7 DEF Mode
  <2>2. c2[n + 1] = y /\ y.spsel = 0 /\ a = Base(c2[1])
    BY <1>1, <1>7 DEF a
  <2> QED BY <1>3, <1>4, <1>5, <1>6, <1>7, <2>1, <2>2 DEF Mode
<1>11. Parked(m, t, park, tc)
  BY <1>2 DEF Parked
<1>12. Low(m, t, msp, a, park)
  <2>1. ASSUME NEW b \in DOMAIN m
        PROVE  b >= Lowest(t, msp, a, park, StackOf(b))
    <3>1. StackOf(b) \in Stacks
      BY <1>2, MemStack
    <3>2. Lowest(t, msp, a, park, StackOf(b)) = Lowest(k, msp, psp, park, StackOf(b))
      BY <1>3, <3>1 DEF Lowest, Stacks, a, x
    <3> QED BY <1>2, <3>2 DEF Low
  <2> QED BY <2>1 DEF Low
<1>13. FpReady(c2, n)
  <2>1. y.ipsr # 0
    BY DEF Kernel
  <2> QED BY <1>4, <1>7, <2>1 DEF FpReady
<1> QED BY <1>2, <1>4, <1>8, <1>9, <1>10, <1>11, <1>12, <1>13 DEF Good

(* After a reset main() runs on an empty stack, and every task has the      *)
(* frame that pxPortInitialiseStack() wrote.                                *)
LEMMA NewTaskMemory ==
  /\ MemOk(NewTaskStacks)
  /\ DOMAIN NewTaskStacks = {NewTaskPsp(t) : t \in Tasks}
  /\ \A t \in Tasks : /\ StackOf(NewTaskPsp(t)) = t /\ NewTaskPsp(t) \in Nat
                      /\ NewTaskPsp(t) = Top(t) - 8
                      /\ NewTaskStacks[NewTaskPsp(t)] = Frame(NewTaskCpu(t), 0, 0)
<1>1. ASSUME NEW t \in Tasks
      PROVE  /\ NewTaskPsp(t) = Top(t) - 8 /\ NewTaskPsp(t) \in Nat /\ StackOf(NewTaskPsp(t)) = t
             /\ Top(t) - StackSize < NewTaskPsp(t) /\ NewTaskPsp(t) + 8 <= Top(t)
  <2> DEFINE top == Top(t)
             b == NewTaskPsp(t)
  <2>1. top \in Nat /\ top >= StackSize /\ StackSize >= 56 /\ StackSize \in Nat /\ t \in Stacks
    BY TopType, StackFacts
  <2>2. b = top - 8
    BY DEF NewTaskPsp, FrameSize
  <2>3. b \in Nat /\ top - StackSize < b /\ b <= top /\ b + 8 <= top
    <3> HIDE DEF top, b
    <3> QED BY <2>1, <2>2
  <2>4. StackOf(b) = t
    <3>1. Within(b, t)
      BY <2>3 DEF Within
    <3>2. b \in Int
      BY <2>3
    <3> QED BY <2>1, <3>1, <3>2, StackIs
  <2> QED BY <2>2, <2>3, <2>4
<1> DEFINE m == NewTaskStacks
           D == {NewTaskPsp(t) : t \in Tasks}
<1>2. m = [a \in D |-> Frame(NewTaskCpu(StackOf(a)), 0, 0)]
  BY DEF NewTaskStacks
<1>3. DOMAIN m = D /\ \A t \in Tasks : m[NewTaskPsp(t)] = Frame(NewTaskCpu(t), 0, 0)
  BY <1>1, <1>2
<1>4. \A t \in Tasks : Frame(NewTaskCpu(t), 0, 0).size = 8 /\ Frame(NewTaskCpu(t), 0, 0).kind = "frame"
  BY DEF Frame, FrameSize
<1> HIDE DEF m
<1>5. MemOk(m)
  <2>1. ASSUME NEW b \in DOMAIN m
        PROVE  /\ b \in Int /\ m[b].size \in Nat \ {0} /\ m[b].kind # "word"
               /\ \E t \in Stacks : Top(t) - StackSize < b /\ b + m[b].size <= Top(t)
    <3>1. PICK t \in Tasks : b = NewTaskPsp(t)
      BY <1>3
    <3>2. m[b].size = 8 /\ m[b].kind = "frame" /\ t \in Stacks
      BY <1>3, <1>4, <3>1, StackFacts
    <3> QED BY <1>1, <3>1, <3>2
  <2> QED BY <2>1 DEF MemOk
<1> QED BY <1>1, <1>3, <1>5 DEF m

LEMMA ResetStep ==
  ASSUME NEW c, NEW y, c[1] = y, IsContext(y), y.ipsr = 0, y.spsel = 0, y.sp = Top(0),
         y.fresh = {}, y.stack = Above(NewTaskStacks, y.sp)
  PROVE  Good(NewTaskStacks, c, 0, 0, Top(0), Top(0), Created, NewTcb)
<1> DEFINE m == NewTaskStacks
           top == Top(0)
<1>1. /\ MemOk(m)
      /\ DOMAIN m = {NewTaskPsp(t) : t \in Tasks}
      /\ \A t \in Tasks : /\ StackOf(NewTaskPsp(t)) = t /\ NewTaskPsp(t) \in Nat
                          /\ NewTaskPsp(t) = Top(t) - 8
                          /\ m[NewTaskPsp(t)] = Frame(NewTaskCpu(t), 0, 0)
  BY NewTaskMemory
<1>2. top \in Nat /\ StackSize \in Nat /\ StackSize >= 56 /\ 0 \in Stacks /\ 0 \notin Tasks /\ 0 # NoTask
  BY TopType, StackFacts DEF NoTask
<1> HIDE DEF m
<1>3. \A b \in DOMAIN m : StackOf(b) \in Tasks /\ StackOf(b) # 0
  BY <1>1, <1>2
<1>4. StackOf(top) = 0
  <2>1. top - StackSize < top /\ top <= top
    <3> HIDE DEF top
    <3> QED BY <1>2
  <2>2. Within(top, 0)
    BY <2>1 DEF Within
  <2> QED BY <1>2, <2>2, StackIs
<1>5. Thread(y, 0)
  <2>1. y.sp \notin DOMAIN y.stack
    BY <1>3, <1>4 DEF Above, m
  <2> QED BY <2>1 DEF Thread
<1>6. Chain(m, c, 0)
  <2>1. y.ipsr >= 1 - 1 /\ 1 .. 0 + 1 = {1} /\ 1 .. 0 = {} /\ 0 + 1 = 1
    OBVIOUS
  <2>2. y.stack = Above(m, y.sp)
    BY DEF m
  <2> QED BY <2>1, <2>2 DEF Chain
<1>7. Order(c, 0, 0)
  <2>1. top - 28 * (1 - 1) - 1 <= top /\ top <= top
    <3> HIDE DEF top
    <3> QED BY <1>2
  <2>2. \A i \in 1 .. 0 + 1 : i = 1
    OBVIOUS
  <2>3. \A i \in 1 .. 0 + 1 :
            c[i].spsel = 0 => Top(0) - 28 * (i - 1) - 1 <= c[i].sp /\ c[i].sp <= Top(0)
    BY <2>1, <2>2
  <2>4. \A i, j \in 1 .. 0 + 1 : ~(i < j)
    BY <2>2
  <2> QED BY <2>3, <2>4 DEF Order
<1>8. Mode(m, c, 0, 0, top, top, Created)
  <2>1. c[0 + 1] = y
    OBVIOUS
  <2> QED BY <1>2, <1>5, <2>1 DEF Mode
<1>9. ASSUME NEW t \in Tasks
      PROVE  /\ IsContext(Created[t]) /\ Thread(Created[t], t) /\ Framed(m, Created[t])
             /\ NewTcb[t] = [psp |-> Base(Created[t]), lr |-> ExcReturnFor(Created[t])]
             /\ Base(Created[t]) = NewTaskPsp(t)
  <2> DEFINE x == Created[t]
             tt == Top(t)
             none == [b \in {} |-> 0]
  <2>0. tt \in Nat /\ tt % 2 = 0 /\ t \in Stacks /\ t # 0 /\ StackSize \in Nat /\ StackSize >= 56
    BY <1>2, TopType, StackFacts
  <2>1. x = [core |-> t, lr |-> CallLr, ipsr |-> 0, spsel |-> 1, sp |-> tt, fpca |-> 0, s |-> 0,
             fpscr |-> 0, fresh |-> {}, stack |-> none]
    <3> DEFINE E == {b \in DOMAIN NoMemory : StackOf(b) = StackOf(tt) /\ b >= tt}
    <3>1. E = {}
      BY DEF NoMemory
    <3>2. [b \in E |-> NoMemory[b]] = none
      BY <3>1
    <3>3. x = Context(NewTaskCpu(t), NoMemory, {})
      BY DEF Created
    <3> QED BY <3>2, <3>3 DEF Context, NewTaskCpu
  <2> HIDE DEF x
  <2>2. /\ x.core = t /\ x.lr = CallLr /\ x.ipsr = 0 /\ x.spsel = 1 /\ x.sp = tt /\ x.fpca = 0
        /\ x.s = 0 /\ x.fpscr = 0 /\ x.fresh = {} /\ x.stack = none /\ DOMAIN none = {}
    BY <2>1
  <2>3. IsContext(x)
    <3>1. 0 \in 0 .. Depth
      BY StackFacts
    <3>2. CallLr \in Lrs
      BY DEF Lrs
    <3> QED BY <2>0, <2>1, <2>2, <3>1, <3>2 DEF IsContext
  <2>4. Thread(x, t)
    BY <2>0, <2>2 DEF Thread
  <2>5. Base(x) = tt - 8 /\ x.sp % 2 = 0
    <3>1. x.sp \in Int /\ x.fpca \in {0, 1} /\ x.sp % 2 = 0
      BY <2>0, <2>2
    <3> QED BY <2>2, <3>1, BaseFacts DEF FrameSize
  <2>6. Base(x) = NewTaskPsp(t)
    BY <1>1, <2>5
  <2>7. StackOf(tt) = t
    <3>1. tt - StackSize < tt /\ tt <= tt
      <4> HIDE DEF tt
      <4> QED BY <2>0
    <3>2. Within(tt, t)
      BY <3>1 DEF Within
    <3> QED BY <2>0, <3>2, StackIs
  <2>8. m[Base(x)] = FrameOf(x)
    <3>1. Frame(NewTaskCpu(t), 0, 0)
          = [kind |-> "frame", size |-> FrameSize(0), core |-> t, lr |-> CallLr, ipsr |-> 0,
             align |-> 0, s |-> -1, fpscr |-> -1]
      BY DEF Frame, NewTaskCpu
    <3>2. FrameOf(x) = [kind |-> "frame", size |-> FrameSize(0), core |-> t, lr |-> CallLr, ipsr |-> 0,
             align |-> 0, s |-> -1, fpscr |-> -1]
      BY <2>2, <2>5 DEF FrameOf
    <3> QED BY <1>1, <2>6, <3>1, <3>2
  <2>9. \A b \in DOMAIN m : StackOf(b) = t => b = tt - 8
    <3> SUFFICES ASSUME NEW b \in DOMAIN m, StackOf(b) = t PROVE b = tt - 8
      OBVIOUS
    <3>1. PICK u \in Tasks : b = NewTaskPsp(u)
      BY <1>1
    <3>2. StackOf(NewTaskPsp(u)) = u /\ NewTaskPsp(t) = tt - 8
      BY <1>1
    <3> HIDE DEF tt
    <3> QED BY <3>1, <3>2
  <2>10. x.stack = Above(m, x.sp)
    <3> DEFINE E == {b \in DOMAIN m : StackOf(b) = StackOf(tt) /\ b >= tt}
    <3>1. ~(tt - 8 >= tt)
      <4> HIDE DEF tt
      <4> QED BY <2>0
    <3>2. E = {}
      BY <2>7, <2>9, <3>1
    <3>3. [b \in E |-> m[b]] = none
      BY <3>2
    <3> QED BY <2>2, <3>3 DEF Above
  <2>11. \A b \in DOMAIN m : StackOf(b) = StackOf(x.sp) /\ b > Base(x) => b >= x.sp
    <3>1. ~(tt - 8 > tt - 8)
      <4> HIDE DEF tt
      <4> QED BY <2>0
    <3> QED BY <2>2, <2>5, <2>7, <2>9, <3>1
  <2>12. Framed(m, x)
    BY <1>1, <2>2, <2>6, <2>7, <2>8, <2>10, <2>11 DEF Framed
  <2>13. NewTcb[t] = [psp |-> Base(x), lr |-> ExcReturnFor(x)]
    BY <2>2, <2>6 DEF NewTcb, ExcReturnFor
  <2> QED BY <2>3, <2>4, <2>6, <2>12, <2>13 DEF x
<1>10. Parked(m, 0, Created, NewTcb)
  BY <1>9 DEF Parked
<1>11. Low(m, 0, top, top, Created)
  <2>1. ASSUME NEW b \in DOMAIN m
        PROVE  b >= Lowest(0, top, top, Created, StackOf(b))
    <3>1. PICK t \in Tasks : b = NewTaskPsp(t) /\ StackOf(b) = t /\ b \in Nat
      BY <1>1
    <3>2. Lowest(0, top, top, Created, t) = b
      BY <1>2, <1>9, <3>1 DEF Lowest
    <3> QED BY <3>1, <3>2
  <2> QED BY <2>1 DEF Low
<1>12. FpReady(c, 0)
  <2>1. \A i \in 1 .. 0 + 1 : i = 1
    OBVIOUS
  <2> QED BY <2>1 DEF FpReady
<1> QED BY <1>1, <1>6, <1>7, <1>8, <1>10, <1>11, <1>12 DEF Good, m

(* Writing the active stack pointer.                                        *)
LEMMA SetSpRegs ==
  ASSUME NEW c, NEW m, NEW p, NEW sel, NEW n, NEW f, NEW i, NEW l, NEW o, NEW s, NEW v, NEW w,
         Regs(c, m, p, sel, n, f, i, l, o, s, v)
  PROVE  Regs([c EXCEPT !.sp = w], IF i = 0 /\ sel = 1 THEN m ELSE w,
              IF i = 0 /\ sel = 1 THEN w ELSE p, sel, n, f, i, l, o, s, v)
<1> DEFINE d == [c EXCEPT !.sp = w]
<1>1. /\ IsCpu(d) /\ d.sp = w /\ d.other = c.other /\ d.spsel = sel /\ d.npriv = n /\ d.fpca = f
      /\ d.ipsr = i /\ d.lr = l /\ d.core = o /\ d.s = s /\ d.fpscr = v
  BY DEF Regs, IsCpu
<1>2. c.other = IF i = 0 /\ sel = 1 THEN m ELSE p
  BY RegsSp
<1> HIDE DEF d
<1>3. UsesPsp(d) = (i = 0 /\ sel = 1)
  BY <1>1 DEF UsesPsp
<1>4. /\ Msp(d) = (IF i = 0 /\ sel = 1 THEN m ELSE w)
      /\ Psp(d) = (IF i = 0 /\ sel = 1 THEN w ELSE p)
  BY <1>1, <1>2, <1>3 DEF Msp, Psp
<1> QED BY <1>1, <1>4 DEF Regs, d

(* The context of a CPU with given registers.                               *)
LEMMA ContextRegs ==
  ASSUME NEW c, NEW m, NEW p, NEW sel, NEW n, NEW f, NEW i, NEW l, NEW o, NEW s, NEW v,
         Regs(c, m, p, sel, n, f, i, l, o, s, v), NEW k, NEW w, NEW x, x = Context(c, k, w),
         sel \in {0, 1}, f \in {0, 1}, i \in 0 .. Depth, l \in Lrs, w \in FreshSets,
         sel = 1 => i = 0, m \in Nat, p \in Nat
  PROVE  /\ IsContext(x)
         /\ x.core = o /\ x.lr = l /\ x.ipsr = i /\ x.spsel = sel /\ x.fpca = f
         /\ c.sp = x.sp /\ x.sp = (IF sel = 1 THEN p ELSE m)
         /\ x.s = (IF f = 1 THEN s ELSE 0) /\ x.fpscr = (IF f = 1 THEN v ELSE 0)
         /\ x.fresh = w /\ x.stack = Above(k, x.sp)
<1> DEFINE a == IF sel = 1 THEN p ELSE m
<1>1. c.sp = a /\ a \in Nat
  BY RegsSp
<1>2. /\ c.spsel = sel /\ c.npriv = n /\ c.fpca = f
      /\ c.ipsr = i /\ c.lr = l /\ c.core = o /\ c.s = s /\ c.fpscr = v
  BY DEF Regs
<1> HIDE DEF a
<1> DEFINE st == Above(k, a)
           xs == IF f = 1 THEN s ELSE 0
           xv == IF f = 1 THEN v ELSE 0
<1>3. x = [core |-> o, lr |-> l, ipsr |-> i, spsel |-> sel, sp |-> a, fpca |-> f,
           s |-> xs, fpscr |-> xv, fresh |-> w, stack |-> st]
  BY <1>1, <1>2 DEF Context, Above
<1>4. f # 1 => xs = 0 /\ xv = 0
  OBVIOUS
<1> HIDE DEF st, xs, xv
<1>5. /\ x.core = o /\ x.lr = l /\ x.ipsr = i /\ x.spsel = sel /\ x.sp = a /\ x.fpca = f
      /\ x.s = xs /\ x.fpscr = xv /\ x.fresh = w /\ x.stack = st
  BY <1>3
<1>6. IsContext(x)
  BY <1>1, <1>3, <1>4, <1>5 DEF IsContext
<1> QED BY <1>1, <1>5, <1>6 DEF st, xs, xv, a

(* The inductive invariant.                                                 *)

Run == Context(cpu, mem, fresh)

(* All code that has started, the running one last.                         *)
Line(sv, x) == [i \in 1 .. Len(sv) + 1 |-> IF i <= Len(sv) THEN sv[i] ELSE x]

IInv ==
  /\ IsCpu(cpu) /\ cpu.npriv \in {0, 1}
  /\ \E S : saved \in Seq(S)
  /\ parked = [t \in Tasks |-> parked[t]] /\ tcb = [t \in Tasks |-> tcb[t]]
  /\ fpdscr \in Fpdscrs \cup {0} /\ fresh \in FreshSets
  /\ Good(mem, Line(saved, Run), Len(saved), cur, Msp(cpu), Psp(cpu), parked, tcb)

LEMMA LineFacts ==
  ASSUME NEW S, NEW sv \in Seq(S), NEW x
  PROVE  /\ Len(sv) \in Nat /\ Line(sv, x)[Len(sv) + 1] = x
         /\ \A i \in 1 .. Len(sv) : Line(sv, x)[i] = sv[i]
<1> DEFINE n == Len(sv)
           c == Line(sv, x)
<1>1. n \in Nat
  BY LenProperties
<1>2. c = [i \in 1 .. n + 1 |-> IF i <= n THEN sv[i] ELSE x]
  BY DEF Line
<1> HIDE DEF n, c
<1>3. n + 1 \in 1 .. n + 1 /\ ~(n + 1 <= n)
  BY <1>1
<1>4. \A i \in 1 .. n : i \in 1 .. n + 1 /\ i <= n
  BY <1>1
<1>5. n \in Nat /\ c[n + 1] = x /\ \A i \in 1 .. n : c[i] = sv[i]
  BY <1>1, <1>2, <1>3, <1>4
<1> QED BY <1>5 DEF n, c

(* The registers of the running code.                                       *)
LEMMA Now ==
  ASSUME IInv, NEW x, x = Run, NEW n, n = Len(saved), NEW c, c = Line(saved, Run)
  PROVE  /\ Good(mem, c, n, cur, Msp(cpu), Psp(cpu), parked, tcb)
         /\ n \in Nat /\ c[n + 1] = x /\ \A i \in 1 .. n : c[i] = saved[i]
         /\ Regs(cpu, Msp(cpu), Psp(cpu), x.spsel, cpu.npriv, x.fpca, x.ipsr, x.lr, x.core, cpu.s,
                 cpu.fpscr)
         /\ cpu.npriv \in {0, 1} /\ IsContext(x)
         /\ cpu.spsel = x.spsel /\ cpu.fpca = x.fpca /\ cpu.ipsr = x.ipsr /\ cpu.lr = x.lr
         /\ cpu.core = x.core /\ cpu.sp = x.sp /\ fresh = x.fresh
         /\ x.fpca = 1 => cpu.s = x.s /\ cpu.fpscr = x.fpscr
         /\ x.stack = Above(mem, x.sp)
         /\ UsesPsp(cpu) = (x.spsel = 1)
         /\ x.sp = (IF x.spsel = 1 THEN Psp(cpu) ELSE Msp(cpu))
         /\ x.fresh # {} => x.ipsr # 0 /\ x.fresh = {x.fpscr}
         /\ fresh # {} => fresh = {IF x.fpca = 1 THEN cpu.fpscr ELSE 0}
         /\ Msp(cpu) \in Nat /\ Psp(cpu) \in Nat
<1>1. /\ IsCpu(cpu) /\ cpu.npriv \in {0, 1}
      /\ Good(mem, c, n, cur, Msp(cpu), Psp(cpu), parked, tcb)
  BY DEF IInv
<1>2. PICK S : saved \in Seq(S)
  BY DEF IInv
<1>3. n \in Nat /\ c[n + 1] = x /\ \A i \in 1 .. n : c[i] = saved[i]
  BY <1>2, LineFacts
<1>4. /\ Regs(cpu, Msp(cpu), Psp(cpu), cpu.spsel, cpu.npriv, cpu.fpca, cpu.ipsr, cpu.lr, cpu.core,
              cpu.s, cpu.fpscr)
  BY <1>1, RegsOf
<1>5. IsContext(x)
  BY <1>1, <1>3, Running
<1>6. /\ x.core = cpu.core /\ x.lr = cpu.lr /\ x.ipsr = cpu.ipsr /\ x.spsel = cpu.spsel
      /\ x.sp = cpu.sp /\ x.fpca = cpu.fpca /\ x.fresh = fresh /\ x.stack = Above(mem, cpu.sp)
  BY DEF Run, Context, Above
<1>7. x.fpca = 1 => cpu.s = x.s /\ cpu.fpscr = x.fpscr
  BY DEF Run, Context
<1>8. UsesPsp(cpu) = (x.spsel = 1)
  BY <1>5, <1>6 DEF IsContext, UsesPsp
<1>9. x.sp = IF x.spsel = 1 THEN Psp(cpu) ELSE Msp(cpu)
  BY <1>6, <1>8 DEF Msp, Psp
<1>10. x.fresh # {} => x.ipsr # 0 /\ x.fresh = {x.fpscr}
  <2>1. n + 1 \in 1 .. n + 1
    BY <1>3
  <2> QED BY <1>1, <1>3, <2>1 DEF Good, FpReady
<1>11. Regs(cpu, Msp(cpu), Psp(cpu), x.spsel, cpu.npriv, x.fpca, x.ipsr, x.lr, x.core, cpu.s,
            cpu.fpscr)
  BY <1>4, <1>6
<1>12. Msp(cpu) \in Nat /\ Psp(cpu) \in Nat
  BY <1>1 DEF Good, Mode
<1>13. fresh # {} => fresh = {IF x.fpca = 1 THEN cpu.fpscr ELSE 0}
  <2>1. x.fpscr = IF x.fpca = 1 THEN cpu.fpscr ELSE 0
    BY <1>5, <1>7 DEF IsContext
  <2> QED BY <1>6, <1>10, <2>1
<1> QED BY <1>1, <1>3, <1>5, <1>6, <1>7, <1>8, <1>9, <1>10, <1>11, <1>12, <1>13

-----------------------------------------------------------------------------
(* The same for the actions, and what each of them is to Contexts.          *)

(* What a step promises.                                                    *)
PrivilegeStep == Reset \/ (cpu'.ipsr # cpu.ipsr => cpu'.npriv = cpu.npriv)

(* What each action is to Contexts: Work.                                   *)
RefWork == UNCHANGED <<saved, parked>>

(* A step of the running code that moves no stack pointer, LR or mode.      *)
LEMMA Quietly ==
  ASSUME IInv, NEW x, x = Run, NEW n2 \in {0, 1}, NEW f2 \in {0, 1}, NEW o2, NEW s2, NEW v2,
         Regs(cpu', Msp(cpu), Psp(cpu), x.spsel, n2, f2, x.ipsr, x.lr, o2, s2, v2),
         fresh' \in FreshSets, fresh' # {} => fresh # {} /\ fresh' = {IF f2 = 1 THEN v2 ELSE 0},
         UNCHANGED <<mem, fpdscr, cur, tcb, saved, parked>>
  PROVE  IInv' /\ cpu'.ipsr = cpu.ipsr
<1> DEFINE n == Len(saved)
           c == Line(saved, Run)
           y == Run'
           d == Line(saved, y)
           a == x.sp
<1>1. /\ Good(mem, c, n, cur, Msp(cpu), Psp(cpu), parked, tcb)
      /\ n \in Nat /\ c[n + 1] = x /\ \A i \in 1 .. n : c[i] = saved[i]
      /\ IsContext(x) /\ cpu.ipsr = x.ipsr /\ fresh = x.fresh /\ x.stack = Above(mem, x.sp)
      /\ x.sp = (IF x.spsel = 1 THEN Psp(cpu) ELSE Msp(cpu))
  BY Now
<1>2. PICK S : saved \in Seq(S)
  BY DEF IInv
<1>3. n \in Nat /\ d[n + 1] = y /\ \A i \in 1 .. n : d[i] = saved[i]
  <2> HIDE DEF y
  <2> QED BY <1>2, LineFacts
<1>4. /\ x.spsel \in {0, 1} /\ x.ipsr \in 0 .. Depth /\ x.lr \in Lrs /\ a \in Nat
      /\ x.spsel = 1 => x.ipsr = 0
  BY <1>1 DEF IsContext
<1>5. y = Context(cpu', mem, fresh')
  BY DEF Run
<1> HIDE DEF y
<1>6. /\ IsContext(y) /\ y.lr = x.lr /\ y.ipsr = x.ipsr /\ y.spsel = x.spsel /\ y.sp = a
      /\ y.fpca = f2 /\ y.fpscr = (IF f2 = 1 THEN v2 ELSE 0) /\ y.fresh = fresh'
      /\ y.stack = Above(mem, a)
  <2>1. Msp(cpu) \in Nat /\ Psp(cpu) \in Nat
    BY Now
  <2>2. /\ IsContext(y) /\ y.lr = x.lr /\ y.ipsr = x.ipsr /\ y.spsel = x.spsel /\ y.fpca = f2
        /\ y.sp = (IF x.spsel = 1 THEN Psp(cpu) ELSE Msp(cpu))
        /\ y.fpscr = (IF f2 = 1 THEN v2 ELSE 0)
        /\ y.fresh = fresh' /\ y.stack = Above(mem, y.sp)
    BY <1>4, <1>5, <2>1, ContextRegs
  <2> QED BY <1>1, <2>2
<1>7. Good(mem, d, n, cur, Msp(cpu), Psp(cpu), parked, tcb)
  <2>1. y.fresh # {} => x.fresh # {} /\ y.fresh = {y.fpscr}
    BY <1>1, <1>6
  <2>2. \A i \in 1 .. n : d[i] = c[i]
    BY <1>1, <1>3
  <2> HIDE DEF c, d, n
  <2> QED BY <1>1, <1>3, <1>6, <2>1, <2>2, QuietStep
<1>8. /\ IsCpu(cpu') /\ Msp(cpu') = Msp(cpu) /\ Psp(cpu') = Psp(cpu) /\ cpu'.npriv = n2
      /\ cpu'.ipsr = x.ipsr
  BY DEF Regs
<1>9. /\ IsCpu(cpu') /\ cpu'.npriv \in {0, 1} /\ \E T : saved' \in Seq(T)
      /\ parked' = [t \in Tasks |-> parked'[t]] /\ tcb' = [t \in Tasks |-> tcb'[t]]
      /\ fpdscr' \in Fpdscrs \cup {0} /\ fresh' \in FreshSets
  BY <1>2, <1>8 DEF IInv
<1>10. Good(mem', Line(saved', Run'), Len(saved'), cur', Msp(cpu'), Psp(cpu'), parked', tcb')
  <2>1. Line(saved', Run') = d /\ Len(saved') = n
    BY DEF y
  <2> QED BY <1>7, <1>8, <2>1
<1> QED BY <1>1, <1>8, <1>9, <1>10 DEF IInv

(* Firmware between exceptions.                                             *)
LEMMA ComputeStep ==
  ASSUME IInv, Compute
  PROVE  IInv' /\ RefWork /\ FirstFpStep /\ PrivilegeStep
<1> DEFINE x == Run
           w == Owner
<1>1. /\ cpu' = [cpu EXCEPT !.core = w]
      /\ UNCHANGED <<mem, fpdscr, cur, tcb, fresh, saved, parked>>
  BY DEF Compute, rtos, history
<1>2. /\ Regs(cpu, Msp(cpu), Psp(cpu), x.spsel, cpu.npriv, x.fpca, x.ipsr, x.lr, x.core, cpu.s,
              cpu.fpscr)
      /\ cpu.npriv \in {0, 1} /\ x.fpca \in {0, 1} /\ fresh = x.fresh /\ fresh \in FreshSets
      /\ x.fpca = 1 => cpu.fpscr = x.fpscr
      /\ fresh # {} => fresh = {IF x.fpca = 1 THEN cpu.fpscr ELSE 0}
  BY Now DEF IsContext
<1> HIDE DEF x, w
<1>3. Regs(cpu', Msp(cpu), Psp(cpu), x.spsel, cpu.npriv, x.fpca, x.ipsr, x.lr, w, cpu.s, cpu.fpscr)
  BY <1>1, <1>2, RegsExcept
<1>4. IInv' /\ cpu'.ipsr = cpu.ipsr
  <2>1. fresh' # {} => fresh # {} /\ fresh' = {IF x.fpca = 1 THEN cpu.fpscr ELSE 0}
    BY <1>1, <1>2
  <2>2. fresh' \in FreshSets /\ x = Run
    BY <1>1, <1>2 DEF x
  <2> QED BY <1>1, <1>2, <1>3, <2>1, <2>2, Quietly
<1> QED BY <1>1, <1>4 DEF RefWork, FirstFpStep, PrivilegeStep

LEMMA UseFpStep ==
  ASSUME IInv, UseFp
  PROVE  IInv' /\ RefWork /\ FirstFpStep /\ PrivilegeStep
<1> DEFINE x == Run
           w == Owner
           g == WithFpContext(cpu)
           v2 == IF x.fpca = 1 THEN cpu.fpscr ELSE 0
<1>1. /\ cpu' = [g EXCEPT !.s = w] /\ fresh' = {}
      /\ UNCHANGED <<mem, fpdscr, cur, tcb, saved, parked>>
  BY DEF UseFp, rtos
<1>2. /\ Regs(cpu, Msp(cpu), Psp(cpu), x.spsel, cpu.npriv, x.fpca, x.ipsr, x.lr, x.core, cpu.s,
              cpu.fpscr)
      /\ cpu.npriv \in {0, 1} /\ x.fpca \in {0, 1} /\ fresh = x.fresh
      /\ x.fpca = 1 => cpu.fpscr = x.fpscr
      /\ fresh # {} => fresh = {IF x.fpca = 1 THEN cpu.fpscr ELSE 0}
  BY Now DEF IsContext
<1>3. Regs(g, Msp(cpu), Psp(cpu), x.spsel, cpu.npriv, 1, x.ipsr, x.lr, x.core, cpu.s, v2)
  BY <1>2, WithFpContextRegs
<1>4. (fresh # {} => fresh = {v2}) /\ fresh' \in FreshSets
  BY <1>1, <1>2 DEF FreshSets
<1> HIDE DEF x, w, g, v2
<1>5. Regs(cpu', Msp(cpu), Psp(cpu), x.spsel, cpu.npriv, 1, x.ipsr, x.lr, x.core, w, v2)
  BY <1>1, <1>3, RegsExcept
<1>6. IInv' /\ cpu'.ipsr = cpu.ipsr
  <2>2. x = Run
    BY DEF x
  <2> QED BY <1>1, <1>2, <1>4, <1>5, <2>2, Quietly
<1>7. cpu'.fpscr = v2
  BY <1>5 DEF Regs
<1> QED BY <1>1, <1>4, <1>6, <1>7 DEF RefWork, FirstFpStep, PrivilegeStep

LEMMA WriteFpscrStep ==
  ASSUME IInv, WriteFpscr
  PROVE  IInv' /\ RefWork /\ FirstFpStep /\ PrivilegeStep
<1> DEFINE x == Run
           w == Owner
<1>1. /\ cpu' = [cpu EXCEPT !.fpscr = w] /\ fresh = {}
      /\ UNCHANGED <<mem, fpdscr, cur, tcb, fresh, saved, parked>>
  BY DEF WriteFpscr, rtos, history
<1>2. /\ Regs(cpu, Msp(cpu), Psp(cpu), x.spsel, cpu.npriv, x.fpca, x.ipsr, x.lr, x.core, cpu.s,
              cpu.fpscr)
      /\ cpu.npriv \in {0, 1} /\ x.fpca \in {0, 1}
  BY Now DEF IsContext
<1> HIDE DEF x, w
<1>3. Regs(cpu', Msp(cpu), Psp(cpu), x.spsel, cpu.npriv, x.fpca, x.ipsr, x.lr, x.core, cpu.s, w)
  BY <1>1, <1>2, RegsExcept
<1>4. IInv' /\ cpu'.ipsr = cpu.ipsr
  <2>2. fresh' \in FreshSets /\ x = Run
    BY <1>1 DEF x, IInv
  <2> QED BY <1>1, <1>2, <1>3, <2>2, Quietly
<1> QED BY <1>1, <1>4 DEF RefWork, FirstFpStep, PrivilegeStep

LEMMA WritePrivilegeStep ==
  ASSUME IInv, NEW npriv \in {0, 1}, WritePrivilege(npriv)
  PROVE  IInv' /\ RefWork /\ FirstFpStep /\ PrivilegeStep
<1> DEFINE x == Run
<1>1. /\ npriv = (IF cpu.ipsr = 0 THEN 1 ELSE 0)
      /\ cpu' = SetControl(cpu, npriv, cpu.spsel, cpu.fpca)
      /\ UNCHANGED <<mem, fpdscr, cur, tcb, fresh, saved, parked>>
  BY DEF WritePrivilege, rtos, history
<1>2. /\ Regs(cpu, Msp(cpu), Psp(cpu), x.spsel, cpu.npriv, x.fpca, x.ipsr, x.lr, x.core, cpu.s,
              cpu.fpscr)
      /\ cpu.npriv \in {0, 1} /\ x.fpca \in {0, 1} /\ fresh = x.fresh /\ fresh \in FreshSets
      /\ x.fpca = 1 => cpu.fpscr = x.fpscr /\ cpu.spsel = x.spsel /\ cpu.fpca = x.fpca
      /\ cpu.spsel = x.spsel /\ cpu.fpca = x.fpca /\ cpu.ipsr = x.ipsr
      /\ fresh # {} => fresh = {IF x.fpca = 1 THEN cpu.fpscr ELSE 0}
  BY Now DEF IsContext
<1>5. x = Run
  OBVIOUS
<1> HIDE DEF x
<1>3. Regs(cpu', Msp(cpu), Psp(cpu), x.spsel, npriv, x.fpca, x.ipsr, x.lr, x.core, cpu.s, cpu.fpscr)
  <2>1. CASE x.ipsr = 0 /\ cpu.npriv = 1
    <3>1. cpu' = cpu /\ npriv = 1
      BY <1>1, <1>2, <2>1 DEF SetControl, Unprivileged
    <3> QED BY <1>2, <2>1, <3>1
  <2>2. CASE ~(x.ipsr = 0 /\ cpu.npriv = 1)
    <3>1. Regs(SetControl(cpu, npriv, x.spsel, x.fpca), Msp(cpu), Psp(cpu),
               IF x.ipsr = 0 THEN x.spsel ELSE x.spsel, npriv, x.fpca, x.ipsr, x.lr, x.core, cpu.s,
               cpu.fpscr)
      BY <1>2, <2>2, SetControlRegs
    <3> QED BY <1>1, <1>2, <3>1
  <2> QED BY <2>1, <2>2
<1>4. IInv' /\ cpu'.ipsr = cpu.ipsr
  <2>1. fresh' # {} => fresh # {} /\ fresh' = {IF x.fpca = 1 THEN cpu.fpscr ELSE 0}
    BY <1>1, <1>2
  <2>2. fresh' \in FreshSets
    BY <1>1, <1>2
  <2> QED BY <1>1, <1>2, <1>3, <1>5, <2>1, <2>2, Quietly
<1> QED BY <1>1, <1>4 DEF RefWork, FirstFpStep, PrivilegeStep

(* The invariant after a step, from its parts.                              *)
LEMMA Assembled ==
  ASSUME NEW m, NEW p, NEW sel, NEW n2 \in {0, 1}, NEW f, NEW i, NEW l, NEW o, NEW s, NEW v,
         Regs(cpu', m, p, sel, n2, f, i, l, o, s, v), NEW S, saved' \in Seq(S),
         parked' = [t \in Tasks |-> parked'[t]], tcb' = [t \in Tasks |-> tcb'[t]],
         fpdscr' \in Fpdscrs \cup {0}, fresh' \in FreshSets,
         Good(mem', Line(saved', Run'), Len(saved'), cur', m, p, parked', tcb')
  PROVE  IInv'
BY DEF IInv, Regs

LEMMA WriteFpdscrStep ==
  ASSUME IInv, NEW v \in Fpdscrs, WriteFpdscr(v)
  PROVE  IInv' /\ RefWork /\ FirstFpStep /\ PrivilegeStep
<1> DEFINE x == Run
           n == Len(saved)
           c == Line(saved, Run)
<1>0. x = Run /\ n = Len(saved) /\ c = Line(saved, Run)
  OBVIOUS
<1> HIDE DEF x, n, c
<1>1. /\ fpdscr' = v
      /\ UNCHANGED <<cpu, mem, cur, tcb, fresh, saved, parked>>
  BY DEF WriteFpdscr, rtos, history
<1>2. /\ Good(mem, c, n, cur, Msp(cpu), Psp(cpu), parked, tcb)
      /\ n \in Nat /\ c[n + 1] = x /\ \A i \in 1 .. n : c[i] = saved[i]
      /\ cpu.ipsr = x.ipsr
  BY <1>0, Now
<1>3. Good(mem', Line(saved', Run'), Len(saved'), cur', Msp(cpu'), Psp(cpu'), parked', tcb')
  <2>1. Run' = Run
    BY <1>1 DEF Run
  <2> QED BY <1>1, <1>2, <2>1 DEF n, c
<1>4. IInv'
  BY <1>1, <1>3 DEF IInv
<1> QED BY <1>1, <1>4 DEF RefWork, FirstFpStep, PrivilegeStep

(* A call of a function and its return.                                     *)
LEMMA PushAndCallStep ==
  ASSUME IInv, PushAndCall
  PROVE  IInv' /\ RefWork /\ FirstFpStep /\ PrivilegeStep
<1> DEFINE x  == Run
           n  == Len(saved)
           c  == Line(saved, Run)
           y  == Run'
           d  == Line(saved, y)
           m  == Msp(cpu)
           p  == Psp(cpu)
           a  == x.sp - 1
           g  == [cpu EXCEPT !.sp = a]
           m2 == IF x.spsel = 1 THEN m ELSE a
           p2 == IF x.spsel = 1 THEN a ELSE p
           k2 == Store(mem, a, Word(OwnerIn(x, cur), x.lr))
<1>1. /\ ~HasPushed
      /\ mem' = Store(mem, cpu.sp - 1, Word(Owner, cpu.lr))
      /\ cpu' = [cpu EXCEPT !.sp = cpu.sp - 1, !.lr = CallLr]
      /\ UNCHANGED <<fpdscr, cur, tcb, fresh, saved, parked>>
  BY DEF PushAndCall, rtos, history
<1>2. /\ Good(mem, c, n, cur, m, p, parked, tcb)
      /\ n \in Nat /\ c[n + 1] = x /\ \A i \in 1 .. n : c[i] = saved[i]
      /\ Regs(cpu, m, p, x.spsel, cpu.npriv, x.fpca, x.ipsr, x.lr, x.core, cpu.s, cpu.fpscr)
      /\ cpu.npriv \in {0, 1} /\ IsContext(x) /\ m \in Nat /\ p \in Nat
      /\ cpu.ipsr = x.ipsr /\ cpu.lr = x.lr /\ cpu.sp = x.sp /\ fresh = x.fresh
      /\ x.fpca = 1 => cpu.fpscr = x.fpscr
  BY Now
<1>3. Owner = OwnerIn(x, cur) /\ (HasPushed <=> Pushed(mem, x, cur))
  BY <1>2 DEF Owner, OwnerIn, HasPushed, Pushed
<1>4. mem' = k2 /\ ~Pushed(mem, x, cur) /\ cpu' = [g EXCEPT !.lr = CallLr]
  BY <1>1, <1>2, <1>3
<1>5. /\ x.spsel \in {0, 1} /\ x.ipsr \in 0 .. Depth /\ x.fpca \in {0, 1} /\ CallLr \in Lrs
      /\ x.fresh \in FreshSets
      /\ x.spsel = 1 => x.ipsr = 0
  BY <1>2 DEF IsContext, Lrs
<1>6. PICK S : saved \in Seq(S)
  BY DEF IInv
<1>7. n \in Nat /\ d[n + 1] = y /\ \A i \in 1 .. n : d[i] = saved[i]
  <2> HIDE DEF y
  <2> QED BY <1>6, LineFacts
<1>8. y = Context(cpu', mem', fresh') /\ Line(saved', Run') = d /\ Len(saved') = n
  BY <1>1 DEF Run
<1>9. a \in Nat /\ m2 \in Nat /\ p2 \in Nat
  <2> DEFINE t == StackOf(x.sp)
             top == Top(t)
  <2>1. t \in Stacks /\ top - StackSize + 26 < x.sp
    BY <1>2, Running
  <2>2. top \in Nat /\ top >= StackSize /\ StackSize \in Nat /\ x.sp \in Nat
    BY <1>2, <2>1, TopType, StackFacts DEF IsContext
  <2> HIDE DEF top
  <2> QED BY <1>2, <2>1, <2>2
<1> HIDE DEF y, d, c, n, m, p, x, a
<1>10. Regs(g, m2, p2, x.spsel, cpu.npriv, x.fpca, x.ipsr, x.lr, x.core, cpu.s, cpu.fpscr)
  <2>1. Regs(g, IF x.ipsr = 0 /\ x.spsel = 1 THEN m ELSE a, IF x.ipsr = 0 /\ x.spsel = 1 THEN a ELSE p,
             x.spsel, cpu.npriv, x.fpca, x.ipsr, x.lr, x.core, cpu.s, cpu.fpscr)
    BY <1>2, SetSpRegs
  <2>2. (x.ipsr = 0 /\ x.spsel = 1) = (x.spsel = 1)
    BY <1>5
  <2> QED BY <2>1, <2>2
<1> HIDE DEF g, m2, p2
<1>11. Regs(cpu', m2, p2, x.spsel, cpu.npriv, x.fpca, x.ipsr, CallLr, x.core, cpu.s, cpu.fpscr)
  BY <1>4, <1>10, RegsExcept
<1>12. /\ IsContext(y) /\ y.lr = CallLr /\ y.ipsr = x.ipsr /\ y.spsel = x.spsel /\ y.fpca = x.fpca
       /\ y.sp = (IF x.spsel = 1 THEN p2 ELSE m2)
       /\ y.fpscr = (IF x.fpca = 1 THEN cpu.fpscr ELSE 0)
       /\ y.fresh = fresh' /\ y.stack = Above(mem', y.sp)
  <2>1. fresh' \in FreshSets
    BY <1>1, <1>2, <1>5
  <2> QED BY <1>5, <1>8, <1>9, <1>11, <2>1, ContextRegs
<1>13. y.sp = a /\ y.fpscr = x.fpscr /\ y.fresh = x.fresh /\ y.stack = Above(k2, a)
  <2>1. y.sp = a
    BY <1>5, <1>12 DEF m2, p2
  <2>2. y.fpscr = x.fpscr
    BY <1>2, <1>5, <1>12 DEF IsContext
  <2> QED BY <1>1, <1>2, <1>4, <1>12, <2>1, <2>2
<1>14. Good(k2, d, n, cur, m2, p2, parked, tcb)
  <2>1. \A i \in 1 .. n : d[i] = c[i]
    BY <1>2, <1>7
  <2> QED BY <1>2, <1>4, <1>7, <1>12, <1>13, <2>1, PushStep DEF k2, a, m2, p2
<1>15. IInv'
  <2>1. Good(mem', Line(saved', Run'), Len(saved'), cur', m2, p2, parked', tcb')
    BY <1>1, <1>4, <1>8, <1>14
  <2>2. /\ saved' \in Seq(S) /\ parked' = [t \in Tasks |-> parked'[t]]
        /\ tcb' = [t \in Tasks |-> tcb'[t]] /\ fpdscr' \in Fpdscrs \cup {0} /\ fresh' \in FreshSets
    BY <1>1, <1>6 DEF IInv
  <2> QED BY <1>2, <1>11, <2>1, <2>2, Assembled
<1>16. cpu'.ipsr = cpu.ipsr
  BY <1>2, <1>11 DEF Regs
<1> QED BY <1>1, <1>15, <1>16 DEF RefWork, FirstFpStep, PrivilegeStep

LEMMA PopLrStep ==
  ASSUME IInv, PopLr
  PROVE  IInv' /\ RefWork /\ FirstFpStep /\ PrivilegeStep
<1> DEFINE x  == Run
           n  == Len(saved)
           c  == Line(saved, Run)
           y  == Run'
           d  == Line(saved, y)
           m  == Msp(cpu)
           p  == Psp(cpu)
           a  == x.sp + 1
           l  == mem[x.sp].lr
           g  == [cpu EXCEPT !.sp = a]
           m2 == IF x.spsel = 1 THEN m ELSE a
           p2 == IF x.spsel = 1 THEN a ELSE p
           k2 == Free(mem, x.sp, a)
<1>1. /\ HasPushed
      /\ mem' = Free(mem, cpu.sp, cpu.sp + 1)
      /\ cpu' = [cpu EXCEPT !.sp = cpu.sp + 1, !.lr = mem[cpu.sp].lr]
      /\ UNCHANGED <<fpdscr, cur, tcb, fresh, saved, parked>>
  BY DEF PopLr, rtos, history
<1>2. /\ Good(mem, c, n, cur, m, p, parked, tcb)
      /\ n \in Nat /\ c[n + 1] = x /\ \A i \in 1 .. n : c[i] = saved[i]
      /\ Regs(cpu, m, p, x.spsel, cpu.npriv, x.fpca, x.ipsr, x.lr, x.core, cpu.s, cpu.fpscr)
      /\ cpu.npriv \in {0, 1} /\ IsContext(x) /\ m \in Nat /\ p \in Nat
      /\ cpu.ipsr = x.ipsr /\ cpu.lr = x.lr /\ cpu.sp = x.sp /\ fresh = x.fresh
      /\ x.fpca = 1 => cpu.fpscr = x.fpscr
  BY Now
<1>3. Owner = OwnerIn(x, cur) /\ (HasPushed <=> Pushed(mem, x, cur))
  BY <1>2 DEF Owner, OwnerIn, HasPushed, Pushed
<1>4. mem' = k2 /\ Pushed(mem, x, cur) /\ cpu' = [g EXCEPT !.lr = l]
  BY <1>1, <1>2, <1>3
<1>5. /\ x.spsel \in {0, 1} /\ x.ipsr \in 0 .. Depth /\ x.fpca \in {0, 1}
      /\ x.fresh \in FreshSets
      /\ x.spsel = 1 => x.ipsr = 0
  BY <1>2 DEF IsContext
<1>17. l \in Lrs
  BY <1>2, <1>4 DEF Good, MemOk, Pushed
<1>6. PICK S : saved \in Seq(S)
  BY DEF IInv
<1>7. n \in Nat /\ d[n + 1] = y /\ \A i \in 1 .. n : d[i] = saved[i]
  <2> HIDE DEF y
  <2> QED BY <1>6, LineFacts
<1>8. y = Context(cpu', mem', fresh') /\ Line(saved', Run') = d /\ Len(saved') = n
  BY <1>1 DEF Run
<1>9. a \in Nat /\ m2 \in Nat /\ p2 \in Nat
  BY <1>2 DEF IsContext
<1> HIDE DEF y, d, c, n, m, p, x, a, l
<1>10. Regs(g, m2, p2, x.spsel, cpu.npriv, x.fpca, x.ipsr, x.lr, x.core, cpu.s, cpu.fpscr)
  <2>1. Regs(g, IF x.ipsr = 0 /\ x.spsel = 1 THEN m ELSE a, IF x.ipsr = 0 /\ x.spsel = 1 THEN a ELSE p,
             x.spsel, cpu.npriv, x.fpca, x.ipsr, x.lr, x.core, cpu.s, cpu.fpscr)
    BY <1>2, SetSpRegs
  <2>2. (x.ipsr = 0 /\ x.spsel = 1) = (x.spsel = 1)
    BY <1>5
  <2> QED BY <2>1, <2>2
<1> HIDE DEF g, m2, p2
<1>11. Regs(cpu', m2, p2, x.spsel, cpu.npriv, x.fpca, x.ipsr, l, x.core, cpu.s, cpu.fpscr)
  BY <1>4, <1>10, RegsExcept
<1>12. /\ IsContext(y) /\ y.lr = l /\ y.ipsr = x.ipsr /\ y.spsel = x.spsel /\ y.fpca = x.fpca
       /\ y.sp = (IF x.spsel = 1 THEN p2 ELSE m2)
       /\ y.fpscr = (IF x.fpca = 1 THEN cpu.fpscr ELSE 0)
       /\ y.fresh = fresh' /\ y.stack = Above(mem', y.sp)
  <2>1. fresh' \in FreshSets
    BY <1>1, <1>2, <1>5
  <2> QED BY <1>5, <1>8, <1>9, <1>11, <1>17, <2>1, ContextRegs
<1>13. y.sp = a /\ y.fpscr = x.fpscr /\ y.fresh = x.fresh /\ y.stack = Above(k2, a)
  <2>1. y.sp = a
    BY <1>5, <1>12 DEF m2, p2
  <2>2. y.fpscr = x.fpscr
    BY <1>2, <1>5, <1>12 DEF IsContext
  <2> QED BY <1>1, <1>2, <1>4, <1>12, <2>1, <2>2
<1>14. Good(k2, d, n, cur, m2, p2, parked, tcb)
  <2>1. \A i \in 1 .. n : d[i] = c[i]
    BY <1>2, <1>7
  <2> QED BY <1>2, <1>4, <1>7, <1>12, <1>13, <2>1, PopStep DEF k2, a, l, m2, p2
<1>15. IInv'
  <2>1. Good(mem', Line(saved', Run'), Len(saved'), cur', m2, p2, parked', tcb')
    BY <1>1, <1>4, <1>8, <1>14
  <2>2. /\ saved' \in Seq(S) /\ parked' = [t \in Tasks |-> parked'[t]]
        /\ tcb' = [t \in Tasks |-> tcb'[t]] /\ fpdscr' \in Fpdscrs \cup {0} /\ fresh' \in FreshSets
    BY <1>1, <1>6 DEF IInv
  <2> QED BY <1>2, <1>11, <2>1, <2>2, Assembled
<1>16. cpu'.ipsr = cpu.ipsr
  BY <1>2, <1>11 DEF Regs
<1> QED BY <1>1, <1>15, <1>16 DEF RefWork, FirstFpStep, PrivilegeStep

(* prvPortStartFirstTask() before its SVC.                                  *)
LEMMA PrepareStartStep ==
  ASSUME IInv, PrepareStart
  PROVE  IInv' /\ RefWork /\ FirstFpStep /\ PrivilegeStep
<1> DEFINE x  == Run
           n  == Len(saved)
           c  == Line(saved, Run)
           y  == Run'
           d  == Line(saved, y)
           m  == Msp(cpu)
           p  == Psp(cpu)
           a  == Top(0)
           g  == SetMsp(cpu, a)
           k2 == Free(mem, x.sp, a)
<1>1. /\ cpu.ipsr = 0 /\ cur = 0 /\ cpu.npriv = 0
      /\ cpu' = SetControl(g, 0, 0, 0)
      /\ mem' = Free(mem, cpu.sp, a)
      /\ UNCHANGED <<fpdscr, cur, tcb, fresh, saved, parked>>
  BY DEF PrepareStart, rtos, history
<1>2. /\ Good(mem, c, n, cur, m, p, parked, tcb)
      /\ n \in Nat /\ c[n + 1] = x /\ \A i \in 1 .. n : c[i] = saved[i]
      /\ Regs(cpu, m, p, x.spsel, cpu.npriv, x.fpca, x.ipsr, x.lr, x.core, cpu.s, cpu.fpscr)
      /\ cpu.npriv \in {0, 1} /\ IsContext(x) /\ m \in Nat /\ p \in Nat
      /\ cpu.ipsr = x.ipsr /\ cpu.lr = x.lr /\ cpu.sp = x.sp /\ fresh = x.fresh
  BY Now
<1>5. /\ x.lr \in Lrs /\ x.ipsr = 0 /\ x.ipsr \in 0 .. Depth /\ x.fresh \in FreshSets
  BY <1>1, <1>2 DEF IsContext
<1>6. PICK S : saved \in Seq(S)
  BY DEF IInv
<1>7. n \in Nat /\ d[n + 1] = y /\ \A i \in 1 .. n : d[i] = saved[i]
  <2> HIDE DEF y
  <2> QED BY <1>6, LineFacts
<1>8. y = Context(cpu', mem', fresh') /\ Line(saved', Run') = d /\ Len(saved') = n
  BY <1>1 DEF Run
<1>9. a \in Nat
  BY TopType, StackFacts
<1>3. n = 0
  <2> HIDE DEF c, n, m, p, x
  <2>1. n > 0 => x.ipsr > 0
    BY <1>2, Running
  <2> QED BY <1>2, <1>5, <2>1
<1> HIDE DEF y, d, c, n, m, p, x, a
<1>10. Regs(g, a, p, x.spsel, 0, x.fpca, 0, x.lr, x.core, cpu.s, cpu.fpscr)
  BY <1>1, <1>2, <1>5, SetMspRegs
<1> HIDE DEF g
<1>11. Regs(cpu', a, p, 0, 0, 0, 0, x.lr, x.core, cpu.s, cpu.fpscr)
  <2>1. Regs(SetControl(g, 0, 0, 0), a, p, IF 0 = 0 THEN 0 ELSE x.spsel, 0, 0, 0, x.lr, x.core, cpu.s,
             cpu.fpscr)
    BY <1>10, SetControlRegs
  <2> QED BY <1>1, <2>1
<1>12. /\ IsContext(y) /\ y.ipsr = 0 /\ y.spsel = 0
       /\ y.sp = (IF 0 = 1 THEN p ELSE a)
       /\ y.fresh = fresh' /\ y.stack = Above(mem', y.sp)
  <2>1. fresh' \in FreshSets /\ 0 \in 0 .. Depth
    BY <1>1, <1>2, <1>5
  <2> QED BY <1>2, <1>5, <1>8, <1>9, <1>11, <2>1, ContextRegs
<1>13. y.sp = a /\ y.fresh = x.fresh /\ y.stack = Above(k2, a) /\ mem' = k2
  BY <1>1, <1>2, <1>12
<1>14. Good(k2, d, n, cur, a, p, parked, tcb)
  <2>1. d[1] = y
    BY <1>3, <1>7
  <2> QED BY <1>1, <1>2, <1>3, <1>12, <1>13, <2>1, PrepareStep DEF k2, a
<1>15. IInv'
  <2>1. Good(mem', Line(saved', Run'), Len(saved'), cur', a, p, parked', tcb')
    BY <1>1, <1>8, <1>13, <1>14
  <2>2. /\ saved' \in Seq(S) /\ parked' = [t \in Tasks |-> parked'[t]]
        /\ tcb' = [t \in Tasks |-> tcb'[t]] /\ fpdscr' \in Fpdscrs \cup {0} /\ fresh' \in FreshSets
    BY <1>1, <1>6 DEF IInv
  <2> QED BY <1>11, <2>1, <2>2, Assembled
<1>16. cpu'.ipsr = cpu.ipsr
  BY <1>1, <1>11 DEF Regs
<1> QED BY <1>1, <1>15, <1>16 DEF RefWork, FirstFpStep, PrivilegeStep

(* EXC_RETURN is one of six values.                                         *)
LEMMA ReturnCodes ==
  ASSUME NEW x, x.fpca \in {0, 1}, x.spsel \in {0, 1}
  PROVE  ExcReturnFor(x) \in ExcReturns /\ ExcReturnFor(x) \in Lrs
BY DEF ExcReturnFor, ExcReturns, ThreadReturns, Lrs, ToHandler, ToMsp, ToPsp, WithFp

(* Interrupt.                                                               *)
RefInterrupt == saved' = Append(saved, Run) /\ UNCHANGED parked

(* enterException(): the handler starts on a good stack below the frame.    *)
LEMMA EnterExceptionStep ==
  ASSUME IInv, NEW e \in Levels, EnterException(e)
  PROVE  IInv' /\ RefInterrupt /\ FirstFpStep /\ PrivilegeStep
<1> DEFINE x  == Run
           n  == Len(saved)
           c  == Line(saved, x)
           y  == Run'
           d  == Line(saved', y)
           m  == Msp(cpu)
           p  == Psp(cpu)
           a  == Base(x)
           m2 == IF x.spsel = 1 THEN m ELSE a
           p2 == IF x.spsel = 1 THEN a ELSE p
           f2 == IF fpdscr # 0 THEN 1 ELSE 0
           v2 == IF fpdscr # 0 THEN fpdscr ELSE cpu.fpscr
           l  == ExcReturnFor(x)
           k2 == Store(mem, a, FrameOf(x))
<1>1. /\ e > cpu.ipsr
      /\ cpu' = Entered(cpu, e)
      /\ mem' = Store(mem, EntryFrame(cpu), Frame(cpu, cpu.fpca, cpu.sp % 2))
      /\ saved' = Append(saved, x)
      /\ fresh' = {fpdscr}
      /\ UNCHANGED <<fpdscr, cur, tcb, parked>>
  BY DEF EnterException, rtos, Run
<1>2. /\ Good(mem, c, n, cur, m, p, parked, tcb)
      /\ n \in Nat /\ c[n + 1] = x /\ \A i \in 1 .. n : c[i] = saved[i]
      /\ Regs(cpu, m, p, x.spsel, cpu.npriv, x.fpca, x.ipsr, x.lr, x.core, cpu.s, cpu.fpscr)
      /\ cpu.npriv \in {0, 1} /\ IsContext(x) /\ m \in Nat /\ p \in Nat
      /\ cpu.ipsr = x.ipsr /\ cpu.lr = x.lr /\ cpu.sp = x.sp /\ fresh = x.fresh
      /\ cpu.spsel = x.spsel /\ cpu.fpca = x.fpca /\ cpu.core = x.core
      /\ x.fpca = 1 => cpu.s = x.s /\ cpu.fpscr = x.fpscr
  BY Now
<1>3. x.sp = (IF x.spsel = 1 THEN p ELSE m)
  BY Now
<1>4. PICK S : saved \in Seq(S)
  BY DEF IInv
<1>5. /\ saved' \in Seq(S \cup {x}) /\ Len(saved') = n + 1 /\ d[n + 2] = y
      /\ \A i \in 1 .. n + 1 : d[i] = c[i]
  <2> DEFINE w == saved'
             T == S \cup {x}
  <2>1. /\ n = Len(saved) /\ c = Line(saved, x) /\ w = Append(saved, x) /\ saved \in Seq(T)
        /\ d = Line(w, y) /\ x \in T
    BY <1>1, <1>4
  <2> HIDE DEF n, c, w, d, x, y, T
  <2>2. n \in Nat
    BY <1>2
  <2>3. w \in Seq(T) /\ Len(w) = n + 1 /\ (\A i \in 1 .. n : w[i] = saved[i]) /\ w[n + 1] = x
    BY <2>1, <2>2, AppendProperties
  <2>4. d[n + 2] = y /\ \A i \in 1 .. n + 1 : d[i] = c[i]
    <3>1. /\ d = [i \in 1 .. n + 2 |-> IF i <= n + 1 THEN w[i] ELSE y]
          /\ c = [i \in 1 .. n + 1 |-> IF i <= n THEN saved[i] ELSE x]
      <4>1. (n + 1) + 1 = n + 2
        BY <2>2
      <4> QED BY <2>1, <2>3, <4>1 DEF Line
    <3>2. n + 2 \in 1 .. n + 2 /\ ~(n + 2 <= n + 1)
      BY <2>2
    <3>3. ASSUME NEW i \in 1 .. n + 1 PROVE d[i] = c[i]
      <4>1. i \in 1 .. n + 2 /\ i <= n + 1 /\ (i <= n => i \in 1 .. n) /\ (~(i <= n) => i = n + 1)
        BY <2>2
      <4> QED BY <2>3, <3>1, <4>1
    <3> QED BY <3>1, <3>2, <3>3
  <2> QED BY <2>3, <2>4 DEF w, T
<1>6. y = Context(cpu', mem', fresh')
  BY DEF Run
<1> HIDE DEF x, n, c, y, d, m, p
<1>7. /\ x.spsel \in {0, 1} /\ x.fpca \in {0, 1} /\ x.ipsr \in 0 .. Depth /\ x.sp \in Nat
  BY <1>2 DEF IsContext
<1>8. x.spsel = 1 => x.ipsr = 0
  BY <1>2 DEF IsContext
<1>9. EntryFrame(cpu) = a
  <2>1. EntryFrame(cpu) = LET sp == IF x.ipsr = 0 /\ x.spsel = 1 THEN p ELSE m IN
                          sp - (sp % 2) - FrameSize(x.fpca)
    BY <1>2, EntryFrameRegs
  <2>2. x.sp = IF x.ipsr = 0 /\ x.spsel = 1 THEN p ELSE m
    BY <1>3, <1>8
  <2> QED BY <2>1, <2>2 DEF Base
<1>10. Frame(cpu, cpu.fpca, cpu.sp % 2) = FrameOf(x)
  <2>1. cpu.sp % 2 = x.sp % 2
    BY <1>2
  <2> DEFINE z == x.sp % 2
  <2> HIDE DEF z
  <2>2. Frame(cpu, cpu.fpca, z) =
          [kind |-> "frame", size |-> FrameSize(x.fpca), core |-> x.core, lr |-> x.lr,
           ipsr |-> x.ipsr, align |-> z, s |-> IF x.fpca = 1 THEN x.s ELSE -1,
           fpscr |-> IF x.fpca = 1 THEN x.fpscr ELSE -1]
    BY <1>2 DEF Frame
  <2> QED BY <2>1, <2>2 DEF FrameOf, z
<1>11. ExcReturnFor(cpu) = l /\ l \in Lrs
  BY <1>2, <1>7, ReturnCodes DEF ExcReturnFor
<1>12. mem' = k2
  BY <1>1, <1>9, <1>10
<1>13. a \in Nat /\ m2 \in Nat /\ p2 \in Nat
  <2> DEFINE t == StackOf(x.sp)
             top == Top(t)
  <2>1. t \in Stacks /\ top - StackSize + 26 < x.sp
    BY <1>2, Running
  <2>2. top \in Nat /\ top >= StackSize /\ StackSize \in Nat
    BY <2>1, TopType, StackFacts
  <2>3. a \in Int /\ a >= x.sp - 27
    BY <1>2, EntryFacts
  <2> HIDE DEF top, a
  <2> QED BY <1>2, <1>7, <2>1, <2>2, <2>3
<1>14. Regs(cpu', m2, p2, 0, cpu.npriv, f2, e, l, x.core, cpu.s, v2)
  <2> DEFINE on == x.ipsr = 0 /\ x.spsel = 1
  <2>1. Regs(Entered(cpu, e), IF on THEN m ELSE EntryFrame(cpu), IF on THEN EntryFrame(cpu) ELSE p,
             IF x.ipsr = 0 THEN 0 ELSE x.spsel, cpu.npriv, f2, e, ExcReturnFor(cpu), x.core, cpu.s, v2)
    <3>1. /\ Regs(cpu, m, p, x.spsel, cpu.npriv, x.fpca, x.ipsr, x.lr, x.core, cpu.s, cpu.fpscr)
          /\ cpu.npriv \in {0, 1}
      BY <1>2
    <3> HIDE DEF m2, p2, a, l, k2
    <3> QED BY <3>1, EnteredRegs
  <2>2. /\ (IF on THEN m ELSE EntryFrame(cpu)) = m2 /\ (IF on THEN EntryFrame(cpu) ELSE p) = p2
        /\ (IF x.ipsr = 0 THEN 0 ELSE x.spsel) = 0
    BY <1>7, <1>8, <1>9
  <2> QED BY <1>1, <1>11, <2>1, <2>2
<1> HIDE DEF a, m2, p2, f2, v2, l
<1>15. f2 \in {0, 1} /\ e \in 0 .. Depth /\ fresh' \in FreshSets
  BY <1>1, StackFacts DEF f2, Levels, IInv, FreshSets
<1>16. /\ IsContext(y) /\ y.lr = l /\ y.ipsr = e /\ y.spsel = 0 /\ y.fpca = f2
       /\ y.sp = (IF 0 = 1 THEN p2 ELSE m2)
       /\ y.fpscr = (IF f2 = 1 THEN v2 ELSE 0)
       /\ y.fresh = fresh' /\ y.stack = Above(mem', y.sp)
  BY <1>6, <1>11, <1>13, <1>14, <1>15, ContextRegs
<1>17. y.fresh = {y.fpscr}
  BY <1>1, <1>16 DEF f2, v2
<1>18. Good(k2, d, n + 1, cur, m2, p2, parked, tcb)
  <2>1. y.stack = Above(k2, y.sp) /\ y.sp = (IF x.spsel = 1 THEN m ELSE a)
    BY <1>12, <1>16 DEF m2
  <2>2. (n + 1) + 1 = n + 2 /\ e > x.ipsr
    BY <1>1, <1>2
  <2> DEFINE n2 == n + 1
  <2>3. n2 = n + 1 /\ d[n2 + 1] = y /\ \A i \in 1 .. n2 : d[i] = c[i]
    BY <1>5, <2>2
  <2> HIDE DEF n2
  <2>4. Good(k2, d, n2, cur, m2, p2, parked, tcb)
    BY <1>2, <1>16, <1>17, <2>1, <2>2, <2>3, EnterStep DEF k2, a, l, m2, p2
  <2> QED BY <2>3, <2>4
<1>19. IInv'
  <2>1. Good(mem', Line(saved', Run'), Len(saved'), cur', m2, p2, parked', tcb')
    BY <1>1, <1>5, <1>12, <1>18 DEF d, y
  <2>2. /\ saved' \in Seq(S \cup {x}) /\ parked' = [t \in Tasks |-> parked'[t]]
        /\ tcb' = [t \in Tasks |-> tcb'[t]] /\ fpdscr' \in Fpdscrs \cup {0} /\ fresh' \in FreshSets
    BY <1>1, <1>5, <1>15 DEF IInv
  <2> HIDE DEF k2
  <2> QED BY <1>2, <1>14, <2>1, <2>2, Assembled
<1>20. cpu'.npriv = cpu.npriv
  BY <1>14 DEF Regs
<1>21. RefInterrupt
  BY <1>1 DEF RefInterrupt, x
<1> QED BY <1>1, <1>19, <1>20, <1>21 DEF FirstFpStep, PrivilegeStep

(* EXC_RETURN names the stack and the frame of the code it returns to, and  *)
(* the interrupt hook of the machine restores it.                           *)
LEMMA ReturnCodeBits ==
  ASSUME NEW x, x.fpca \in {0, 1}, x.spsel \in {0, 1}, x.spsel = 1 => x.ipsr = 0,
         NEW l, l = ExcReturnFor(x)
  PROVE  /\ Hooked(BranchedTo(l)) = l /\ IsToPsp(l) = (x.spsel = 1)
         /\ HasFp(l) = (x.fpca = 1) /\ FpBit(l) = x.fpca
<1>1. l \in {241, 249, 253, 225, 233, 237}
  BY DEF ExcReturnFor, ToHandler, ToMsp, ToPsp, WithFp
<1>2. x.spsel = 1 <=> l \in {253, 237}
  BY DEF ExcReturnFor, ToHandler, ToMsp, ToPsp, WithFp
<1>3. x.fpca = 1 <=> l \in {225, 233, 237}
  BY DEF ExcReturnFor, ToHandler, ToMsp, ToPsp, WithFp
<1>4. /\ 241 % 2 = 1 /\ 249 % 2 = 1 /\ 253 % 2 = 1 /\ 225 % 2 = 1 /\ 233 % 2 = 1 /\ 237 % 2 = 1
      /\ 240 % 2 = 0 /\ 248 % 2 = 0 /\ 252 % 2 = 0 /\ 224 % 2 = 0 /\ 232 % 2 = 0 /\ 236 % 2 = 0
      /\ 241 % 16 = 1 /\ 249 % 16 = 9 /\ 253 % 16 = 13 /\ 225 % 16 = 1 /\ 233 % 16 = 9
      /\ 237 % 16 = 13
      /\ (241 \div 16) % 2 = 1 /\ (249 \div 16) % 2 = 1 /\ (253 \div 16) % 2 = 1
      /\ (225 \div 16) % 2 = 0 /\ (233 \div 16) % 2 = 0 /\ (237 \div 16) % 2 = 0
  OBVIOUS
<1>5. Hooked(BranchedTo(l)) = l
  BY <1>1, <1>4 DEF Hooked, BranchedTo
<1>6. IsToPsp(l) = (x.spsel = 1)
  BY <1>1, <1>2, <1>4 DEF IsToPsp
<1>7. HasFp(l) = (x.fpca = 1) /\ FpBit(l) = x.fpca
  BY <1>1, <1>3, <1>4 DEF HasFp, FpBit
<1> QED BY <1>5, <1>6, <1>7

(* Resume.                                                                  *)
RefResume ==
  /\ saved # <<>> /\ Run' = saved[Len(saved)]
  /\ saved' = SubSeq(saved, 1, Len(saved) - 1) /\ UNCHANGED parked

(* exitException(): the interrupted code runs again, as it was.             *)
LEMMA ExitExceptionStep ==
  ASSUME IInv, ExitException
  PROVE  IInv' /\ RefResume /\ FirstFpStep /\ PrivilegeStep
<1> DEFINE r  == Run
           n  == Len(saved)
           c  == Line(saved, r)
           x  == c[n]
           y  == Run'
           w  == saved'
           d  == Line(w, y)
           m  == Msp(cpu)
           p  == Psp(cpu)
           a  == Base(x)
           l  == cpu.lr
           m2 == IF x.spsel = 1 THEN m ELSE x.sp
           p2 == IF x.spsel = 1 THEN x.sp ELSE p
           s2 == IF x.fpca = 1 THEN x.s ELSE cpu.s
           v2 == IF x.fpca = 1 THEN x.fpscr ELSE cpu.fpscr
           k2 == Free(mem, a, x.sp)
           exc == Hooked(BranchedTo(l))
<1>1. /\ cpu.ipsr # 0 /\ l \in ExcReturns /\ (cpu.ipsr = Kernel => cur # NoTask)
      /\ cpu' = Returned(exc)
      /\ mem' = Free(mem, ReturnFrame(exc), ReturnTop(exc))
      /\ fresh' = saved[n].fresh
      /\ w = SubSeq(saved, 1, n - 1)
      /\ UNCHANGED <<fpdscr, cur, tcb, parked>>
  BY DEF ExitException, rtos
<1>2. /\ Good(mem, c, n, cur, m, p, parked, tcb)
      /\ n \in Nat /\ c[n + 1] = r /\ \A i \in 1 .. n : c[i] = saved[i]
      /\ Regs(cpu, m, p, r.spsel, cpu.npriv, r.fpca, r.ipsr, r.lr, r.core, cpu.s, cpu.fpscr)
      /\ cpu.npriv \in {0, 1} /\ IsContext(r) /\ m \in Nat /\ p \in Nat
      /\ cpu.ipsr = r.ipsr /\ cpu.lr = r.lr
  BY Now
<1>3. PICK S : saved \in Seq(S)
  BY DEF IInv
<1>4. y = Context(cpu', mem', fresh') /\ d = Line(w, y) /\ n = Len(saved)
  BY DEF Run
<1> HIDE DEF r, n, c, y, d, m, p, w
<1>5. n > 0 /\ n \in 1 .. n /\ n \in 1 .. n + 1 /\ x = saved[n]
  <2>1. n = 0 => r.ipsr = 0
    BY <1>2, Running
  <2> QED BY <1>1, <1>2, <2>1
<1> HIDE DEF x
<1>6. /\ IsContext(x) /\ Framed(mem, x) /\ r.ipsr > x.ipsr
      /\ r.spsel = 0 /\ r.sp = Entry(x) /\ r.sp = m /\ r.lr = ExcReturnFor(x)
      /\ x.spsel = 1 => n = 1 /\ cur \in Tasks /\ cur # 0 /\ p = Base(x) /\ m = Bottom
                        /\ StackOf(x.sp) = cur
      /\ x.spsel = 0 => m = Base(x) /\ StackOf(x.sp) = 0
  BY <1>1, <1>2, <1>5, ExitFacts DEF x
<1>7. /\ x.spsel \in {0, 1} /\ x.fpca \in {0, 1} /\ x.ipsr \in 0 .. Depth /\ x.sp \in Nat
      /\ x.lr \in Lrs /\ x.fresh \in FreshSets
  BY <1>6 DEF IsContext
<1>8. /\ x.spsel = 1 => x.ipsr = 0
      /\ x.fpca = 0 => x.s = 0 /\ x.fpscr = 0
  BY <1>6 DEF IsContext
<1>9. l = ExcReturnFor(x) /\ exc = l /\ IsToPsp(l) = (x.spsel = 1) /\ HasFp(l) = (x.fpca = 1)
      /\ FpBit(l) = x.fpca
  <2>1. l = ExcReturnFor(x)
    BY <1>2, <1>6
  <2> HIDE DEF l
  <2> QED BY <1>7, <1>8, <2>1, ReturnCodeBits
<1>10. cpu' = Returned(l) /\ mem' = Free(mem, ReturnFrame(l), ReturnTop(l))
  BY <1>1, <1>9
<1> HIDE DEF exc, l
<1>11. ReturnFrame(l) = a
  BY <1>6, <1>7, <1>9 DEF ReturnFrame, m, p
<1>12. FrameAt(a) = FrameOf(x)
  <2>1. FrameOf(x).kind = "frame"
    BY DEF FrameOf
  <2> HIDE DEF a
  <2>2. a \in DOMAIN mem /\ mem[a] = FrameOf(x)
    BY <1>6 DEF Framed, a
  <2> QED BY <2>1, <2>2 DEF FrameAt
<1>13. /\ FrameOf(x).align = x.sp % 2 /\ FrameOf(x).ipsr = x.ipsr /\ FrameOf(x).lr = x.lr
       /\ FrameOf(x).core = x.core /\ FrameOf(x).s = (IF x.fpca = 1 THEN x.s ELSE -1)
       /\ FrameOf(x).fpscr = IF x.fpca = 1 THEN x.fpscr ELSE -1
  BY DEF FrameOf
<1>14. ReturnTop(l) = x.sp
  <2>1. ReturnTop(l) = a + FrameSize(x.fpca) + (x.sp % 2)
    BY <1>9, <1>11, <1>12, <1>13 DEF ReturnTop
  <2> DEFINE q == x.sp % 2
             z == FrameSize(x.fpca)
             sp == x.sp
  <2>2. q \in Int /\ z \in Int /\ sp \in Int /\ a = sp - q - z
    BY <1>7 DEF FrameSize, Base
  <2>3. ReturnTop(l) = a + z + q
    BY <2>1
  <2> HIDE DEF q, z, sp, a
  <2>4. ReturnTop(l) = sp
    BY <2>2, <2>3
  <2> QED BY <2>4 DEF sp
<1>15. mem' = k2 /\ fresh' = x.fresh
  BY <1>1, <1>5, <1>10, <1>11, <1>14
<1>16. Regs(cpu', m2, p2, x.spsel, cpu.npriv, x.fpca, x.ipsr, x.lr, x.core, s2, v2)
  <2> DEFINE fr == FrameOf(x)
  <2>1. LET g == FrameAt(ReturnFrame(l)) IN
        Regs(Returned(l), IF IsToPsp(l) THEN m ELSE ReturnTop(l),
             IF IsToPsp(l) THEN ReturnTop(l) ELSE p,
             IF IsToPsp(l) /\ g.ipsr = 0 THEN 1 ELSE r.spsel, cpu.npriv, FpBit(l), g.ipsr, g.lr, g.core,
             IF HasFp(l) THEN g.s ELSE cpu.s, IF HasFp(l) THEN g.fpscr ELSE cpu.fpscr)
    <3>1. r.ipsr # 0
      BY <1>1, <1>2
    <3>2. /\ Regs(cpu, m, p, r.spsel, cpu.npriv, r.fpca, r.ipsr, r.lr, r.core, cpu.s, cpu.fpscr)
          /\ cpu.npriv \in {0, 1}
      BY <1>2
    <3> HIDE DEF x, m2, p2, s2, v2, a, k2
    <3> QED BY <3>1, <3>2, ReturnedRegs
  <2>2. FrameAt(ReturnFrame(l)) = fr
    BY <1>11, <1>12
  <2> HIDE DEF fr
  <2>3. Regs(Returned(l), IF IsToPsp(l) THEN m ELSE ReturnTop(l),
             IF IsToPsp(l) THEN ReturnTop(l) ELSE p,
             IF IsToPsp(l) /\ fr.ipsr = 0 THEN 1 ELSE r.spsel, cpu.npriv, FpBit(l), fr.ipsr, fr.lr, fr.core,
             IF HasFp(l) THEN fr.s ELSE cpu.s, IF HasFp(l) THEN fr.fpscr ELSE cpu.fpscr)
    BY <2>1, <2>2
  <2>4. /\ fr.ipsr = x.ipsr /\ fr.lr = x.lr /\ fr.core = x.core
        /\ fr.s = (IF x.fpca = 1 THEN x.s ELSE -1) /\ fr.fpscr = IF x.fpca = 1 THEN x.fpscr ELSE -1
    BY <1>13 DEF fr
  <2>5. /\ (IF IsToPsp(l) THEN m ELSE ReturnTop(l)) = m2
        /\ (IF IsToPsp(l) THEN ReturnTop(l) ELSE p) = p2
        /\ (IF HasFp(l) THEN fr.s ELSE cpu.s) = s2
        /\ (IF HasFp(l) THEN fr.fpscr ELSE cpu.fpscr) = v2
    BY <1>9, <1>14, <2>4
  <2>6. (IF IsToPsp(l) /\ fr.ipsr = 0 THEN 1 ELSE r.spsel) = x.spsel
    BY <1>6, <1>7, <1>8, <1>9, <2>4
  <2> HIDE DEF m2, p2, s2, v2
  <2> QED BY <1>9, <1>10, <2>3, <2>4, <2>5, <2>6
<1>17. m2 \in Nat /\ p2 \in Nat
  BY <1>2, <1>7
<1>18. /\ IsContext(y) /\ y.core = x.core /\ y.lr = x.lr /\ y.ipsr = x.ipsr /\ y.spsel = x.spsel
       /\ y.fpca = x.fpca
       /\ y.sp = (IF x.spsel = 1 THEN p2 ELSE m2)
       /\ y.s = (IF x.fpca = 1 THEN s2 ELSE 0) /\ y.fpscr = (IF x.fpca = 1 THEN v2 ELSE 0)
       /\ y.fresh = fresh' /\ y.stack = Above(mem', y.sp)
  <2>1. fresh' \in FreshSets
    BY <1>7, <1>15
  <2> HIDE DEF m2, p2, s2, v2
  <2> QED BY <1>4, <1>7, <1>8, <1>16, <1>17, <2>1, ContextRegs
<1>19. ASSUME NEW e, \A i \in 1 .. n : e[i] = c[i]
       PROVE  Good(k2, e, n - 1, cur, m2, p2, parked, tcb) /\ Above(k2, x.sp) = x.stack
  <2> DEFINE n2 == n - 1
  <2>1. n2 = n - 1 /\ r.lr \in ExcReturns /\ (r.ipsr = Kernel => cur # NoTask) /\ r = c[n + 1]
        /\ x = c[n]
    BY <1>1, <1>2 DEF l, x
  <2> HIDE DEF n2
  <2>2. Good(k2, e, n2, cur, m2, p2, parked, tcb) /\ Above(k2, x.sp) = x.stack
    BY <1>2, <1>5, <1>19, <2>1, ExitStep
  <2> QED BY <2>1, <2>2
<1>20. y = x
  <2>1. Above(k2, x.sp) = x.stack
    BY <1>19
  <2>2. y.sp = x.sp /\ y.s = x.s /\ y.fpscr = x.fpscr
    BY <1>7, <1>8, <1>18
  <2>3. y.stack = x.stack /\ y.fresh = x.fresh
    BY <1>15, <1>18, <2>1, <2>2
  <2>4. /\ x = [core |-> x.core, lr |-> x.lr, ipsr |-> x.ipsr, spsel |-> x.spsel, sp |-> x.sp,
                fpca |-> x.fpca, s |-> x.s, fpscr |-> x.fpscr, fresh |-> x.fresh, stack |-> x.stack]
        /\ y = [core |-> y.core, lr |-> y.lr, ipsr |-> y.ipsr, spsel |-> y.spsel, sp |-> y.sp,
                fpca |-> y.fpca, s |-> y.s, fpscr |-> y.fpscr, fresh |-> y.fresh, stack |-> y.stack]
    BY <1>6, <1>18 DEF IsContext
  <2> HIDE DEF m2, p2, s2, v2, k2, a
  <2> QED BY <1>18, <2>2, <2>3, <2>4
<1>21. w \in Seq(S) /\ Len(w) = n - 1 /\ \A i \in 1 .. n - 1 : w[i] = saved[i]
  <2>1. 1 \in 1 .. n + 1 /\ n - 1 \in 0 .. n
    BY <1>2, <1>5
  <2>2. \A i \in 1 .. n - 1 : 1 + i - 1 = i
    BY <1>2
  <2>3. /\ SubSeq(saved, 1, n - 1) \in Seq(S) /\ Len(SubSeq(saved, 1, n - 1)) = n - 1
        /\ \A i \in 1 .. n - 1 : SubSeq(saved, 1, n - 1)[i] = saved[i]
    BY <1>2, <1>3, <1>4, <1>5
  <2> QED BY <1>1, <2>3
<1>22. \A i \in 1 .. n : d[i] = c[i]
  <2>1. d = [i \in 1 .. n |-> IF i <= n - 1 THEN w[i] ELSE y]
    <3>1. (n - 1) + 1 = n
      BY <1>2
    <3> QED BY <1>4, <1>21, <3>1 DEF Line
  <2>2. ASSUME NEW i \in 1 .. n PROVE d[i] = c[i]
    <3>1. (i <= n - 1 => i \in 1 .. n - 1) /\ (~(i <= n - 1) => i = n)
      BY <1>2
    <3> QED BY <1>2, <1>5, <1>20, <1>21, <2>1, <3>1
  <2> QED BY <2>2
<1>23. IInv'
  <2>1. Good(k2, d, n - 1, cur, m2, p2, parked, tcb)
    BY <1>19, <1>22
  <2>2. Good(mem', Line(saved', Run'), Len(saved'), cur', m2, p2, parked', tcb')
    BY <1>1, <1>4, <1>15, <1>21, <2>1 DEF w, y
  <2>3. /\ saved' \in Seq(S) /\ parked' = [t \in Tasks |-> parked'[t]]
        /\ tcb' = [t \in Tasks |-> tcb'[t]] /\ fpdscr' \in Fpdscrs \cup {0} /\ fresh' \in FreshSets
    BY <1>1, <1>7, <1>15, <1>21 DEF IInv, w
  <2> HIDE DEF k2, m2, p2, s2, v2
  <2> QED BY <1>2, <1>16, <2>2, <2>3, Assembled
<1>24. cpu'.npriv = cpu.npriv /\ cpu'.ipsr # cpu.ipsr
  <2>1. cpu'.npriv = cpu.npriv /\ cpu'.ipsr = x.ipsr
    BY <1>16 DEF Regs
  <2>2. r.ipsr # x.ipsr
    <3>1. r.ipsr \in Int
      BY <1>2 DEF IsContext
    <3> QED BY <1>6, <1>7, <3>1
  <2> QED BY <1>2, <2>1, <2>2
<1>25. RefResume
  <2>1. saved # <<>>
    BY <1>4, <1>5
  <2> QED BY <1>1, <1>4, <1>5, <1>20, <2>1 DEF RefResume, w, y
<1> QED BY <1>23, <1>24, <1>25 DEF FirstFpStep, PrivilegeStep

(* Restart.                                                                 *)
RefRestart == Run' = BootContext /\ saved' = <<>> /\ parked' = Created

(* main() has an empty context but for its stack.                           *)
LEMMA BootFields ==
  ASSUME NEW c, NEW s, NEW v, Regs(c, Top(0), Top(0), 0, 0, 0, 0, BootLr, 0, s, v), NEW k
  PROVE  Context(c, k, {}) =
           [core |-> 0, lr |-> BootLr, ipsr |-> 0, spsel |-> 0, sp |-> Top(0), fpca |-> 0, s |-> 0,
            fpscr |-> 0, fresh |-> {}, stack |-> Above(k, Top(0))]
<1> DEFINE a == Top(0)
<1>1. c.sp = a
  <2>1. c.sp = IF 0 = 0 /\ 0 = 1 THEN a ELSE a
    BY RegsSp
  <2> QED BY <2>1
<1>2. c.spsel = 0 /\ c.fpca = 0 /\ c.ipsr = 0 /\ c.lr = BootLr /\ c.core = 0
  BY DEF Regs
<1> HIDE DEF a
<1> DEFINE st == Above(k, a)
<1>3. Context(c, k, {}) =
        [core |-> 0, lr |-> BootLr, ipsr |-> 0, spsel |-> 0, sp |-> a, fpca |-> 0, s |-> 0,
         fpscr |-> 0, fresh |-> {}, stack |-> st]
  BY <1>1, <1>2 DEF Context, Above
<1> QED BY <1>3 DEF a

(* main() after a reset.                                                    *)
LEMMA Booted ==
  ASSUME NEW c, NEW s, NEW v, Regs(c, Top(0), Top(0), 0, 0, 0, 0, BootLr, 0, s, v)
  PROVE  /\ Context(c, NewTaskStacks, {}) = BootContext
         /\ Good(NewTaskStacks, Line(<<>>, BootContext), 0, 0, Top(0), Top(0), Created, NewTcb)
<1> DEFINE a == Top(0)
           y == Context(c, NewTaskStacks, {})
           d == Line(<<>>, y)
<1>1. a \in Nat /\ 0 \in 0 .. Depth /\ BootLr \in Lrs /\ StackSize \in Nat /\ StackSize >= 56
  BY TopType, StackFacts DEF Lrs
<1>2. y = [core |-> 0, lr |-> BootLr, ipsr |-> 0, spsel |-> 0, sp |-> a, fpca |-> 0, s |-> 0,
           fpscr |-> 0, fresh |-> {}, stack |-> Above(NewTaskStacks, a)]
  BY BootFields
<1>3. Regs(BootCpu, a, a, 0, 0, 0, 0, BootLr, 0, 0, 0)
  BY DEF Regs, IsCpu, BootCpu, Msp, Psp, UsesPsp
<1>4. BootContext = [core |-> 0, lr |-> BootLr, ipsr |-> 0, spsel |-> 0, sp |-> a, fpca |-> 0, s |-> 0,
                     fpscr |-> 0, fresh |-> {}, stack |-> Above(NoMemory, a)]
  BY <1>3, BootFields DEF BootContext
<1>5. StackOf(a) = 0
  <2>1. Within(a, 0)
    <3> HIDE DEF a
    <3>1. a - StackSize < a /\ a <= a
      BY <1>1
    <3> QED BY <3>1 DEF Within, a
  <2> QED BY <1>1, <2>1, StackIs, StackFacts
<1>6. Above(NewTaskStacks, a) = Above(NoMemory, a)
  <2>1. {x \in DOMAIN NewTaskStacks : StackOf(x) = StackOf(a) /\ x >= a} = {}
    <3>1. ASSUME NEW x \in DOMAIN NewTaskStacks PROVE StackOf(x) # 0
      <4>1. PICK t \in Tasks : x = NewTaskPsp(t)
        BY NewTaskMemory
      <4>2. StackOf(NewTaskPsp(t)) = t
        BY NewTaskMemory
      <4> QED BY <4>1, <4>2, StackFacts
    <3> QED BY <1>5, <3>1
  <2>2. {x \in DOMAIN NoMemory : StackOf(x) = StackOf(a) /\ x >= a} = {}
    BY DEF NoMemory
  <2> HIDE DEF a
  <2> QED BY <2>1, <2>2 DEF Above
<1>7. y = BootContext
  BY <1>2, <1>4, <1>6
<1>8. d[1] = y
  <2>1. Len(<<>>) = 0 /\ 0 + 1 = 1 /\ 1 \in 1 .. 1 /\ ~(1 <= 0)
    OBVIOUS
  <2> QED BY <2>1 DEF Line
<1>9. Good(NewTaskStacks, d, 0, 0, a, a, Created, NewTcb)
  <2> DEFINE st == Above(NewTaskStacks, a)
  <2>1. a = Top(0) /\ st = Above(NewTaskStacks, a)
    OBVIOUS
  <2> HIDE DEF a, st
  <2>4. y = [core |-> 0, lr |-> BootLr, ipsr |-> 0, spsel |-> 0, sp |-> a, fpca |-> 0, s |-> 0,
             fpscr |-> 0, fresh |-> {}, stack |-> st]
    BY <1>2, <2>1
  <2> HIDE DEF y
  <2>5. /\ y.core = 0 /\ y.lr = BootLr /\ y.ipsr = 0 /\ y.spsel = 0 /\ y.sp = a /\ y.fpca = 0
        /\ y.s = 0 /\ y.fpscr = 0 /\ y.fresh = {} /\ y.stack = st
    BY <2>4
  <2>2. IsContext(y)
    BY <1>1, <2>4, <2>5 DEF IsContext, FreshSets
  <2>3. y.stack = Above(NewTaskStacks, y.sp) /\ y.sp = Top(0)
    BY <2>1, <2>5
  <2> HIDE DEF d
  <2> QED BY <1>8, <2>1, <2>2, <2>3, <2>5, ResetStep
<1> QED BY <1>7, <1>9

(* The tables of a new scheduler.                                           *)
LEMMA NewTables ==
  /\ <<>> \in Seq({}) /\ Len(<<>>) = 0 /\ Created = [t \in Tasks |-> Created[t]]
  /\ NewTcb = [t \in Tasks |-> NewTcb[t]]
BY DEF Created, NewTcb

(* The machine starts in main().                                            *)
LEMMA InitIInv == Init => IInv /\ Run = BootContext /\ saved = <<>> /\ parked = Created
<1> SUFFICES ASSUME Init PROVE IInv /\ Run = BootContext /\ saved = <<>> /\ parked = Created
  OBVIOUS
<1>1. /\ cpu = BootCpu /\ mem = NewTaskStacks /\ fpdscr = 0 /\ cur = 0 /\ tcb = NewTcb
      /\ fresh = {} /\ saved = <<>> /\ parked = Created
  BY DEF Init
<1> DEFINE a == Top(0)
           y == Run
           d == Line(<<>>, y)
<1>2. Regs(cpu, a, a, 0, 0, 0, 0, BootLr, 0, 0, 0)
  BY <1>1 DEF Regs, IsCpu, BootCpu, Msp, Psp, UsesPsp
<1>3. y = Context(cpu, NewTaskStacks, {}) /\ d = Line(<<>>, y)
  BY <1>1 DEF Run
<1>7. Regs(cpu, Top(0), Top(0), 0, 0, 0, 0, BootLr, 0, 0, 0)
  BY <1>2
<1> HIDE DEF a, y, d
<1>4. y = BootContext /\ Good(NewTaskStacks, d, 0, 0, Top(0), Top(0), Created, NewTcb)
  <2>1. /\ Context(cpu, NewTaskStacks, {}) = BootContext
        /\ Good(NewTaskStacks, Line(<<>>, BootContext), 0, 0, Top(0), Top(0), Created, NewTcb)
    BY <1>7, Booted
  <2> QED BY <1>3, <2>1
<1>5. IsCpu(cpu) /\ cpu.npriv = 0 /\ Msp(cpu) = a /\ Psp(cpu) = a
  BY <1>2 DEF Regs
<1>6. IInv
  <2>1. Good(mem, Line(saved, Run), Len(saved), cur, Msp(cpu), Psp(cpu), parked, tcb)
    BY <1>1, <1>3, <1>4, <1>5, NewTables DEF y, a
  <2>2. saved \in Seq({}) /\ parked = [t \in Tasks |-> parked[t]] /\ tcb = [t \in Tasks |-> tcb[t]]
    BY <1>1, NewTables
  <2> QED BY <1>1, <1>5, <2>1, <2>2 DEF IInv, FreshSets
<1> QED BY <1>1, <1>4, <1>6 DEF y

(* applyResetCpu().                                                         *)
LEMMA ResetRestarts ==
  ASSUME IInv, Reset
  PROVE  IInv' /\ RefRestart /\ FirstFpStep /\ PrivilegeStep
<1>1. /\ cpu' = ResetCpu(cpu) /\ mem' = NewTaskStacks /\ fpdscr' = 0 /\ cur' = 0 /\ tcb' = NewTcb
      /\ fresh' = {} /\ saved' = <<>> /\ parked' = Created
  BY DEF Reset
<1> DEFINE a == Top(0)
           x == Run
           y == Run'
           d == Line(<<>>, y)
<1>2. /\ Regs(cpu, Msp(cpu), Psp(cpu), x.spsel, cpu.npriv, x.fpca, x.ipsr, x.lr, x.core, cpu.s,
              cpu.fpscr)
      /\ cpu.npriv \in {0, 1} /\ fresh = x.fresh /\ cpu.ipsr = x.ipsr
      /\ x.fresh # {} => x.ipsr # 0 /\ x.fresh = {x.fpscr}
  BY Now
<1> HIDE DEF x
<1>3. Regs(cpu', a, a, 0, 0, 0, 0, BootLr, 0, cpu.s, cpu.fpscr)
  BY <1>1, <1>2, ResetCpuRegs
<1>4. y = Context(cpu', NewTaskStacks, {}) /\ d = Line(<<>>, y)
  BY <1>1 DEF Run
<1> HIDE DEF a, y, d
<1>5. y = BootContext /\ Good(NewTaskStacks, d, 0, 0, a, a, Created, NewTcb)
  <2> DEFINE z == cpu'
  <2>1. Regs(z, Top(0), Top(0), 0, 0, 0, 0, BootLr, 0, cpu.s, cpu.fpscr)
    BY <1>3 DEF a
  <2>2. y = Context(z, NewTaskStacks, {})
    BY <1>4
  <2> HIDE DEF z
  <2>3. /\ Context(z, NewTaskStacks, {}) = BootContext
        /\ Good(NewTaskStacks, Line(<<>>, BootContext), 0, 0, Top(0), Top(0), Created, NewTcb)
    BY <2>1, Booted
  <2> QED BY <1>4, <2>2, <2>3 DEF a
<1>6. IInv'
  <2>1. Good(mem', Line(saved', Run'), Len(saved'), cur', a, a, parked', tcb')
    BY <1>1, <1>4, <1>5, NewTables DEF y
  <2>2. /\ saved' \in Seq({}) /\ parked' = [t \in Tasks |-> parked'[t]]
        /\ tcb' = [t \in Tasks |-> tcb'[t]] /\ fpdscr' \in Fpdscrs \cup {0} /\ fresh' \in FreshSets
    BY <1>1, NewTables DEF FreshSets
  <2> QED BY <1>3, <2>1, <2>2, Assembled
<1>7. cpu'.ipsr = 0
  BY <1>3 DEF Regs
<1>8. FirstFpStep
  BY <1>2, <1>7 DEF FirstFpStep
<1>9. RefRestart
  BY <1>1, <1>5 DEF RefRestart, y
<1> QED BY <1>6, <1>8, <1>9 DEF PrivilegeStep

(* VSTM and VLDM of the port.                                               *)
LEMMA KernelFpRegs ==
  ASSUME NEW c, NEW m, NEW p, NEW sel, NEW n, NEW f, NEW i, NEW l, NEW o, NEW s, NEW v, NEW exc,
         Regs(c, m, p, sel, n, f, i, l, o, s, v)
  PROVE  Regs(KernelFp(c, exc), m, p, sel, n, IF HasFp(exc) THEN 1 ELSE f, i, l, o, s,
              IF HasFp(exc) /\ f # 1 THEN 0 ELSE v)
<1>1. Regs(WithFpContext(c), m, p, sel, n, 1, i, l, o, s, IF f = 1 THEN v ELSE 0)
  BY WithFpContextRegs
<1>2. HasFp(exc) => KernelFp(c, exc) = WithFpContext(c)
                    /\ (IF f = 1 THEN v ELSE 0) = IF HasFp(exc) /\ f # 1 THEN 0 ELSE v
  BY DEF KernelFp
<1>3. ~HasFp(exc) => KernelFp(c, exc) = c
  BY DEF KernelFp
<1> QED BY <1>1, <1>2, <1>3

(* Park.                                                                    *)
RefPark(t) ==
  /\ Len(saved) = 1 /\ parked' = [parked EXCEPT ![t] = saved[1]] /\ UNCHANGED saved

(* The first half of PendSV.                                                *)
LEMMA SwitchOutStep ==
  ASSUME IInv, SwitchOut
  PROVE  IInv' /\ (\E t \in Tasks : RefPark(t)) /\ FirstFpStep /\ PrivilegeStep
<1> DEFINE x  == Run
           n  == Len(saved)
           c  == Line(saved, x)
           y  == Run'
           d  == Line(saved, y)
           m  == Msp(cpu)
           p  == Psp(cpu)
           l  == cpu.lr
           f2 == IF HasFp(l) THEN 1 ELSE x.fpca
           v2 == IF HasFp(l) /\ x.fpca # 1 THEN 0 ELSE cpu.fpscr
           park2 == parked'
           tc2   == tcb'
<1>1. /\ cpu.ipsr = Kernel /\ l \in ThreadReturns /\ cur \in Tasks
      /\ tc2 = [tcb EXCEPT ![cur] = [psp |-> p, lr |-> l]]
      /\ cpu' = KernelFp(cpu, l)
      /\ fresh' = IF HasFp(l) THEN {} ELSE fresh
      /\ cur' = NoTask
      /\ park2 = [parked EXCEPT ![cur] = saved[1]]
      /\ UNCHANGED <<mem, fpdscr, saved>>
  BY DEF SwitchOut, InKernel
<1>2. /\ Good(mem, c, n, cur, m, p, parked, tcb)
      /\ n \in Nat /\ c[n + 1] = x /\ \A i \in 1 .. n : c[i] = saved[i]
      /\ Regs(cpu, m, p, x.spsel, cpu.npriv, x.fpca, x.ipsr, x.lr, x.core, cpu.s, cpu.fpscr)
      /\ cpu.npriv \in {0, 1} /\ IsContext(x) /\ m \in Nat /\ p \in Nat
      /\ cpu.ipsr = x.ipsr /\ l = x.lr /\ fresh = x.fresh
      /\ x.stack = Above(mem, x.sp)
      /\ x.fpca = 1 => cpu.fpscr = x.fpscr
  BY Now
<1>3. /\ fresh # {} => fresh = {IF x.fpca = 1 THEN cpu.fpscr ELSE 0}
      /\ x.sp = (IF x.spsel = 1 THEN p ELSE m)
  BY Now
<1>4. PICK S : saved \in Seq(S)
  BY DEF IInv
<1>5. n \in Nat /\ d[n + 1] = y /\ \A i \in 1 .. n : d[i] = saved[i]
  <2> HIDE DEF y
  <2> QED BY <1>4, LineFacts
<1>6. y = Context(cpu', mem, fresh') /\ Line(saved', Run') = d /\ Len(saved') = n
  BY <1>1 DEF Run
<1>7. /\ park2 = [t \in Tasks |-> park2[t]] /\ park2[cur] = saved[1]
      /\ \A t \in Tasks \ {cur} : park2[t] = parked[t]
  <2>1. parked = [t \in Tasks |-> parked[t]]
    BY DEF IInv
  <2> HIDE DEF park2
  <2> QED BY <1>1, <2>1
<1>8. /\ tc2 = [t \in Tasks |-> tc2[t]] /\ tc2[cur] = [psp |-> p, lr |-> l]
      /\ \A t \in Tasks \ {cur} : tc2[t] = tcb[t]
  <2>1. tcb = [t \in Tasks |-> tcb[t]]
    BY DEF IInv
  <2> HIDE DEF tc2, p, l
  <2> QED BY <1>1, <2>1
<1> HIDE DEF x, n, c, y, d, m, p, park2, tc2
<1>9. /\ x.spsel \in {0, 1} /\ x.fpca \in {0, 1} /\ x.ipsr \in 0 .. Depth /\ x.lr \in Lrs
      /\ x.fresh \in FreshSets /\ fresh' \in FreshSets
  BY <1>1, <1>2 DEF IsContext, FreshSets
<1>10. x.spsel = 1 => x.ipsr = 0
  BY <1>2 DEF IsContext
<1>11. Regs(cpu', m, p, x.spsel, cpu.npriv, f2, x.ipsr, x.lr, x.core, cpu.s, v2)
  <2> HIDE DEF l
  <2> QED BY <1>1, <1>2, KernelFpRegs
<1>12. f2 \in {0, 1}
  BY <1>9
<1>13. fresh # {} => fresh = {IF f2 = 1 THEN v2 ELSE 0}
  BY <1>2, <1>3, <1>9
<1> HIDE DEF f2, v2, l
<1>14. /\ IsContext(y) /\ y.lr = x.lr /\ y.ipsr = x.ipsr /\ y.spsel = x.spsel /\ y.fpca = f2
       /\ y.sp = (IF x.spsel = 1 THEN p ELSE m)
       /\ y.fpscr = (IF f2 = 1 THEN v2 ELSE 0)
       /\ y.fresh = fresh' /\ y.stack = Above(mem, y.sp)
  BY <1>2, <1>6, <1>9, <1>10, <1>11, <1>12, ContextRegs
<1>15. y.sp = x.sp /\ y.stack = x.stack
  BY <1>2, <1>3, <1>14
<1>16. Good(mem, d, n, cur, m, p, parked, tcb)
  <2>1. y.fresh # {} => x.fresh # {} /\ y.fresh = {y.fpscr}
    BY <1>1, <1>2, <1>13, <1>14
  <2>2. \A i \in 1 .. n : d[i] = c[i]
    BY <1>2, <1>5
  <2> QED BY <1>2, <1>5, <1>14, <1>15, <2>1, <2>2, QuietStep
<1>17. n = 1 /\ d[1] = saved[1] /\ y.ipsr = Kernel /\ y.lr \in ThreadReturns /\ y.lr = l
  <2>1. y.ipsr = Kernel /\ y.lr \in ThreadReturns /\ y.lr = l
    BY <1>1, <1>2, <1>14
  <2>2. n = 1
    BY <1>5, <1>16, <2>1, KernelFacts
  <2>3. 1 \in 1 .. n
    BY <2>2
  <2> QED BY <1>5, <2>1, <2>2, <2>3
<1>18. Good(mem, d, n, NoTask, m, p, park2, tc2)
  <2>1. park2[cur] = d[1] /\ tc2[cur] = [psp |-> p, lr |-> y.lr]
    BY <1>7, <1>8, <1>17
  <2>2. /\ y = d[n + 1] /\ y.ipsr = Kernel /\ y.lr \in ThreadReturns /\ cur \in Tasks
        /\ \A u \in Tasks \ {cur} : park2[u] = parked[u]
        /\ \A u \in Tasks \ {cur} : tc2[u] = tcb[u]
    BY <1>1, <1>5, <1>7, <1>8, <1>17
  <2> QED BY <1>16, <2>1, <2>2, ParkStep
<1>19. IInv'
  <2>1. Good(mem', Line(saved', Run'), Len(saved'), cur', m, p, parked', tcb')
    BY <1>1, <1>6, <1>18 DEF park2, tc2
  <2>2. /\ saved' \in Seq(S) /\ parked' = [t \in Tasks |-> parked'[t]]
        /\ tcb' = [t \in Tasks |-> tcb'[t]]
    BY <1>1, <1>4, <1>7, <1>8 DEF park2, tc2
  <2>3. fpdscr' \in Fpdscrs \cup {0} /\ fresh' \in FreshSets
    BY <1>1, <1>9 DEF IInv
  <2> QED BY <1>2, <1>11, <2>1, <2>2, <2>3, Assembled
<1>20. cpu'.ipsr = cpu.ipsr /\ cpu'.npriv = cpu.npriv /\ cpu'.fpscr = v2
  BY <1>2, <1>11 DEF Regs
<1>21. FirstFpStep
  <2>1. fresh # {} /\ fresh' = {} => f2 = 1
    BY <1>1 DEF f2
  <2> QED BY <1>13, <1>20, <2>1 DEF FirstFpStep
<1>22. RefPark(cur)
  BY <1>1, <1>17 DEF RefPark, n, park2
<1> QED BY <1>1, <1>19, <1>20, <1>21, <1>22 DEF PrivilegeStep

(* Unpark.                                                                  *)
RefUnpark(t) == Len(saved) = 1 /\ saved' = <<parked[t]>> /\ UNCHANGED parked

(* What the scheduler keeps of a parked task.                               *)
LEMMA TaskPsp ==
  ASSUME NEW m, NEW c, NEW n, NEW k, NEW msp, NEW psp, NEW park, NEW tc,
         Good(m, c, n, k, msp, psp, park, tc), NEW t \in Tasks, t # k
  PROVE  tc[t].psp \in Nat /\ tc[t].lr \in Lrs
<1> DEFINE x == park[t]
           a == Base(x)
           top == Top(t)
<1>1. IsContext(x) /\ Thread(x, t)
  BY ParkedElsewhere
<1>2. tc[t] = [psp |-> a, lr |-> ExcReturnFor(x)]
  BY DEF Good, Parked
<1> HIDE DEF x
<1>3. a \in Int /\ a >= x.sp - 27 /\ x.sp \in Nat
  BY <1>1, EntryFacts
<1>4. top \in Nat /\ top >= StackSize /\ StackSize >= 56 /\ StackSize \in Nat
  BY TopType, StackFacts
<1>5. x.sp = top \/ x.sp = top - 1
  BY <1>1 DEF Thread
<1> HIDE DEF a, top
<1>6. a \in Nat
  BY <1>3, <1>4, <1>5
<1>7. ExcReturnFor(x) \in Lrs
  BY <1>1, ReturnCodes DEF IsContext
<1> QED BY <1>2, <1>6, <1>7

(* The second half of PendSV, or SVC that starts the first task.            *)
LEMMA SwitchInStep ==
  ASSUME IInv, NEW t \in Tasks, SwitchIn(t)
  PROVE  IInv' /\ RefUnpark(t) /\ FirstFpStep /\ PrivilegeStep
<1> DEFINE x  == Run
           n  == Len(saved)
           c  == Line(saved, x)
           y  == Run'
           w  == saved'
           d  == Line(w, y)
           m  == Msp(cpu)
           p  == Psp(cpu)
           l  == tcb[t].lr
           p2 == tcb[t].psp
           f2 == IF HasFp(l) THEN 1 ELSE x.fpca
           v2 == IF HasFp(l) /\ x.fpca # 1 THEN 0 ELSE cpu.fpscr
           g  == KernelFp(cpu, l)
           h  == [g EXCEPT !.lr = l]
<1>1. /\ cpu.ipsr = Kernel /\ cpu.lr \in ThreadReturns /\ cur \notin Tasks
      /\ cur = 0 => Prepared(saved[1])
  BY DEF SwitchIn, InKernel
<1>2. /\ cpu' = SetPsp(h, p2)
      /\ fresh' = IF HasFp(l) THEN {} ELSE fresh
      /\ cur' = t
      /\ w = <<parked[t]>>
      /\ UNCHANGED <<mem, fpdscr, tcb, parked>>
  BY DEF SwitchIn
<1>3. /\ Good(mem, c, n, cur, m, p, parked, tcb)
      /\ n \in Nat /\ c[n + 1] = x /\ \A i \in 1 .. n : c[i] = saved[i]
      /\ Regs(cpu, m, p, x.spsel, cpu.npriv, x.fpca, x.ipsr, x.lr, x.core, cpu.s, cpu.fpscr)
      /\ cpu.npriv \in {0, 1} /\ IsContext(x) /\ m \in Nat /\ p \in Nat
      /\ cpu.ipsr = x.ipsr /\ cpu.lr = x.lr /\ fresh = x.fresh
      /\ x.stack = Above(mem, x.sp)
      /\ x.fpca = 1 => cpu.fpscr = x.fpscr
  BY Now
<1>4. /\ fresh # {} => fresh = {IF x.fpca = 1 THEN cpu.fpscr ELSE 0}
      /\ x.sp = (IF x.spsel = 1 THEN p ELSE m)
  BY Now
<1>5. n = Len(saved) /\ w = saved' /\ d = Line(w, y) /\ y = Context(cpu', mem, fresh')
      /\ Line(saved', Run') = d
  BY <1>2 DEF Run
<1> HIDE DEF x, n, c, y, d, m, p, w
<1>6. /\ n = 1 /\ x = c[2] /\ x.spsel = 0 /\ c[1] = saved[1]
  <2>1. x.ipsr = Kernel /\ x.lr \in ThreadReturns
    BY <1>1, <1>3
  <2>2. n = 1 /\ x = c[2] /\ x.spsel = 0
    BY <1>3, <2>1, KernelFacts
  <2>3. 1 \in 1 .. n
    BY <2>2
  <2> QED BY <1>3, <2>2, <2>3
<1>7. cur = 0 => c[1].sp = Top(0) /\ c[1].fpca = 0
  BY <1>1, <1>6 DEF Prepared
<1>8. /\ x.spsel \in {0, 1} /\ x.fpca \in {0, 1} /\ x.ipsr \in 0 .. Depth
      /\ x.fresh \in FreshSets /\ fresh' \in FreshSets
  BY <1>2, <1>3 DEF IsContext, FreshSets
<1>9. p2 \in Nat /\ l \in Lrs
  <2>1. t # cur
    BY <1>1
  <2> QED BY <1>3, <2>1, TaskPsp
<1> HIDE DEF l, p2
<1>10. Regs(g, m, p, x.spsel, cpu.npriv, f2, x.ipsr, x.lr, x.core, cpu.s, v2)
  BY <1>3, KernelFpRegs
<1>11. f2 \in {0, 1} /\ (fresh # {} => fresh = {IF f2 = 1 THEN v2 ELSE 0})
       /\ (fresh # {} /\ fresh' = {} => f2 = 1)
  BY <1>2, <1>3, <1>4, <1>8
<1> HIDE DEF g, f2, v2
<1>12. Regs(h, m, p, x.spsel, cpu.npriv, f2, x.ipsr, l, x.core, cpu.s, v2)
  BY <1>10, RegsExcept
<1> HIDE DEF h
<1>13. Regs(cpu', m, p2, x.spsel, cpu.npriv, f2, x.ipsr, l, x.core, cpu.s, v2)
  <2>1. ~(x.ipsr = 0 /\ cpu.npriv = 1)
    BY <1>1, <1>3 DEF Kernel
  <2> QED BY <1>2, <1>12, <2>1, SetPspRegs
<1>14. /\ IsContext(y) /\ y.lr = l /\ y.ipsr = x.ipsr /\ y.spsel = x.spsel /\ y.fpca = f2
       /\ y.sp = (IF x.spsel = 1 THEN p2 ELSE m)
       /\ y.fpscr = (IF f2 = 1 THEN v2 ELSE 0)
       /\ y.fresh = fresh' /\ y.stack = Above(mem, y.sp)
  <2>1. x.spsel = 1 => x.ipsr = 0
    BY <1>6
  <2> QED BY <1>3, <1>5, <1>8, <1>9, <1>11, <1>13, <2>1, ContextRegs
<1>15. y.sp = x.sp /\ y.stack = x.stack
  BY <1>3, <1>4, <1>6, <1>14
<1>16. w \in Seq({parked[t]}) /\ Len(w) = 1 /\ d[1] = parked[t] /\ d[2] = y
  <2> DEFINE z == parked[t]
  <2> HIDE DEF z
  <2>1. w = <<z>>
    BY <1>2 DEF z
  <2>2. w \in Seq({z}) /\ Len(w) = 1 /\ w[1] = z
    BY <2>1
  <2>3. d = [i \in 1 .. 2 |-> IF i <= 1 THEN w[i] ELSE y]
    <3>1. 1 + 1 = 2
      OBVIOUS
    <3> QED BY <1>5, <2>2, <3>1 DEF Line
  <2> QED BY <2>2, <2>3 DEF z
<1>17. Good(mem, d, n, t, m, p2, parked, tcb)
  <2>1. y.fresh # {} => x.fresh # {} /\ y.fresh = {y.fpscr}
    BY <1>2, <1>3, <1>11, <1>14
  <2>2. /\ x = c[n + 1] /\ x.ipsr = Kernel /\ x.lr \in ThreadReturns /\ cur \notin Tasks
        /\ y.lr = tcb[t].lr /\ p2 = tcb[t].psp
    BY <1>1, <1>3, <1>14 DEF l, p2
  <2>3. /\ Good(mem, c, n, cur, m, p, parked, tcb) /\ d[1] = parked[t] /\ d[2] = y
        /\ IsContext(y) /\ y.ipsr = x.ipsr /\ y.spsel = x.spsel
        /\ y.sp = x.sp /\ y.stack = x.stack
    BY <1>3, <1>14, <1>15, <1>16
  <2>4. Good(mem, d, n, t, m, tcb[t].psp, parked, tcb)
    BY <1>7, <2>1, <2>2, <2>3, UnparkStep
  <2> QED BY <2>2, <2>4
<1>18. IInv'
  <2>1. Good(mem', Line(saved', Run'), Len(saved'), cur', m, p2, parked', tcb')
    BY <1>2, <1>5, <1>6, <1>16, <1>17
  <2>2. /\ saved' \in Seq({parked[t]}) /\ parked' = [u \in Tasks |-> parked'[u]]
        /\ tcb' = [u \in Tasks |-> tcb'[u]]
    BY <1>2, <1>5, <1>16 DEF IInv
  <2>3. fpdscr' \in Fpdscrs \cup {0} /\ fresh' \in FreshSets
    BY <1>2, <1>8 DEF IInv
  <2> QED BY <1>3, <1>13, <2>1, <2>2, <2>3, Assembled
<1>19. cpu'.ipsr = cpu.ipsr /\ cpu'.npriv = cpu.npriv /\ cpu'.fpscr = v2
  BY <1>3, <1>13 DEF Regs
<1>20. FirstFpStep
  BY <1>11, <1>19 DEF FirstFpStep
<1>21. RefUnpark(t)
  BY <1>2, <1>5, <1>6 DEF RefUnpark
<1> QED BY <1>18, <1>19, <1>20, <1>21 DEF PrivilegeStep

-----------------------------------------------------------------------------
(* Theorems.                                                                *)

(* What the theorems need of a step.                                        *)
StepOk == IInv' /\ [Promise!Next]_(Promise!vars) /\ FirstFpStep /\ PrivilegeStep

LEMMA RefWorkNext == RefWork => Promise!Next
BY DEF RefWork, Promise!Next, Promise!Work

LEMMA FirmwareOk ==
  ASSUME IInv, Firmware
  PROVE  StepOk
<1>1. CASE Compute
  BY <1>1, ComputeStep, RefWorkNext DEF StepOk
<1>2. CASE UseFp
  BY <1>2, UseFpStep, RefWorkNext DEF StepOk
<1>3. CASE WriteFpscr
  BY <1>3, WriteFpscrStep, RefWorkNext DEF StepOk
<1>4. CASE PushAndCall
  BY <1>4, PushAndCallStep, RefWorkNext DEF StepOk
<1>5. CASE PopLr
  BY <1>5, PopLrStep, RefWorkNext DEF StepOk
<1>6. ASSUME NEW npriv \in {0, 1}, WritePrivilege(npriv) PROVE StepOk
  BY <1>6, WritePrivilegeStep, RefWorkNext DEF StepOk
<1>7. ASSUME NEW v \in Fpdscrs, WriteFpdscr(v) PROVE StepOk
  BY <1>7, WriteFpdscrStep, RefWorkNext DEF StepOk
<1>8. CASE PrepareStart
  BY <1>8, PrepareStartStep, RefWorkNext DEF StepOk
<1>9. CASE SwitchOut
  <2>1. IInv' /\ (\E t \in Tasks : RefPark(t)) /\ FirstFpStep /\ PrivilegeStep
    BY <1>9, SwitchOutStep
  <2>2. Promise!Next
    BY <2>1 DEF RefPark, Promise!Next, Promise!Park
  <2> QED BY <2>1, <2>2 DEF StepOk
<1>10. ASSUME NEW t \in Tasks, SwitchIn(t) PROVE StepOk
  <2>1. IInv' /\ RefUnpark(t) /\ FirstFpStep /\ PrivilegeStep
    BY <1>10, SwitchInStep
  <2>2. Promise!Next
    BY <2>1 DEF RefUnpark, Promise!Next, Promise!Unpark
  <2> QED BY <2>1, <2>2 DEF StepOk
<1> QED BY <1>1, <1>2, <1>3, <1>4, <1>5, <1>6, <1>7, <1>8, <1>9, <1>10 DEF Firmware

(* Every step of the specification.                                         *)
LEMMA NextOk ==
  ASSUME IInv, [Next]_vars
  PROVE  StepOk
<1>1. ASSUME NEW e \in Levels, EnterException(e) PROVE StepOk
  <2>1. IInv' /\ RefInterrupt /\ FirstFpStep /\ PrivilegeStep
    BY <1>1, EnterExceptionStep
  <2>2. Promise!Next
    BY <2>1 DEF RefInterrupt, Run, Promise!Next, Promise!Interrupt
  <2> QED BY <2>1, <2>2 DEF StepOk
<1>2. CASE ExitException
  <2>1. IInv' /\ RefResume /\ FirstFpStep /\ PrivilegeStep
    BY <1>2, ExitExceptionStep
  <2>2. Promise!Next
    BY <2>1 DEF RefResume, Run, Promise!Next, Promise!Resume
  <2> QED BY <2>1, <2>2 DEF StepOk
<1>3. CASE Firmware
  BY <1>3, FirmwareOk
<1>4. CASE Reset
  <2>1. IInv' /\ RefRestart /\ FirstFpStep /\ PrivilegeStep
    BY <1>4, ResetRestarts
  <2>2. Promise!Next
    BY <2>1 DEF RefRestart, Run, Promise!Next, Promise!Restart
  <2> QED BY <2>1, <2>2 DEF StepOk
<1>5. CASE UNCHANGED vars
  <2>1. UNCHANGED <<cpu, mem, fpdscr, cur, tcb, fresh, saved, parked>>
    BY <1>5 DEF vars, rtos, history
  <2>2. Run' = Run
    BY <2>1 DEF Run
  <2>3. IInv'
    BY <2>1, <2>2 DEF IInv
  <2>4. UNCHANGED Promise!vars
    BY <2>1, <2>2 DEF Promise!vars, Run
  <2>5. FirstFpStep /\ PrivilegeStep
    BY <2>1 DEF FirstFpStep, PrivilegeStep
  <2> QED BY <2>3, <2>4, <2>5 DEF StepOk
<1> QED BY <1>1, <1>2, <1>3, <1>4, <1>5 DEF Next

(* Which stack the running code is on, and the other stack pointer.         *)
LEMMA Stacked ==
  ASSUME IInv
  PROVE  OnOwnStack
<1> DEFINE x == Run
           n == Len(saved)
           c == Line(saved, x)
           m == Msp(cpu)
           p == Psp(cpu)
<1>1. /\ Good(mem, c, n, cur, m, p, parked, tcb)
      /\ n \in Nat /\ c[n + 1] = x
      /\ IsContext(x) /\ cpu.ipsr = x.ipsr /\ cpu.sp = x.sp
  BY Now
<1>2. /\ Regs(cpu, m, p, x.spsel, cpu.npriv, x.fpca, x.ipsr, x.lr, x.core, cpu.s, cpu.fpscr)
      /\ x.sp = (IF x.spsel = 1 THEN p ELSE m)
  BY Now
<1>3. cpu.other = IF x.ipsr = 0 /\ x.spsel = 1 THEN m ELSE p
  BY <1>2, RegsSp
<1> HIDE DEF x, n, c, m, p
<1>4. /\ StackOf(x.sp) = (IF x.spsel = 1 THEN cur ELSE 0)
      /\ n = 0 => cur \in Stacks /\ Thread(x, cur) /\ x.ipsr = 0
      /\ n > 0 => x.ipsr > 0 /\ x.spsel = 0
  BY <1>1, Running
<1>5. n = 0 \/ n > 0
  BY <1>1
<1>6. Mode(mem, c, n, cur, m, p, parked) /\ Chain(mem, c, n)
  BY <1>1 DEF Good
<1>7. CASE n = 0
  <2>1. x.spsel = (IF cur = 0 THEN 0 ELSE 1) /\ x.ipsr = 0
    BY <1>4, <1>7 DEF Thread
  <2>2. StackOf(cpu.sp) = cur
    BY <1>1, <1>4, <2>1
  <2>3. cur \in Tasks => StackOf(cpu.other) = 0
    <3>1. cur \in Tasks => m = Bottom /\ cur # 0
      BY <1>6, <1>7, StackFacts DEF Mode
    <3> QED BY <1>3, <2>1, <3>1, BottomFacts
  <2> QED BY <1>1, <2>1, <2>2, <2>3 DEF OnOwnStack
<1>8. CASE n > 0
  <2>1. x.ipsr # 0 /\ x.spsel = 0
    BY <1>1, <1>4, <1>8 DEF IsContext
  <2>2. StackOf(cpu.sp) = 0
    BY <1>1, <1>4, <2>1
  <2>3. cur \in Tasks => StackOf(cpu.other) = cur
    <3> SUFFICES ASSUME cur \in Tasks PROVE StackOf(cpu.other) = cur
      OBVIOUS
    <3> DEFINE z == c[1]
    <3>1. p = Base(z) /\ Thread(z, cur) /\ cur # 0 /\ cur # NoTask
      BY <1>6, <1>8, StackFacts DEF Mode, NoTask
    <3>2. z.spsel = 1
      BY <3>1 DEF Thread
    <3>3. 1 \in 1 .. n + 1 /\ 1 < n + 1
      BY <1>1, <1>8
    <3>4. StackOf(Base(z)) = StackOf(z.sp) /\ StackOf(z.sp) = cur
      BY <1>1, <3>1, <3>2, <3>3, Where
    <3> QED BY <1>3, <2>1, <3>1, <3>4
  <2> QED BY <1>1, <2>1, <2>2, <2>3 DEF OnOwnStack
<1> QED BY <1>5, <1>7, <1>8

(* The type invariant follows: every address lies in a stack.               *)
LEMMA Typed ==
  ASSUME IInv
  PROVE  TypeOK
<1> DEFINE x == Run
           n == Len(saved)
           c == Line(saved, x)
           m == Msp(cpu)
           p == Psp(cpu)
<1>1. /\ Good(mem, c, n, cur, m, p, parked, tcb)
      /\ m \in Nat /\ p \in Nat /\ cpu.npriv \in {0, 1}
      /\ IsContext(x) /\ cpu.ipsr = x.ipsr /\ cpu.sp = x.sp /\ cpu.lr = x.lr
      /\ cpu.spsel = x.spsel /\ cpu.fpca = x.fpca
  BY Now
<1>2. Regs(cpu, m, p, x.spsel, cpu.npriv, x.fpca, x.ipsr, x.lr, x.core, cpu.s, cpu.fpscr)
  BY Now
<1>3. cpu.other = IF x.ipsr = 0 /\ x.spsel = 1 THEN m ELSE p
  BY <1>2, RegsSp
<1> HIDE DEF x, n, c, m, p
<1>4. /\ cpu.sp \in Nat /\ cpu.other \in Nat /\ cpu.ipsr \in 0 .. Depth
      /\ cpu.spsel \in {0, 1} /\ cpu.npriv \in {0, 1} /\ cpu.fpca \in {0, 1}
      /\ cpu.lr \in ExcReturns \cup {BootLr, CallLr}
  BY <1>1, <1>3 DEF IsContext, Lrs
<1>5. cur \in Tasks \cup {0, NoTask}
  BY <1>1 DEF Good, Mode, Stacks
<1>6. DOMAIN mem \subseteq 1 .. Top(0) \cup UNION {Top(t - 1) + 1 .. Top(t) : t \in Tasks}
  <2> SUFFICES ASSUME NEW b \in DOMAIN mem
               PROVE  b \in 1 .. Top(0) \cup UNION {Top(t - 1) + 1 .. Top(t) : t \in Tasks}
    OBVIOUS
  <2>1. MemOk(mem)
    BY <1>1 DEF Good
  <2> DEFINE t == StackOf(b)
             top == Top(t)
  <2>2. b \in Int /\ t \in Stacks /\ top - StackSize < b /\ b <= top
    BY <2>1, MemStack DEF Within
  <2>3. top \in Nat /\ top >= StackSize /\ StackSize \in Nat /\ t \in Nat
    BY <2>2, TopType, StackFacts
  <2>4. CASE t = 0
    <3>1. top = StackSize /\ top = Top(0)
      <4>1. StackSize * (0 + 1) = StackSize
        BY <2>3
      <4> QED BY <2>4, <4>1 DEF Top
    <3> HIDE DEF top, t
    <3>2. b \in 1 .. top
      BY <2>2, <2>3, <3>1
    <3> QED BY <3>1, <3>2
  <2>5. CASE t # 0
    <3>1. t \in Tasks
      BY <2>2, <2>5 DEF Stacks
    <3>2. Top(t - 1) = top - StackSize
      <4>1. Top(t - 1) = StackSize * t
        <5>1. (t - 1) + 1 = t
          BY <2>3
        <5> QED BY <5>1 DEF Top
      <4> QED BY <2>2, <4>1, TopType
    <3>3. b \in Top(t - 1) + 1 .. Top(t)
      <4> DEFINE lo == Top(t - 1)
      <4>1. lo = top - StackSize
        BY <3>2
      <4> HIDE DEF lo, top, t
      <4>2. b \in lo + 1 .. top
        BY <2>2, <2>3, <4>1
      <4> QED BY <4>2 DEF lo, top
    <3> QED BY <3>1, <3>3
  <2> QED BY <2>4, <2>5
<1>7. /\ fpdscr \in Fpdscrs \cup {0} /\ fresh \in FreshSets
      /\ DOMAIN parked = Tasks /\ DOMAIN tcb = Tasks
  BY DEF IInv
<1> QED BY <1>4, <1>5, <1>6, <1>7 DEF TypeOK, FreshSets

(* The inductive invariant holds throughout.                                *)
LEMMA Always == Spec => []IInv
<1>1. IInv /\ [Next]_vars => IInv'
  BY NextOk DEF StepOk
<1> QED BY <1>1, InitIInv, PTL DEF Spec

(* Registers stay in their ranges, the scheduler keeps a task control block *)
(* for every task, and no frame or pushed word ever lies outside the stacks *)
(* (TypeOK): Depth nested exceptions fit, as ExcFrameAssumption asks.       *)
THEOREM TypeCorrect == Spec => []TypeOK
BY Always, Typed, PTL

(* Handlers and main() run on the main stack and a task on its own, and the *)
(* stack pointer that Unicorn keeps aside is the other one: the register    *)
(* writes of enterException(), exitException() and applyResetCpu() come in  *)
(* an order that reaches the right bank in every mode.                      *)
THEOREM OwnStacks == Spec => []OnOwnStack
BY Always, Stacked, PTL

(* ExcFrame implements Contexts: code that exceptions interrupt resumes most *)
(* recent first, and a parked task comes back, with the registers, stack    *)
(* pointer, stack contents and floating-point state it had, for any number  *)
(* of tasks, depth of nesting and size of stack.                            *)
THEOREM Refinement == Spec => Implements
<1>1. Init => Promise!Init
  BY InitIInv DEF Run, Promise!Init
<1>2. IInv /\ [Next]_vars => [Promise!Next]_(Promise!vars)
  BY NextOk DEF StepOk
<1> QED BY <1>1, <1>2, Always, PTL DEF Spec, Implements, Promise!Spec

(* The first floating-point instruction of a handler finds in FPSCR what     *)
(* FPDSCR was when the handler was entered: enterException() has to load it *)
(* itself, Unicorn's own being 0, and it is not lost to handlers that use   *)
(* the FPU or switch tasks in between.  It is the value of the entry also   *)
(* when the handler, or one that interrupts it, writes FPDSCR before.       *)
THEOREM Fpscr == Spec => FpscrDefault
<1>1. IInv /\ [Next]_vars => [FirstFpStep]_vars
  BY NextOk DEF StepOk
<1> QED BY <1>1, Always, PTL DEF Spec, FpscrDefault

(* Entry and return leave nPRIV as it was: what enterException() and        *)
(* exitException() clear for their own writes, they put back.               *)
THEOREM Privilege == Spec => PrivilegeKept
<1>1. IInv /\ [Next]_vars => [PrivilegeStep]_vars
  BY NextOk DEF StepOk
<1> QED BY <1>1, Always, PTL DEF Spec, PrivilegeKept, PrivilegeStep
=============================================================================
