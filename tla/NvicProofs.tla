----------------------------- MODULE NvicProofs -----------------------------
(***************************************************************************)
(* Proofs about the exception controller for every set of lines, priorities *)
(* and masks.                                                               *)
(***************************************************************************)
EXTENDS Nvic, SequenceTheorems, WellFoundedInduction, TLAPS

(* Exception numbers in use are positive and distinct from thread mode.     *)
LEMMA ExceptionNumbers ==
  /\ Lines \subseteq 16 .. 255
  /\ Exceptions \subseteq 2 .. 255
  /\ Configurable \subseteq Exceptions
  /\ Exceptions = {NMI, HardFault} \cup Configurable
  /\ NMI \notin Configurable /\ HardFault \notin Configurable
  /\ Scanned \subseteq SysPend \cup Lines
  /\ SysPend \cup Lines \subseteq Exceptions
<1> USE DEF NMI, HardFault, BusFault, UsageFault, SVCall, PendSV, SysTick
<1>1. Lines \subseteq 16 .. 255
  BY NvicAssumption DEF Lines, Line
<1>2. Configurable \subseteq 5 .. 255
  BY <1>1 DEF Configurable
<1>3. Scanned \subseteq SysPend \cup Lines
  BY DEF Scanned, Lines
<1>4. SysPend \cup Lines \subseteq Exceptions
  BY NvicAssumption DEF Exceptions, Configurable
<1> QED BY <1>1, <1>2, <1>3, <1>4 DEF Exceptions

(* Dropping the low bits of a priority byte keeps it a byte.                *)
LEMMA GroupOfByte ==
  ASSUME prigroup \in 0 .. 7, NEW p \in 0 .. 255
  PROVE  GroupPriority(p) \in 0 .. 255
<1> DEFINE m == GroupSize[prigroup + 1]
<1>1. m \in {2, 4, 8, 16, 32, 64, 128, 256}
  BY DEF GroupSize
<1> HIDE DEF m
<1>2. p - (p % m) \in 0 .. 255
  BY <1>1
<1>3. GroupPriority(p) = p - (p % m)
  BY DEF GroupPriority, m
<1> QED BY <1>2, <1>3

(* Urgencies order thread mode last, then the configurable exceptions, then *)
(* HardFault and NMI.                                                       *)
LEMMA UrgencyRange ==
  ASSUME TypeOK
  PROVE  /\ Urgency(0) = 256
         /\ Urgency(NMI) = -2
         /\ Urgency(HardFault) = -1
         /\ \A e \in Configurable : Urgency(e) \in 0 .. 255
<1>1. ASSUME NEW e \in Configurable
      PROVE  /\ e # 0
             /\ PriorityOf(e) = prio[e]
             /\ prio[e] \in 0 .. 255
  <2>1. e \in 2 .. 255 /\ e # NMI /\ e # HardFault
    BY ExceptionNumbers
  <2>2. prio[e] \in 0 .. 255
    BY DEF TypeOK
  <2> QED BY <2>1, <2>2 DEF PriorityOf
<1>2. prigroup \in 0 .. 7
  BY DEF TypeOK
<1>3. ASSUME NEW e \in Configurable
      PROVE  Urgency(e) \in 0 .. 255
  <2>1. GroupPriority(prio[e]) \in 0 .. 255
    BY <1>1, <1>2, GroupOfByte
  <2> QED BY <1>1, <2>1 DEF Urgency
<1> QED BY <1>3 DEF Urgency, PriorityOf, GroupPriority, NMI, HardFault

LEMMA UrgencyInt ==
  ASSUME TypeOK, NEW e \in {0} \cup Exceptions
  PROVE  Urgency(e) \in Int
BY UrgencyRange, ExceptionNumbers

(* Masks only make the running code more urgent.                            *)
LEMMA ExecutionPriorityBound ==
  ASSUME TypeOK
  PROVE  /\ ExecutionPriority \in Int
         /\ ExecutionPriority <= Urgency(current)
<1>1. Urgency(current) \in Int
  BY UrgencyInt DEF TypeOK
<1>2. GroupPriority(basepri) \in 0 .. 255
  BY GroupOfByte DEF TypeOK
<1> DEFINE base == IF basepri # 0 THEN Lower(Urgency(current), GroupPriority(basepri))
                                  ELSE Urgency(current)
           prim == IF primask THEN Lower(base, 0) ELSE base
<1>3. base \in Int /\ base <= Urgency(current)
  <2>1. CASE basepri # 0
    BY <1>1, <1>2, <2>1 DEF Lower
  <2>2. CASE basepri = 0
    BY <1>1, <2>2
  <2> QED BY <2>1, <2>2
<1>4. prim \in Int /\ prim <= Urgency(current)
  <2> HIDE DEF base
  <2> QED BY <1>1, <1>3 DEF Lower
<1>5. ExecutionPriority = IF faultmask THEN Lower(prim, -1) ELSE prim
  BY DEF ExecutionPriority
<1> HIDE DEF prim
<1> QED BY <1>1, <1>4, <1>5 DEF Lower

-----------------------------------------------------------------------------
(* Type correctness.                                                        *)

LEMMA EnterType ==
  ASSUME TypeOK, NEW e \in Exceptions, Enter(e)
  PROVE  TypeOK'
<1>1. e >= 16 => e \in Lines
  BY DEF Exceptions, Configurable, NMI, HardFault, BusFault, UsageFault, SVCall,
     PendSV, SysTick
<1>2. stacked' \in Seq({0} \cup Exceptions)
  BY DEF TypeOK, Enter
<1>3. pendingFlag' \in BOOLEAN
  BY DEF Enter, AnyPending
<1> QED BY <1>1, <1>2, <1>3 DEF TypeOK, Enter

(* An exception of the controller is entered only through Enter.            *)
LEMMA EntersAreExceptions ==
  ASSUME TypeOK
  PROVE  /\ Deliverable \subseteq Exceptions
         /\ HardFault \in Exceptions /\ SVCall \in Exceptions
         /\ Faults \subseteq Exceptions
BY NvicAssumption, ExceptionNumbers
   DEF TypeOK, Deliverable, Exceptions, Configurable

LEMMA ReturnType ==
  ASSUME TypeOK, Len(stacked) > 0, Return
  PROVE  TypeOK'
<1>1. stacked[Len(stacked)] \in {0} \cup Exceptions
  BY DEF TypeOK
<1>2. stacked' \in Seq({0} \cup Exceptions)
  BY DEF TypeOK, Return
<1> QED BY <1>1, <1>2 DEF TypeOK, Return

(* Register writes and peripheral calls: everything but entry and return.   *)
LEMMA WritesType ==
  ASSUME TypeOK, Peripheral \/ RegisterWrite \/ SystemReset \/ ResetMcu
  PROVE  TypeOK' /\ (PendingFlagExact => PendingFlagExact')
<1> USE DEF PendingFlagExact, AnyPending
<1>1. CASE Peripheral
  BY <1>1 DEF TypeOK, Peripheral, SetPending, cpuVars
<1>2. ASSUME ResetMcu
      PROVE  TypeOK' /\ PendingFlagExact'
  <2>1. TypeOK'
    <3>1. prio' \in [Configurable -> 0 .. 255]
      BY <1>2 DEF ResetMcu
    <3>2. stacked' \in Seq({0} \cup Exceptions)
      BY <1>2 DEF ResetMcu
    <3>3. /\ pend' \in SUBSET (SysPend \cup Lines) /\ iser' \in SUBSET Lines
          /\ iabr' \in SUBSET Lines /\ shcsr' \in SUBSET Faults
      BY <1>2 DEF ResetMcu
    <3>4. pendingFlag' \in BOOLEAN /\ resetReq' \in BOOLEAN /\ primask' \in BOOLEAN
      BY <1>2 DEF ResetMcu
    <3>5. current' \in {0} \cup Exceptions /\ ipsr' \in {0} \cup Exceptions
      BY <1>2 DEF ResetMcu
    <3>6. prigroup' \in 0 .. 7 /\ basepri' \in 0 .. 255 /\ faultmask' \in BOOLEAN
      BY <1>2 DEF ResetMcu, TypeOK
    <3> QED BY <3>1, <3>2, <3>3, <3>4, <3>5, <3>6 DEF TypeOK
  <2>2. ~AnyPending({}, iser')
    OBVIOUS
  <2> QED BY <1>2, <2>1, <2>2 DEF ResetMcu
<1>3. ASSUME NEW set \in SUBSET SysPend, NEW clear \in SUBSET (SysPend \ {NMI}),
             WriteIcsr(set, clear)
      PROVE  TypeOK' /\ PendingFlagExact'
  BY <1>3 DEF TypeOK, WriteIcsr, cpuVars
<1>4. ASSUME NEW on \in SUBSET Lines, WriteEnable(on)
      PROVE  TypeOK' /\ PendingFlagExact'
  BY <1>4 DEF TypeOK, WriteEnable, cpuVars
<1>5. ASSUME NEW p \in SUBSET (SysPend \cup Lines), WritePend(p)
      PROVE  TypeOK' /\ PendingFlagExact'
  BY <1>5 DEF TypeOK, WritePend, cpuVars
<1>6. ASSUME NEW lines \in SUBSET Lines,
             WriteIser(lines) \/ WriteIcer(lines) \/ WriteIspr(lines) \/ WriteIcpr(lines)
      PROVE  TypeOK' /\ PendingFlagExact'
  BY <1>4, <1>5, <1>6 DEF TypeOK, WriteIser, WriteIcer, WriteIspr, WriteIcpr
<1>7. ASSUME NEW e \in Tuned, NEW byte \in Levels, WritePriority(e, byte)
      PROVE  TypeOK' /\ (PendingFlagExact => PendingFlagExact')
  <2>1. byte - (byte % 16) \in 0 .. 255
    BY NvicAssumption
  <2>2. UNCHANGED <<pend, iser>>
    BY <1>7 DEF WritePriority
  <2>3. CASE e < 16
    BY <1>7, <2>1, <2>2, <2>3 DEF TypeOK, WritePriority, cpuVars
  <2>4. CASE ~(e < 16)
    BY <1>7, <2>1, <2>2, <2>4 DEF TypeOK, WritePriority, cpuVars
  <2> QED BY <2>3, <2>4
<1>8. ASSUME NEW group \in Groupings, NEW r \in BOOLEAN, WriteAircr(group, r)
      PROVE  TypeOK' /\ (PendingFlagExact => PendingFlagExact')
  BY <1>8, NvicAssumption DEF TypeOK, WriteAircr, cpuVars
<1>9. ASSUME NEW faults \in SUBSET Faults, WriteShcsr(faults)
      PROVE  TypeOK' /\ (PendingFlagExact => PendingFlagExact')
  BY <1>9 DEF TypeOK, WriteShcsr, cpuVars
<1>10. ASSUME NEW p \in BOOLEAN, NEW f \in BOOLEAN, NEW b \in Basepris \cup {0},
              WriteMasks(p, b, f)
       PROVE  TypeOK' /\ (PendingFlagExact => PendingFlagExact')
  <2>1. b \in 0 .. 255
    BY NvicAssumption
  <2>2. TypeOK'
    BY <1>10, <2>1 DEF TypeOK, WriteMasks, nvicVars
  <2>3. UNCHANGED <<pend, iser, pendingFlag>>
    BY <1>10 DEF WriteMasks, nvicVars
  <2> QED BY <2>2, <2>3
<1>11. CASE RegisterWrite
  BY <1>3, <1>6, <1>7, <1>8, <1>9, <1>10, <1>11 DEF RegisterWrite
<1> QED BY <1>1, <1>2, <1>11 DEF SystemReset

-----------------------------------------------------------------------------
(* The inductive invariant.                                                 *)

IInv == TypeOK /\ IpsrAgrees /\ PendingFlagExact /\ NestingStrict

LEMMA ChainProperties ==
  ASSUME TypeOK
  PROVE  /\ Chain \in Seq({0} \cup Exceptions)
         /\ Len(Chain) = Len(stacked) + 1
         /\ Len(stacked) \in Nat
         /\ Chain[Len(Chain)] = ipsr
         /\ \A i \in 1 .. Len(stacked) : Chain[i] = stacked[i]
BY DEF TypeOK, Chain

(* A strictly more urgent exception keeps the order of the active handlers. *)
LEMMA EnterNesting ==
  ASSUME IInv, NEW e \in Exceptions, Urgency(e) < Urgency(current), Enter(e)
  PROVE  IInv'
<1>1. TypeOK'
  BY EnterType DEF IInv
<1>2. IpsrAgrees' /\ PendingFlagExact'
  BY DEF Enter, IpsrAgrees, PendingFlagExact
<1>3. \A x : Urgency(x)' = Urgency(x)
  BY DEF Enter, Urgency, PriorityOf, GroupPriority
<1>4. Chain' = Append(Chain, e)
  BY DEF Enter, Chain
<1>5. NestingStrict'
  <2>1. /\ Len(Chain') = Len(Chain) + 1
        /\ Len(Chain) \in Nat \ {0}
        /\ Chain'[Len(Chain) + 1] = e
        /\ \A i \in 1 .. Len(Chain) : Chain'[i] = Chain[i] /\ Chain[i] \in {0} \cup Exceptions
    BY <1>4, ChainProperties DEF IInv
  <2>2. \A i \in 1 .. Len(Chain) : Urgency(Chain[i]) \in Int
    BY <2>1, UrgencyInt DEF IInv
  <2>3. Urgency(e) \in Int
    BY UrgencyInt DEF IInv
  <2>4. ASSUME NEW i \in 1 .. Len(Chain)
        PROVE  Urgency(e) < Urgency(Chain[i])
    <3>1. Chain[Len(Chain)] = current
      BY ChainProperties DEF IInv, IpsrAgrees
    <3>2. CASE i = Len(Chain)
      BY <3>1, <3>2
    <3>3. CASE i < Len(Chain)
      <4>1. Urgency(Chain[Len(Chain)]) < Urgency(Chain[i])
        BY <2>1, <3>3 DEF IInv, NestingStrict
      <4>2. Urgency(current) \in Int /\ Urgency(Chain[i]) \in Int
        BY <2>1, <2>2, <3>1
      <4> QED BY <2>3, <3>1, <4>1, <4>2
    <3> QED BY <2>1, <3>2, <3>3
  <2>5. ASSUME NEW i \in 1 .. Len(Chain'), NEW j \in 1 .. Len(Chain'), i < j
        PROVE  Urgency(Chain'[j]) < Urgency(Chain'[i])
    <3>1. CASE j = Len(Chain) + 1
      BY <2>1, <2>4, <2>5, <3>1
    <3>2. CASE j \in 1 .. Len(Chain)
      BY <2>1, <2>5, <3>2 DEF IInv, NestingStrict
    <3> QED BY <2>1, <3>1, <3>2
  <2> QED BY <1>3, <2>1, <2>5 DEF IInv, NestingStrict
<1> QED BY <1>1, <1>2, <1>5 DEF IInv

(* In a handler there is a frame to return to, and only thread mode has     *)
(* none.                                                                    *)
LEMMA FrameBelowHandler ==
  ASSUME IInv
  PROVE  ipsr = 0 <=> Len(stacked) = 0
<1>1. CASE Len(stacked) = 0
  <2>1. Len(Chain) = 1 /\ Chain[Len(Chain)] = ipsr
    BY <1>1, ChainProperties DEF IInv
  <2> QED BY <1>1, <2>1 DEF IInv, NestingStrict
<1>2. CASE Len(stacked) > 0
  <2>1. Urgency(Chain[Len(Chain)]) < Urgency(Chain[1])
    BY <1>2, ChainProperties DEF IInv, NestingStrict
  <2>2. Urgency(0) = 256
    BY DEF Urgency
  <2> QED BY <1>2, <2>1, <2>2, ChainProperties DEF IInv, NestingStrict
<1> QED BY <1>1, <1>2, ChainProperties DEF IInv

LEMMA PopFrame ==
  ASSUME TypeOK, Len(stacked) \in Nat, Len(stacked) > 0
  PROVE  /\ SubSeq(stacked, 1, Len(stacked) - 1) \in Seq({0} \cup Exceptions)
         /\ Len(SubSeq(stacked, 1, Len(stacked) - 1)) = Len(stacked) - 1
         /\ \A i \in 1 .. Len(stacked) - 1 :
              SubSeq(stacked, 1, Len(stacked) - 1)[i] = stacked[i]
<1>1. \A i \in 1 .. Len(stacked) - 1 : stacked[i] \in {0} \cup Exceptions
  BY DEF TypeOK
<1> DEFINE n == Len(stacked) - 1
<1>2. n \in Int /\ 1 <= n + 1
  OBVIOUS
<1> HIDE DEF n
<1>3. /\ SubSeq(stacked, 1, n) \in Seq({0} \cup Exceptions)
      /\ Len(SubSeq(stacked, 1, n)) = IF 1 <= n THEN n - 1 + 1 ELSE 0
      /\ \A i \in 1 .. n - 1 + 1 : SubSeq(stacked, 1, n)[i] = stacked[1 + i - 1]
  <2>1. \A i \in 1 .. n : stacked[i] \in {0} \cup Exceptions
    BY <1>1 DEF n
  <2>2. 1 \in Int
    OBVIOUS
  <2> QED BY <1>2, <2>1, <2>2, SubSeqProperties
<1>4. Len(SubSeq(stacked, 1, n)) = n
  BY <1>2, <1>3
<1>5. \A i \in 1 .. n : SubSeq(stacked, 1, n)[i] = stacked[i]
  BY <1>2, <1>3
<1> QED BY <1>3, <1>4, <1>5 DEF n

(* A return pops the innermost handler: the rest of the chain is as it was. *)
LEMMA ReturnNesting ==
  ASSUME IInv, Return
  PROVE  IInv'
<1>1. Len(stacked) \in Nat /\ Len(stacked) > 0
  BY FrameBelowHandler, ChainProperties DEF IInv, Return
<1>2. TypeOK'
  BY <1>1, ReturnType DEF IInv
<1>3. IpsrAgrees' /\ PendingFlagExact'
  BY DEF Return, IInv, IpsrAgrees, PendingFlagExact
<1>4. \A x : Urgency(x)' = Urgency(x)
  BY DEF Return, Urgency, PriorityOf, GroupPriority
<1>5. /\ Len(Chain') = Len(stacked)
      /\ \A i \in 1 .. Len(stacked) : Chain'[i] = Chain[i]
  <2> DEFINE below == SubSeq(stacked, 1, Len(stacked) - 1)
             top == stacked[Len(stacked)]
  <2>1. Chain' = Append(below, top)
    BY DEF Return, Chain
  <2>2. stacked \in Seq({0} \cup Exceptions)
    BY DEF IInv, TypeOK
  <2>3. /\ below \in Seq({0} \cup Exceptions)
        /\ Len(below) = Len(stacked) - 1
        /\ \A i \in 1 .. Len(stacked) - 1 : below[i] = stacked[i]
    BY <1>1, PopFrame DEF IInv
  <2>4. top \in {0} \cup Exceptions
    BY <1>1, <2>2
  <2>5. \A i \in 1 .. Len(stacked) : Chain[i] = stacked[i]
    BY ChainProperties DEF IInv
  <2>6. /\ Len(Append(below, top)) = Len(stacked)
        /\ Append(below, top)[Len(stacked)] = top
        /\ \A i \in 1 .. Len(stacked) - 1 : Append(below, top)[i] = below[i]
    <3> HIDE DEF below, top
    <3> QED BY <1>1, <2>3, <2>4
  <2> HIDE DEF below
  <2> QED BY <1>1, <2>1, <2>3, <2>5, <2>6
<1>6. NestingStrict'
  BY <1>1, <1>4, <1>5, ChainProperties DEF IInv, NestingStrict
<1> QED BY <1>2, <1>3, <1>6 DEF IInv

(* Steps that leave the stack alone and change the urgency of no exception  *)
(* on it.                                                                   *)
LEMMA SameChainNesting ==
  ASSUME IInv, TypeOK', PendingFlagExact', UNCHANGED <<stacked, ipsr, current>>,
         \A i \in 1 .. Len(Chain) : Urgency(Chain[i])' = Urgency(Chain[i])
  PROVE  IInv'
<1>1. Chain' = Chain
  BY DEF Chain
<1> QED BY <1>1 DEF IInv, IpsrAgrees, NestingStrict

LEMMA WritePriorityNesting ==
  ASSUME IInv, NEW e \in Tuned, NEW byte \in Levels, WritePriority(e, byte)
  PROVE  \A i \in 1 .. Len(Chain) : Urgency(Chain[i])' = Urgency(Chain[i])
<1> SUFFICES ASSUME NEW i \in 1 .. Len(Chain)
             PROVE  Urgency(Chain[i])' = Urgency(Chain[i])
  OBVIOUS
<1>1. Chain' = Chain
  BY DEF WritePriority, cpuVars, Chain
<1>2. CASE Chain[i] = 0
  BY <1>1, <1>2 DEF Urgency
<1>3. CASE Chain[i] # 0
  <2>1. Chain[i] \in Exceptions /\ Chain[i] # e
    <3>1. Chain[i] \in Exceptions
      BY <1>3, ChainProperties DEF IInv
    <3>2. Chain[i] \in ActiveNow
      BY <3>1, ChainProperties DEF IInv, ActiveNow
    <3> QED BY <3>1, <3>2 DEF WritePriority
  <2>2. Chain[i] \in Configurable => prio'[Chain[i]] = prio[Chain[i]]
    BY <2>1 DEF WritePriority, IInv, TypeOK
  <2>3. prigroup' = prigroup
    BY DEF WritePriority
  <2> QED BY <1>1, <2>1, <2>2, <2>3, ExceptionNumbers
          DEF Urgency, PriorityOf, GroupPriority
<1> QED BY <1>2, <1>3

LEMMA WriteAircrNesting ==
  ASSUME IInv, NEW group \in Groupings, NEW r \in BOOLEAN, WriteAircr(group, r)
  PROVE  \A i \in 1 .. Len(Chain) : Urgency(Chain[i])' = Urgency(Chain[i])
<1>1. Chain' = Chain
  BY DEF WriteAircr, cpuVars, Chain
<1>2. CASE prigroup' = prigroup
  BY <1>1, <1>2 DEF WriteAircr, Urgency, PriorityOf, GroupPriority
<1>3. CASE prigroup' # prigroup
  <2>1. Len(Chain) = 1 /\ Chain[1] = 0
    BY <1>3, FrameBelowHandler, ChainProperties DEF WriteAircr, IInv, NestingStrict
  <2> QED BY <1>1, <2>1 DEF Urgency
<1> QED BY <1>2, <1>3

(* Every exception that can be entered is strictly more urgent than the     *)
(* running code: SVC and configurable faults are compared with the execution *)
(* priority, and HardFault is entered outside HardFault and NMI only.        *)
LEMMA EscalateUrgent ==
  ASSUME IInv, ~InHardFaultOrNMI
  PROVE  Urgency(HardFault) < Urgency(current)
<1>1. current \in {0} \cup Configurable
  BY ExceptionNumbers DEF IInv, TypeOK, InHardFaultOrNMI
<1> QED BY <1>1, UrgencyRange DEF IInv

LEMMA PreemptingUrgent ==
  ASSUME IInv, NEW e \in Exceptions,
         GroupPriority(PriorityOf(e)) < ExecutionPriority
  PROVE  Urgency(e) < Urgency(current)
<1>1. Urgency(e) = GroupPriority(PriorityOf(e))
  BY ExceptionNumbers DEF Urgency
<1>2. Urgency(e) \in Int /\ Urgency(current) \in Int
  BY UrgencyInt DEF IInv, TypeOK
<1>3. ExecutionPriority \in Int /\ ExecutionPriority <= Urgency(current)
  BY ExecutionPriorityBound DEF IInv
<1> QED BY <1>1, <1>2, <1>3

LEMMA SynchronousNesting ==
  ASSUME IInv, Synchronous
  PROVE  IInv'
<1>1. ASSUME Escalate
      PROVE  IInv'
  BY <1>1, EscalateUrgent, EnterNesting, EntersAreExceptions DEF IInv, Escalate
<1>2. ASSUME NEW e \in Faults, RaiseFault(e)
      PROVE  IInv'
  <2>1. e \in Exceptions
    BY EntersAreExceptions DEF IInv
  <2> QED BY <1>1, <1>2, <2>1, PreemptingUrgent, EnterNesting DEF RaiseFault
<1>3. ASSUME RaiseSvc
      PROVE  IInv'
  <2>1. SVCall \in Exceptions
    BY EntersAreExceptions DEF IInv
  <2> QED BY <1>1, <1>3, <2>1, PreemptingUrgent, EnterNesting DEF RaiseSvc
<1> QED BY <1>1, <1>2, <1>3 DEF Synchronous, RaiseOther

LEMMA ServiceNesting ==
  ASSUME IInv, Service
  PROVE  IInv'
<1>1. PICK e \in Deliverable : ServiceException(e)
  BY DEF Service
<1>2. e \in Exceptions
  BY EntersAreExceptions DEF IInv
<1> QED BY <1>1, <1>2, PreemptingUrgent, EnterNesting DEF ServiceException, Preempts

LEMMA ResetNesting ==
  ASSUME IInv, ResetMcu
  PROVE  IInv'
<1>1. TypeOK' /\ PendingFlagExact'
  BY WritesType DEF IInv
<1>2. IpsrAgrees'
  BY DEF ResetMcu, IpsrAgrees
<1>3. Chain' = <<0>>
  BY DEF ResetMcu, Chain
<1> QED BY <1>1, <1>2, <1>3 DEF IInv, NestingStrict

LEMMA WritesNesting ==
  ASSUME IInv, RegisterWrite
  PROVE  IInv'
<1>1. TypeOK' /\ PendingFlagExact'
  BY WritesType DEF IInv
<1>2. ASSUME UNCHANGED <<stacked, ipsr, current, prio, prigroup>>
      PROVE  IInv'
  <2>1. Chain' = Chain
    BY <1>2 DEF Chain
  <2>2. \A i \in 1 .. Len(Chain) : Urgency(Chain[i])' = Urgency(Chain[i])
    BY <1>2, <2>1 DEF Urgency, PriorityOf, GroupPriority
  <2> QED BY <1>1, <1>2, <2>2, SameChainNesting
<1>3. ASSUME NEW e \in Tuned, NEW byte \in Levels, WritePriority(e, byte)
      PROVE  IInv'
  <2>1. UNCHANGED <<stacked, ipsr, current>>
    BY <1>3 DEF WritePriority, cpuVars
  <2> QED BY <1>1, <1>3, <2>1, WritePriorityNesting, SameChainNesting
<1>4. ASSUME NEW group \in Groupings, NEW r \in BOOLEAN, WriteAircr(group, r)
      PROVE  IInv'
  <2>1. UNCHANGED <<stacked, ipsr, current>>
    BY <1>4 DEF WriteAircr, cpuVars
  <2> QED BY <1>1, <1>4, <2>1, WriteAircrNesting, SameChainNesting
<1>5. CASE \/ \E set \in SUBSET SysPend, clear \in SUBSET (SysPend \ {NMI}) :
                WriteIcsr(set, clear)
           \/ \E lines \in SUBSET Lines : \/ WriteIser(lines) \/ WriteIcer(lines)
                                          \/ WriteIspr(lines) \/ WriteIcpr(lines)
           \/ \E faults \in SUBSET Faults : WriteShcsr(faults)
           \/ \E p, f \in BOOLEAN, b \in Basepris \cup {0} : WriteMasks(p, b, f)
  <2>1. UNCHANGED <<stacked, ipsr, current, prio, prigroup>>
    BY <1>5 DEF WriteIcsr, WriteIser, WriteIcer, WriteIspr, WriteIcpr, WriteEnable,
       WritePend, WriteShcsr, WriteMasks, cpuVars, nvicVars
  <2> QED BY <1>2, <2>1
<1> QED BY <1>3, <1>4, <1>5 DEF RegisterWrite

LEMMA PeripheralNesting ==
  ASSUME IInv, Peripheral
  PROVE  IInv'
<1>1. TypeOK' /\ PendingFlagExact'
  BY WritesType DEF IInv
<1>2. UNCHANGED <<stacked, ipsr, current, prio, prigroup>>
  BY DEF Peripheral, SetPending, cpuVars
<1>3. Chain' = Chain
  BY <1>2 DEF Chain
<1>4. \A i \in 1 .. Len(Chain) : Urgency(Chain[i])' = Urgency(Chain[i])
  BY <1>2, <1>3 DEF Urgency, PriorityOf, GroupPriority
<1> QED BY <1>1, <1>2, <1>4, SameChainNesting

LEMMA InitIInv == Init => IInv
<1> SUFFICES ASSUME Init
             PROVE  IInv
  OBVIOUS
<1>1. TypeOK
  <2>1. prio \in [Configurable -> 0 .. 255]
    BY DEF Init
  <2>2. stacked \in Seq({0} \cup Exceptions)
    BY DEF Init
  <2>3. /\ pend \in SUBSET (SysPend \cup Lines) /\ iser \in SUBSET Lines
        /\ iabr \in SUBSET Lines /\ shcsr \in SUBSET Faults
    BY DEF Init
  <2>4. /\ pendingFlag \in BOOLEAN /\ resetReq \in BOOLEAN
        /\ primask \in BOOLEAN /\ faultmask \in BOOLEAN
    BY DEF Init
  <2>5. /\ current \in {0} \cup Exceptions /\ ipsr \in {0} \cup Exceptions
        /\ prigroup \in 0 .. 7 /\ basepri \in 0 .. 255
    BY DEF Init
  <2> QED BY <2>1, <2>2, <2>3, <2>4, <2>5 DEF TypeOK
<1>2. IpsrAgrees
  BY DEF Init, IpsrAgrees
<1>3. PendingFlagExact
  <2>1. ~AnyPending({}, iser)
    BY DEF AnyPending
  <2>2. AnyPending(pend, iser) = FALSE
    BY <2>1 DEF Init
  <2>3. pendingFlag = FALSE
    BY DEF Init
  <2> QED BY <2>2, <2>3 DEF PendingFlagExact
<1>4. NestingStrict
  <2>1. Chain = <<0>>
    BY DEF Init, Chain
  <2> QED BY <2>1 DEF NestingStrict
<1> QED BY <1>1, <1>2, <1>3, <1>4 DEF IInv

LEMMA NextIInv == IInv /\ [Next]_vars => IInv'
<1> SUFFICES ASSUME IInv, [Next]_vars
             PROVE  IInv'
  OBVIOUS
<1>1. CASE Peripheral
  BY <1>1, PeripheralNesting
<1>2. CASE RegisterWrite
  BY <1>2, WritesNesting
<1>3. CASE Synchronous
  BY <1>3, SynchronousNesting
<1>4. CASE Return
  BY <1>4, ReturnNesting
<1>5. CASE Service
  BY <1>5, ServiceNesting
<1>6. CASE SystemReset \/ ResetMcu
  BY <1>6, ResetNesting DEF SystemReset
<1>7. CASE UNCHANGED vars
  BY <1>7 DEF vars, nvicVars, cpuVars, IInv, TypeOK, IpsrAgrees, PendingFlagExact,
     NestingStrict, Chain, Urgency, PriorityOf, GroupPriority, AnyPending, Enabled
<1> QED BY <1>1, <1>2, <1>3, <1>4, <1>5, <1>6, <1>7 DEF Next

-----------------------------------------------------------------------------
(* Results.                                                                 *)

LEMMA Invariance == Spec => []IInv
BY InitIInv, NextIInv, PTL DEF Spec

(* The controller's and the CPU's state keep their types.                   *)
THEOREM TypeCorrect == Spec => []TypeOK
<1>1. IInv => TypeOK
  BY DEF IInv
<1> QED BY <1>1, Invariance, PTL

(* The flag polled before every instruction is exact after every register   *)
(* write, peripheral call, entry and reset (updatePendingFlag).             *)
THEOREM FlagExact == Spec => []PendingFlagExact
<1>1. IInv => PendingFlagExact
  BY DEF IInv
<1> QED BY <1>1, Invariance, PTL

(* currentException_ and the CPU's IPSR never disagree.                     *)
THEOREM IpsrAgreement == Spec => []IpsrAgrees
<1>1. IInv => IpsrAgrees
  BY DEF IInv
<1> QED BY <1>1, Invariance, PTL

(* Handlers nest in strictly increasing urgency, whatever the interleaving  *)
(* of peripherals, faults, SVC and returns.                                 *)
THEOREM Nesting == Spec => []NestingStrict
<1>1. IInv => NestingStrict
  BY DEF IInv
<1> QED BY <1>1, Invariance, PTL

(* No exception is entered while its handler is active.                     *)
THEOREM Reentry == Spec => []NoReentry
<1>1. IInv => NoReentry
  <2> SUFFICES ASSUME IInv, NEW i \in 1 .. Len(Chain), NEW j \in 1 .. Len(Chain), i # j
               PROVE  Chain[i] # Chain[j]
    BY DEF NoReentry
  <2>1. Len(Chain) \in Nat
    BY ChainProperties DEF IInv
  <2>2. Urgency(Chain[i]) \in Int /\ Urgency(Chain[j]) \in Int
    <3>1. Chain[i] \in {0} \cup Exceptions /\ Chain[j] \in {0} \cup Exceptions
      BY ChainProperties DEF IInv
    <3> QED BY <3>1, UrgencyInt DEF IInv
  <2>3. Urgency(Chain[i]) # Urgency(Chain[j])
    <3>1. CASE i < j
      BY <2>2, <3>1 DEF IInv, NestingStrict
    <3>2. CASE j < i
      BY <2>2, <3>2 DEF IInv, NestingStrict
    <3> QED BY <2>1, <3>1, <3>2
  <2> QED BY <2>3
<1> QED BY <1>1, Invariance, PTL

-----------------------------------------------------------------------------
(* Masks.                                                                   *)

LEMMA ExecutionPriorityMasks ==
  ASSUME TypeOK
  PROVE  /\ primask \/ faultmask => ExecutionPriority <= 0
         /\ basepri # 0 => ExecutionPriority <= GroupPriority(basepri)
<1>1. Urgency(current) \in Int
  BY UrgencyInt DEF TypeOK
<1>2. GroupPriority(basepri) \in 0 .. 255
  BY GroupOfByte DEF TypeOK
<1> DEFINE base == IF basepri # 0 THEN Lower(Urgency(current), GroupPriority(basepri))
                                  ELSE Urgency(current)
           prim == IF primask THEN Lower(base, 0) ELSE base
<1>3. base \in Int /\ (basepri # 0 => base <= GroupPriority(basepri))
  BY <1>1, <1>2 DEF Lower
<1>4. prim \in Int /\ prim <= base /\ (primask => prim <= 0)
  <2> HIDE DEF base
  <2> QED BY <1>3 DEF Lower
<1>5. ExecutionPriority = IF faultmask THEN Lower(prim, -1) ELSE prim
  BY DEF ExecutionPriority
<1> HIDE DEF base, prim
<1>6. ExecutionPriority \in Int /\ ExecutionPriority <= prim
      /\ (faultmask => ExecutionPriority <= 0)
  BY <1>4, <1>5 DEF Lower
<1> QED BY <1>2, <1>3, <1>4, <1>6

LEMMA PreemptingUnmasked ==
  ASSUME IInv, NEW e \in Exceptions, Enter(e),
         GroupPriority(PriorityOf(e)) < ExecutionPriority
  PROVE  MaskStep
<1>1. e \in Configurable => Urgency(e) \in 0 .. 255
  BY UrgencyRange DEF IInv
<1>2. Urgency(e) = GroupPriority(PriorityOf(e))
  BY ExceptionNumbers DEF Urgency
<1>3. ExecutionPriority \in Int
  BY ExecutionPriorityBound DEF IInv
<1>4. CASE e \in {NMI, HardFault}
  BY <1>4 DEF MaskStep, Enter
<1>5. CASE e \in Configurable
  <2>1. Urgency(e)' = Urgency(e)
    BY DEF Enter, Urgency, PriorityOf, GroupPriority
  <2>2. ~(primask \/ faultmask)
    BY <1>1, <1>2, <1>3, <1>5, ExecutionPriorityMasks DEF IInv
  <2>3. GroupPriority(basepri) \in Int
    <3>1. GroupPriority(basepri) \in 0 .. 255
      BY GroupOfByte DEF IInv, TypeOK
    <3> QED BY <3>1
  <2>4. basepri # 0 => Urgency(e) < GroupPriority(basepri)
    BY <1>1, <1>2, <1>3, <1>5, <2>3, ExecutionPriorityMasks DEF IInv
  <2>5. ipsr' = e
    BY DEF Enter
  <2> QED BY <2>1, <2>2, <2>4, <2>5 DEF MaskStep
<1> QED BY <1>4, <1>5, ExceptionNumbers

(* PRIMASK, FAULTMASK and BASEPRI are honoured by every exception entry.    *)
THEOREM Masks == Spec => MasksRespected
<1>1. IInv /\ [Next]_vars => [MaskStep]_vars
  <2> SUFFICES ASSUME IInv, Next
               PROVE  MaskStep
    BY DEF vars, MaskStep, nvicVars, cpuVars
  <2>1. ASSUME Escalate
        PROVE  MaskStep
    BY <2>1 DEF Escalate, Enter, MaskStep
  <2>2. ASSUME NEW e \in Exceptions, Enter(e),
               GroupPriority(PriorityOf(e)) < ExecutionPriority
        PROVE  MaskStep
    BY <2>2, PreemptingUnmasked
  <2>3. CASE Synchronous
    BY <2>1, <2>2, <2>3, EntersAreExceptions
       DEF IInv, Synchronous, RaiseFault, RaiseOther, RaiseSvc
  <2>4. CASE Service
    BY <2>2, <2>4, EntersAreExceptions DEF IInv, Service, ServiceException, Preempts
  <2>5. CASE Return
    <3>1. Len(stacked) \in Nat /\ Len(stacked) > 0
      BY <2>5, FrameBelowHandler, ChainProperties DEF IInv, Return
    <3>2. Len(stacked') = Len(stacked) - 1
      BY <2>5, <3>1, PopFrame DEF IInv, Return
    <3> QED BY <3>1, <3>2 DEF MaskStep
  <2>6. CASE SystemReset \/ ResetMcu
    <3>1. Len(stacked') = 0 /\ Len(stacked) \in Nat
      BY <2>6, ChainProperties DEF IInv, SystemReset, ResetMcu
    <3> QED BY <3>1 DEF MaskStep
  <2>7. CASE Peripheral \/ RegisterWrite
    <3>1. stacked' = stacked /\ Len(stacked) \in Nat
      BY <2>7, ChainProperties DEF IInv, Peripheral, SetPending, RegisterWrite, WriteIcsr,
         WriteIser, WriteIcer, WriteIspr, WriteIcpr, WriteEnable, WritePend, WritePriority,
         WriteAircr, WriteShcsr, WriteMasks, cpuVars, nvicVars
    <3> QED BY <3>1 DEF MaskStep
  <2> QED BY <2>3, <2>4, <2>5, <2>6, <2>7 DEF Next
<1> QED BY <1>1, Invariance, PTL DEF MasksRespected, Spec
-----------------------------------------------------------------------------
(* Preemption.                                                              *)

LEMMA LeastElement ==
  ASSUME NEW T, T \subseteq Nat, T # {}
  PROVE  \E m \in T : \A n \in T : m <= n
<1> DEFINE R == OpToRel(<, Nat)
<1>1. IsWellFoundedOn(R, Nat)
  BY NatLessThanWellFounded
<1>2. \A m, n \in Nat : <<n, m>> \in R <=> n < m
  BY DEF OpToRel
<1> HIDE DEF R
<1>3. PICK m \in T : \A n \in T : ~ (<<n, m>> \in R)
  BY <1>1, WFMin
<1>4. ASSUME NEW n \in T
      PROVE  m <= n
  <2>1. m \in Nat /\ n \in Nat
    OBVIOUS
  <2>2. ~ (n < m)
    BY <1>2, <1>3, <2>1
  <2> QED BY <2>1, <2>2
<1> QED BY <1>3, <1>4

(* Fixed priorities are below the configurable ones, which are bytes.       *)
LEMMA PriorityRange ==
  ASSUME TypeOK, NEW e \in Exceptions
  PROVE  /\ PriorityOf(e) \in -2 .. 255
         /\ e \in Configurable => PriorityOf(e) \in 0 .. 255
         /\ e \notin Configurable => PriorityOf(e) < 0
<1>1. CASE e \in Configurable
  <2>1. e # NMI /\ e # HardFault
    BY <1>1, ExceptionNumbers
  <2>2. prio[e] \in 0 .. 255
    BY <1>1 DEF TypeOK
  <2> QED BY <1>1, <2>1, <2>2 DEF PriorityOf
<1>2. CASE e \in {NMI, HardFault}
  BY <1>2, ExceptionNumbers DEF PriorityOf, NMI, HardFault
<1> QED BY <1>1, <1>2, ExceptionNumbers

(* highestPending() finds one whenever there is one: priority and number    *)
(* order any exceptions, and the order has a first one.                     *)
LEMMA HighestExists ==
  ASSUME TypeOK, Deliverable # {}
  PROVE  \E e \in Deliverable : HighestPending(e)
<1> DEFINE Key(e) == (PriorityOf(e) + 2) * 256 + e
           T == {Key(e) : e \in Deliverable}
<1>1. ASSUME NEW e \in Deliverable
      PROVE  PriorityOf(e) \in -2 .. 255 /\ e \in 2 .. 255
  BY EntersAreExceptions, ExceptionNumbers, PriorityRange
<1>2. \A e \in Deliverable : Key(e) \in Nat
  <2>1. \A p \in -2 .. 255, e \in 2 .. 255 : (p + 2) * 256 + e \in Nat
    OBVIOUS
  <2> QED BY <1>1, <2>1
<1>3. PICK m \in T : \A n \in T : m <= n
  <2>1. T \subseteq Nat /\ T # {}
    BY <1>2
  <2> HIDE DEF T
  <2> QED BY <2>1, LeastElement
<1>4. PICK e \in Deliverable : m = Key(e)
  BY <1>3
<1>5. ASSUME NEW f \in Deliverable
      PROVE  Before(e, f)
  <2>1. Key(e) <= Key(f)
    BY <1>3, <1>4
  <2>2. PriorityOf(e) \in Int /\ PriorityOf(f) \in Int /\ e \in 2 .. 255 /\ f \in 2 .. 255
    BY <1>1
  <2> QED BY <2>1, <2>2 DEF Before
<1> QED BY <1>5 DEF HighestPending

(* Grouping keeps the order of priorities.                                  *)
LEMMA GroupMonotone ==
  ASSUME prigroup \in 0 .. 7, NEW p \in -2 .. 255, NEW q \in -2 .. 255, p <= q
  PROVE  GroupPriority(p) <= GroupPriority(q)
<1> DEFINE m == GroupSize[prigroup + 1]
<1>1. m \in {2, 4, 8, 16, 32, 64, 128, 256}
  BY DEF GroupSize
<1>2. \A r : GroupPriority(r) = IF r < 0 THEN r ELSE r - (r % m)
  BY DEF GroupPriority
<1> HIDE DEF m
<1>3. CASE p < 0
  <2>1. q >= 0 => q - (q % m) >= 0
    BY <1>1
  <2> QED BY <1>2, <1>3, <2>1, <1>1
<1>4. CASE p >= 0
  <2>1. p - (p % m) <= q - (q % m)
    BY <1>1, <1>4
  <2> QED BY <1>2, <1>4, <2>1
<1> QED BY <1>3, <1>4

(* What the running code runs at comes from the current exception or from   *)
(* one of the masks.                                                        *)
LEMMA ExecutionPriorityReason ==
  ASSUME TypeOK, NEW u \in Int, u >= ExecutionPriority
  PROVE  \/ u >= Urgency(current)
         \/ primask /\ u >= 0
         \/ faultmask /\ u >= -1
         \/ basepri # 0 /\ u >= GroupPriority(basepri)
<1>1. Urgency(current) \in Int
  BY UrgencyInt DEF TypeOK
<1>2. GroupPriority(basepri) \in 0 .. 255
  BY GroupOfByte DEF TypeOK
<1> DEFINE base == IF basepri # 0 THEN Lower(Urgency(current), GroupPriority(basepri))
                                  ELSE Urgency(current)
           prim == IF primask THEN Lower(base, 0) ELSE base
<1>3. base = Urgency(current) \/ (basepri # 0 /\ base = GroupPriority(basepri))
  BY DEF Lower
<1>4. prim = base \/ (primask /\ prim = 0)
  BY DEF Lower
<1>5. ExecutionPriority = prim \/ (faultmask /\ ExecutionPriority = -1)
  BY DEF ExecutionPriority, Lower
<1> HIDE DEF base, prim
<1> QED BY <1>1, <1>2, <1>3, <1>4, <1>5

(* Whenever firmware may execute, no deliverable exception is more urgent   *)
(* than all active handlers and than every mask in force: the polled flag,  *)
(* highestPending() and executionPriority() together never hold one back.   *)
THEOREM Preemption == Spec => []NoPriorityInversion
<1>1. IInv => NoPriorityInversion
  <2> SUFFICES ASSUME IInv, Executes, NEW e \in Deliverable
               PROVE  \/ \E a \in ActiveNow : Urgency(a) <= Urgency(e)
                      \/ primask /\ Urgency(e) >= 0
                      \/ faultmask /\ Urgency(e) >= -1
                      \/ basepri # 0 /\ Urgency(e) >= GroupPriority(basepri)
    BY DEF NoPriorityInversion
  <2> USE DEF IInv
  <2>1. pendingFlag
    BY DEF PendingFlagExact, AnyPending, Deliverable
  <2>2. ~ WouldPreempt
    BY <2>1 DEF Executes, MustStop
  <2>3. PICK h \in Deliverable : HighestPending(h)
    BY HighestExists
  <2>4. h \in Exceptions /\ e \in Exceptions
    BY EntersAreExceptions
  <2>5. /\ PriorityOf(h) \in -2 .. 255 /\ PriorityOf(e) \in -2 .. 255
        /\ PriorityOf(h) <= PriorityOf(e)
    <3>1. PriorityOf(h) \in -2 .. 255 /\ PriorityOf(e) \in -2 .. 255
      BY <2>4, PriorityRange
    <3>2. Before(h, e)
      BY <2>3 DEF HighestPending
    <3>3. PriorityOf(h) < PriorityOf(e) \/ PriorityOf(h) = PriorityOf(e)
      BY <3>2 DEF Before
    <3>4. \A p, q \in -2 .. 255 : p < q \/ p = q => p <= q
      OBVIOUS
    <3> QED BY <3>1, <3>3, <3>4
  <2>6. GroupPriority(PriorityOf(h)) <= GroupPriority(PriorityOf(e))
    BY <2>5, GroupMonotone DEF TypeOK
  <2>7. /\ Urgency(h) = GroupPriority(PriorityOf(h)) /\ Urgency(e) = GroupPriority(PriorityOf(e))
        /\ Urgency(h) \in Int /\ Urgency(e) \in Int
    BY <2>4, ExceptionNumbers, UrgencyInt DEF Urgency
  <2>8. ~ (Urgency(h) < ExecutionPriority)
    BY <2>2, <2>3, <2>7 DEF WouldPreempt, Preempts
  <2>9. Urgency(e) >= ExecutionPriority
    BY <2>6, <2>7, <2>8, ExecutionPriorityBound
  <2>10. CASE Urgency(e) >= Urgency(current)
    <3>1. Urgency(e) < 256
      BY <2>4, UrgencyRange, ExceptionNumbers
    <3>2. current # 0 /\ current \in Exceptions
      <4>1. Urgency(0) = 256
        BY UrgencyRange
      <4>2. current # 0
        BY <2>7, <2>10, <3>1, <4>1
      <4> QED BY <4>2 DEF TypeOK
    <3>3. current \in ActiveNow /\ Urgency(current) <= Urgency(e)
      BY <2>7, <2>10, <3>2, UrgencyInt DEF ActiveNow, IpsrAgrees
    <3> QED BY <3>3
  <2> QED BY <2>7, <2>9, <2>10, ExecutionPriorityReason
<1> QED BY <1>1, Invariance, PTL
=============================================================================
