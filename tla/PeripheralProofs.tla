-------------------------- MODULE PeripheralProofs --------------------------
(***************************************************************************)
(* Proofs about the peripherals that keep state of their own: Timers,       *)
(* GpioExti and Usart, one after the other.  Nothing of one is used for     *)
(* another but two facts on numbers and sets at the beginning.              *)
(***************************************************************************)
EXTENDS Timers, GpioExti, Usart, SequenceTheorems, WellFoundedInduction, TLAPS

LEMMA LeastElement ==
  ASSUME NEW T, T \subseteq Nat, T # {}
  PROVE  \E m \in T : \A n \in T : m <= n
<1> DEFINE R == OpToRel(<, Nat)
<1>1. IsWellFoundedOn(R, Nat)
  BY NatLessThanWellFounded
<1>2. \A m, n \in Nat : <<n, m>> \in R <=> n < m
  BY DEF OpToRel
<1> HIDE DEF R
<1>3. PICK m \in T : \A n \in T : ~ (<<n, m>> \in R)
  BY <1>1, WFMin
<1>4. ASSUME NEW n \in T
      PROVE  m <= n
  <2>1. m \in Nat /\ n \in Nat
    OBVIOUS
  <2>2. ~ (n < m)
    BY <1>2, <1>3, <2>1
  <2> QED BY <2>1, <2>2
<1> QED BY <1>4

LEMMA SetInduction ==
  ASSUME NEW S, S \subseteq Nat, 0 \in S, \A k \in S : k + 1 \in S
  PROVE  S = Nat
<1> SUFFICES ASSUME Nat \ S # {} PROVE FALSE
  OBVIOUS
<1>1. PICK m \in Nat \ S : \A n \in Nat \ S : m <= n
  <2> DEFINE T == Nat \ S
  <2>1. T \subseteq Nat /\ T # {} OBVIOUS
  <2> HIDE DEF T
  <2>2. \E m \in T : \A n \in T : m <= n BY <2>1, LeastElement
  <2> QED BY <2>2 DEF T
<1>2. m # 0 /\ m - 1 \in Nat /\ m - 1 \in S
  BY <1>1
<1>3. (m - 1) + 1 = m
  BY <1>1
<1> QED BY <1>1, <1>2, <1>3

-----------------------------------------------------------------------------
(* Division. *)

LEMMA Quotient ==
  ASSUME NEW a \in Int, NEW d \in Nat \ {0}
  PROVE  /\ a \div d \in Int /\ a % d \in 0 .. d - 1
         /\ a = d * (a \div d) + (a % d)
         /\ a >= 0 => a \div d \in Nat
<1>1. a \div d \in Int /\ a % d \in 0 .. d - 1 OBVIOUS
<1>2. a = d * (a \div d) + (a % d) OBVIOUS
<1>3. a >= 0 => a \div d >= 0
  <2> DEFINE p == a \div d
  <2>1. p \in Int /\ a < d * p + d BY <1>1, <1>2
  <2> HIDE DEF p
  <2>2. p <= -1 => d * p <= 0 - d BY <2>1
  <2>3. d * p \in Int BY <2>1
  <2>4. a >= 0 => p >= 0 BY <2>1, <2>2, <2>3
  <2> QED BY <2>4 DEF p
<1> QED BY <1>1, <1>2, <1>3

LEMMA QuotientUnique ==
  ASSUME NEW d \in Nat \ {0}, NEW q \in Int, NEW r \in 0 .. d - 1
  PROVE  (d * q + r) \div d = q /\ (d * q + r) % d = r
<1> DEFINE a == d * q + r
           p == a \div d
           s == a % d
<1>1. a \in Int /\ d * q \in Int OBVIOUS
<1>2. p \in Int /\ s \in 0 .. d - 1 /\ a = d * p + s
  BY <1>1, Quotient
<1>3. d * (p - q) = r - s
  BY <1>2
<1>4. p - q = 0
  <2> DEFINE e == p - q
  <2>1. e \in Int /\ d * e = r - s BY <1>2, <1>3
  <2>2. r - s < d /\ r - s > 0 - d BY <1>2
  <2> HIDE DEF e
  <2>3. e >= 1 => d * e >= d BY <2>1
  <2>4. e <= -1 => d * e <= 0 - d BY <2>1
  <2>5. e = 0 BY <2>1, <2>2, <2>3, <2>4
  <2> QED BY <2>5 DEF e
<1> QED BY <1>2, <1>4

LEMMA QuotientAtLeast ==
  ASSUME NEW a \in Int, NEW d \in Nat \ {0}, NEW q \in Int
  PROVE  a \div d >= q <=> a >= d * q
<1> DEFINE p == a \div d
           s == a % d
<1>1. p \in Int /\ s \in 0 .. d - 1 /\ a = d * p + s BY Quotient
<1> HIDE DEF p, s
<1>2. p >= q => d * p >= d * q BY <1>1
<1>3. p <= q - 1 => d * p <= d * (q - 1) BY <1>1
<1>4. d * (q - 1) = d * q - d OBVIOUS
<1>5. d * p \in Int /\ d * q \in Int BY <1>1
<1>6. p >= q <=> a >= d * q BY <1>1, <1>2, <1>3, <1>4, <1>5
<1> QED BY <1>6 DEF p

LEMMA CeilDivLeast ==
  ASSUME NEW a \in Int, NEW b \in Nat \ {0}, NEW n \in Int
  PROVE  CeilDiv(a, b) \in Int /\ (n >= CeilDiv(a, b) <=> n * b >= a)
<1> DEFINE c == (a + b - 1) \div b
<1>1. a + b - 1 \in Int /\ c \in Int OBVIOUS
<1>2. c >= n + 1 <=> a + b - 1 >= b * (n + 1)
  BY QuotientAtLeast
<1>3. b * (n + 1) = n * b + b OBVIOUS
<1>4. c = CeilDiv(a, b) BY DEF CeilDiv
<1> HIDE DEF c
<1>5. n * b \in Int OBVIOUS
<1> QED BY <1>1, <1>2, <1>3, <1>4, <1>5

\* Ticking once more moves the remainder on by one, or around.
LEMMA NextRemainder ==
  ASSUME NEW a \in Nat, NEW d \in Nat \ {0}
  PROVE  (a + 1) % d = IF a % d = d - 1 THEN 0 ELSE (a % d) + 1
<1> DEFINE p == a \div d
           s == a % d
<1>1. p \in Int /\ s \in 0 .. d - 1 /\ a = d * p + s BY Quotient
<1> HIDE DEF p, s
<1>2. CASE s = d - 1
  <2>1. a + 1 = d * (p + 1) + 0 BY <1>1, <1>2
  <2>2. (d * (p + 1) + 0) % d = 0 BY <1>1, QuotientUnique
  <2>3. (a + 1) % d = 0 BY <2>1, <2>2
  <2> QED BY <1>2, <2>3 DEF s
<1>3. CASE s # d - 1
  <2>1. a + 1 = d * p + (s + 1) /\ s + 1 \in 0 .. d - 1 BY <1>1, <1>3
  <2>2. (d * p + (s + 1)) % d = s + 1 BY <1>1, <2>1, QuotientUnique
  <2>3. (a + 1) % d = s + 1 BY <2>1, <2>2
  <2> QED BY <1>3, <2>3 DEF s
<1> QED BY <1>2, <1>3

\* Time in two parts: the ticks add up, and so do the fractions.
LEMMA QuotientSplit ==
  ASSUME NEW a \in Nat, NEW b \in Nat, NEW d \in Nat \ {0}
  PROVE  /\ (a \div d) + (((a % d) + b) \div d) = (a + b) \div d
         /\ ((a % d) + b) % d = (a + b) % d
<1> DEFINE p == a \div d
           s == a % d
           q == (s + b) \div d
           r == (s + b) % d
<1>1. p \in Int /\ s \in 0 .. d - 1 /\ a = d * p + s BY Quotient
<1> HIDE DEF p, s
<1>2. q \in Int /\ r \in 0 .. d - 1 /\ s + b = d * q + r
  <2>1. s + b \in Int BY <1>1
  <2> QED BY <2>1, Quotient
<1> HIDE DEF q, r
<1>3. d * (p + q) = d * p + d * q BY <1>1, <1>2
<1>4. a + b = d * (p + q) + r
  <2>1. d * p \in Int /\ d * q \in Int BY <1>1, <1>2
  <2> QED BY <1>1, <1>2, <1>3, <2>1
<1>5. (d * (p + q) + r) \div d = p + q /\ (d * (p + q) + r) % d = r
  BY <1>1, <1>2, QuotientUnique
<1>6. (a + b) \div d = p + q /\ (a + b) % d = r
  BY <1>4, <1>5
<1> QED BY <1>6 DEF p, q, r, s

-----------------------------------------------------------------------------
(* SysTick. *)

SysTickType ==
  [on : BOOLEAN, irq : BOOLEAN, core : BOOLEAN, flag : BOOLEAN, pend : BOOLEAN,
   load : Nat, val : Nat, frac : Nat]

\* Ticks until the first event.
First(s) == IF s.val # 0 THEN s.val ELSE s.load + 1

MovedSt(s, v) == [s EXCEPT !.val = v]
FiredSt(s, v) == [s EXCEPT !.val = v, !.flag = TRUE, !.pend = s.irq \/ s.pend]

\* The state after k ticks, in closed form.
After(s, k) ==
  IF k = 0 THEN s
  ELSE IF k < First(s) THEN MovedSt(s, First(s) - k)
  ELSE FiredSt(s, s.load - ((k - First(s)) % s.load))

\* One tick of a counter that has already moved.
LEMMA MovedStep ==
  ASSUME NEW s \in SysTickType, s.load # 0, NEW v \in Nat \ {0}
  PROVE  StStep(MovedSt(s, v)) = IF v = 1 THEN FiredSt(s, s.load) ELSE MovedSt(s, v - 1)
<1> DEFINE t == MovedSt(s, v)
           w == v - 1
<1>1. t \in SysTickType /\ t.val = v /\ t.load = s.load /\ t.irq = s.irq /\ t.pend = s.pend
  BY DEF MovedSt, SysTickType
<1>2. StStep(t) = IF w = 0 THEN [t EXCEPT !.val = t.load, !.flag = TRUE, !.pend = t.irq \/ t.pend]
                           ELSE [t EXCEPT !.val = w]
  BY <1>1 DEF StStep
<1>3. CASE v = 1
  <2> DEFINE p == s.irq \/ s.pend
  <2>1. StStep(t) = [t EXCEPT !.val = s.load, !.flag = TRUE, !.pend = p]
    BY <1>1, <1>2, <1>3
  <2> HIDE DEF p
  <2>2. [t EXCEPT !.val = s.load, !.flag = TRUE, !.pend = p] = [s EXCEPT !.val = s.load, !.flag = TRUE, !.pend = p]
    BY DEF MovedSt, SysTickType
  <2> QED BY <1>3, <2>1, <2>2 DEF FiredSt, p
<1>4. CASE v # 1
  <2>1. StStep(t) = [t EXCEPT !.val = w]
    BY <1>2, <1>4
  <2> HIDE DEF w
  <2>2. [t EXCEPT !.val = w] = [s EXCEPT !.val = w]
    BY DEF MovedSt, SysTickType
  <2> QED BY <1>4, <2>1, <2>2 DEF MovedSt, w
<1> QED BY <1>3, <1>4

LEMMA FiredStep ==
  ASSUME NEW s \in SysTickType, s.load # 0, NEW v \in Nat \ {0}
  PROVE  StStep(FiredSt(s, v)) = IF v = 1 THEN FiredSt(s, s.load) ELSE FiredSt(s, v - 1)
<1> DEFINE p == s.irq \/ s.pend
           t == [s EXCEPT !.val = v, !.flag = TRUE, !.pend = p]
           w == v - 1
<1>1. p \in BOOLEAN /\ (s.irq \/ p) = p
  BY DEF SysTickType
<1>2. FiredSt(s, v) = t
  BY DEF FiredSt
<1> HIDE DEF p
<1>3. t \in SysTickType /\ t.val = v /\ t.load = s.load /\ t.irq = s.irq /\ t.pend = p
  BY <1>1 DEF SysTickType
<1>4. StStep(t) = IF w = 0 THEN [t EXCEPT !.val = t.load, !.flag = TRUE, !.pend = t.irq \/ t.pend]
                           ELSE [t EXCEPT !.val = w]
  BY <1>3 DEF StStep
<1>5. CASE v = 1
  <2>1. StStep(t) = [t EXCEPT !.val = s.load, !.flag = TRUE, !.pend = p]
    <3>1. (t.irq \/ t.pend) = p
      BY <1>1, <1>3, Zenon
    <3>2. w = 0 BY <1>5
    <3> HIDE DEF t, w
    <3>3. StStep(t) = [t EXCEPT !.val = t.load, !.flag = TRUE, !.pend = t.irq \/ t.pend]
      BY <1>4, <3>2, Zenon
    <3> QED BY <1>3, <3>1, <3>3, Zenon
  <2>2. [t EXCEPT !.val = s.load, !.flag = TRUE, !.pend = p] = [s EXCEPT !.val = s.load, !.flag = TRUE, !.pend = p]
    BY DEF SysTickType
  <2> QED BY <1>2, <1>5, <2>1, <2>2 DEF FiredSt, p
<1>6. CASE v # 1
  <2>1. StStep(t) = [t EXCEPT !.val = w]
    BY <1>4, <1>6
  <2> HIDE DEF w
  <2>2. [t EXCEPT !.val = w] = [s EXCEPT !.val = w, !.flag = TRUE, !.pend = p]
    BY DEF SysTickType
  <2> QED BY <1>2, <1>6, <2>1, <2>2 DEF FiredSt, w, p
<1> QED BY <1>5, <1>6

\* One tick more.
LEMMA AfterNext ==
  ASSUME NEW s \in SysTickType, s.load # 0, NEW k \in Nat
  PROVE  After(s, k + 1) = StStep(After(s, k))
<1>1. First(s) \in Nat \ {0} /\ s.load \in Nat \ {0} /\ s.val \in Nat
  BY DEF First, SysTickType
<1>2. k + 1 # 0 /\ k + 1 \in Nat
  OBVIOUS
<1>3. CASE k = 0
  <2>1. After(s, k) = s
    BY <1>3 DEF After
  <2>2. CASE s.val = 0
    <3>1. First(s) = s.load + 1 /\ 1 < First(s) /\ First(s) - 1 = s.load
      BY <1>1, <2>2 DEF First
    <3>2. After(s, k + 1) = MovedSt(s, s.load)
      BY <1>3, <3>1 DEF After
    <3>3. StStep(s) = MovedSt(s, s.load)
      BY <1>1, <2>2 DEF StStep, MovedSt
    <3> QED BY <2>1, <3>2, <3>3
  <2>3. CASE s.val # 0
    <3>1. First(s) = s.val /\ s = MovedSt(s, s.val)
      BY <2>3 DEF First, MovedSt, SysTickType
    <3>2. StStep(s) = IF s.val = 1 THEN FiredSt(s, s.load) ELSE MovedSt(s, s.val - 1)
      BY <1>1, <2>3, <3>1, MovedStep
    <3>3. CASE s.val = 1
      <4>1. (k + 1) - First(s) = 0 /\ 0 % s.load = 0 /\ s.load - 0 = s.load
        BY <1>1, <1>3, <3>1, <3>3
      <4>2. After(s, k + 1) = FiredSt(s, s.load - (((k + 1) - First(s)) % s.load))
        BY <1>2, <1>3, <3>1, <3>3 DEF After
      <4> QED BY <2>1, <3>2, <3>3, <4>1, <4>2
    <3>4. CASE s.val # 1
      <4>1. After(s, k + 1) = MovedSt(s, s.val - 1)
        BY <1>1, <1>3, <3>1, <3>4 DEF After
      <4> QED BY <2>1, <3>2, <3>4, <4>1
    <3> QED BY <3>3, <3>4
  <2> QED BY <2>2, <2>3
<1>4. CASE k # 0 /\ k < First(s)
  <2> DEFINE v == First(s) - k
  <2>1. v \in Nat \ {0} /\ v - 1 = First(s) - (k + 1)
    BY <1>1, <1>4
  <2>2. After(s, k) = MovedSt(s, v)
    BY <1>4 DEF After
  <2>3. CASE v = 1
    <3>1. (k + 1) - First(s) = 0 /\ 0 % s.load = 0 /\ s.load - 0 = s.load /\ ~ (k + 1 < First(s))
      BY <1>1, <2>3
    <3>2. After(s, k + 1) = FiredSt(s, s.load - (((k + 1) - First(s)) % s.load))
      BY <1>2, <3>1 DEF After
    <3> QED BY <2>1, <2>2, <2>3, <3>1, <3>2, MovedStep
  <2>4. CASE v # 1
    <3>1. k + 1 < First(s)
      BY <1>1, <1>4, <2>4
    <3>2. After(s, k + 1) = MovedSt(s, v - 1)
      BY <1>2, <2>1, <3>1 DEF After
    <3> HIDE DEF v
    <3> QED BY <2>1, <2>2, <2>4, <3>2, MovedStep
  <2> QED BY <2>3, <2>4
<1>5. CASE k # 0 /\ k >= First(s)
  <2> DEFINE z == k - First(s)
             m == z % s.load
  <2>1. z \in Nat /\ (k + 1) - First(s) = z + 1 /\ ~ (k + 1 < First(s)) /\ ~ (k < First(s))
    BY <1>1, <1>5
  <2>2. After(s, k) = FiredSt(s, s.load - m)
    BY <1>5, <2>1 DEF After
  <2>3. After(s, k + 1) = FiredSt(s, s.load - ((z + 1) % s.load))
    <3>1. After(s, k + 1) = FiredSt(s, s.load - (((k + 1) - First(s)) % s.load))
      BY <1>2, <2>1 DEF After
    <3> HIDE DEF z
    <3> QED BY <2>1, <3>1
  <2> HIDE DEF z
  <2>4. /\ m \in 0 .. s.load - 1
        /\ (z + 1) % s.load = IF m = s.load - 1 THEN 0 ELSE m + 1
    <3>1. z \in Int
      BY <2>1
    <3>2. m \in 0 .. s.load - 1
      BY <1>1, <3>1, Quotient
    <3>3. (z + 1) % s.load = IF m = s.load - 1 THEN 0 ELSE m + 1
      BY <1>1, <2>1, NextRemainder
    <3> QED BY <3>2, <3>3
  <2> HIDE DEF m
  <2> DEFINE v == s.load - m
             w == s.load - ((z + 1) % s.load)
  <2>5. v \in Nat \ {0} /\ w = IF v = 1 THEN s.load ELSE v - 1
    BY <1>1, <2>4
  <2>6. After(s, k) = FiredSt(s, v) /\ After(s, k + 1) = FiredSt(s, w)
    BY <2>2, <2>3
  <2> HIDE DEF v, w
  <2> QED BY <2>5, <2>6, FiredStep
<1> QED BY <1>1, <1>3, <1>4, <1>5

\* The loop of StSteps reaches the closed form: the recursive function exists,
\* because the closed form satisfies its equation, and there is no other.
LEMMA StStepsAfter ==
  ASSUME NEW s \in SysTickType, s.load # 0, NEW k \in Nat
  PROVE  StSteps(s, k) = After(s, k)
<1> DEFINE Def(f) == [j \in Nat |-> IF j = 0 THEN s ELSE StStep(f[j - 1])]
           closed == [j \in Nat |-> After(s, j)]
           done == CHOOSE f : f = Def(f)
<1>1. closed = Def(closed)
  <2>1. ASSUME NEW j \in Nat
        PROVE  closed[j] = IF j = 0 THEN s ELSE StStep(closed[j - 1])
    <3>1. CASE j = 0 BY <3>1 DEF After
    <3>2. CASE j # 0
      <4>1. j - 1 \in Nat /\ (j - 1) + 1 = j BY <3>2
      <4>2. After(s, j) = StStep(After(s, j - 1)) BY <4>1, AfterNext
      <4> QED BY <3>2, <4>1, <4>2
    <3> QED BY <3>1, <3>2
  <2> QED BY <2>1
<1>2. done = Def(done)
  BY <1>1
<1>3. StSteps(s, k) = done[k]
  BY DEF StSteps
<1> HIDE DEF done
<1>4. done[0] = s /\ \A j \in Nat : done[j + 1] = StStep(done[j])
  <2>1. \A j \in Nat : done[j] = IF j = 0 THEN s ELSE StStep(done[j - 1])
    BY <1>2
  <2>2. ASSUME NEW j \in Nat PROVE done[j + 1] = StStep(done[j])
    <3>1. j + 1 \in Nat /\ j + 1 # 0 /\ (j + 1) - 1 = j OBVIOUS
    <3> QED BY <2>1, <3>1
  <2> QED BY <2>1, <2>2
<1> DEFINE Same == {j \in Nat : done[j] = After(s, j)}
<1>5. 0 \in Same BY <1>4 DEF After
<1>6. \A j \in Same : j + 1 \in Same
  BY <1>4, AfterNext
<1>7. Same = Nat
  <2>1. Same \subseteq Nat OBVIOUS
  <2> HIDE DEF Same
  <2> QED BY <1>5, <1>6, <2>1, SetInduction
<1> QED BY <1>3, <1>7

LEMMA AfterType ==
  ASSUME NEW s \in SysTickType, s.load # 0, NEW k \in Nat
  PROVE  LET a == After(s, k) IN
         /\ a \in SysTickType
         /\ a.on = s.on /\ a.irq = s.irq /\ a.core = s.core /\ a.load = s.load /\ a.frac = s.frac
         /\ a.val <= s.val \/ a.val <= s.load
<1>1. First(s) \in Nat \ {0} /\ s.load \in Nat \ {0} /\ s.val \in Nat
  BY DEF First, SysTickType
<1> DEFINE Kept(a) == /\ a \in SysTickType
                      /\ a.on = s.on /\ a.irq = s.irq /\ a.core = s.core /\ a.load = s.load /\ a.frac = s.frac
                      /\ a.val <= s.val \/ a.val <= s.load
<1>2. ASSUME NEW v \in Nat, v <= s.val \/ v <= s.load
      PROVE  Kept(MovedSt(s, v)) /\ Kept(FiredSt(s, v))
  <2>1. Kept(MovedSt(s, v))
    BY <1>2 DEF MovedSt, SysTickType
  <2> DEFINE p == s.irq \/ s.pend
             f == [s EXCEPT !.val = v, !.flag = TRUE, !.pend = p]
  <2>2. p \in BOOLEAN OBVIOUS
  <2> HIDE DEF p
  <2>3. Kept(f)
    BY <1>2, <2>2 DEF SysTickType
  <2>4. FiredSt(s, v) = f
    BY DEF FiredSt, p
  <2> HIDE DEF f, Kept
  <2> QED BY <2>1, <2>3, <2>4
<1>3. CASE k = 0
  BY <1>1, <1>3 DEF After
<1>4. CASE k # 0 /\ k < First(s)
  <2>1. First(s) - k \in Nat /\ (First(s) - k <= s.val \/ First(s) - k <= s.load)
    BY <1>1, <1>4 DEF First
  <2> QED BY <1>2, <1>4, <2>1 DEF After
<1>5. CASE k # 0 /\ k >= First(s)
  <2> DEFINE m == (k - First(s)) % s.load
  <2>1. m \in 0 .. s.load - 1
    <3>1. k - First(s) \in Int BY <1>1
    <3> QED BY <1>1, <3>1, Quotient
  <2>2. After(s, k) = FiredSt(s, s.load - m)
    BY <1>1, <1>5 DEF After
  <2> HIDE DEF m
  <2>3. s.load - m \in Nat /\ s.load - m <= s.load
    BY <1>1, <2>1
  <2> QED BY <1>2, <2>2, <2>3
<1> QED BY <1>1, <1>3, <1>4, <1>5

\* Ticks add up.
LEMMA AfterSum ==
  ASSUME NEW s \in SysTickType, s.load # 0, NEW j \in Nat, NEW k \in Nat
  PROVE  After(After(s, j), k) = After(s, j + k)
<1> DEFINE a == After(s, j)
           Same == {i \in Nat : After(a, i) = After(s, j + i)}
<1>1. a \in SysTickType /\ a.load # 0
  BY AfterType
<1>2. 0 \in Same
  BY DEF After
<1>3. ASSUME NEW i \in Same PROVE i + 1 \in Same
  <2>1. After(a, i + 1) = StStep(After(a, i))
    BY <1>1, AfterNext
  <2>2. j + i \in Nat /\ j + (i + 1) = (j + i) + 1
    OBVIOUS
  <2>3. After(s, (j + i) + 1) = StStep(After(s, j + i))
    BY <2>2, AfterNext
  <2> QED BY <2>1, <2>2, <2>3
<1>4. Same = Nat
  <2>1. Same \subseteq Nat OBVIOUS
  <2> HIDE DEF Same
  <2> QED BY <1>2, <1>3, <2>1, SetInduction
<1> QED BY <1>4

\* The fraction has no part in what a tick does.
LEMMA AfterFraction ==
  ASSUME NEW s \in SysTickType, NEW k \in Nat, NEW x \in Nat
  PROVE  After([s EXCEPT !.frac = x], k) = [After(s, k) EXCEPT !.frac = x]
<1> DEFINE t == [s EXCEPT !.frac = x]
<1>1. t.val = s.val /\ t.load = s.load /\ t.irq = s.irq /\ t.pend = s.pend /\ First(t) = First(s)
  BY DEF SysTickType, First
<1>2. \A v : MovedSt(t, v) = [MovedSt(s, v) EXCEPT !.frac = x]
  BY DEF MovedSt, SysTickType
<1>3. \A v : FiredSt(t, v) = [FiredSt(s, v) EXCEPT !.frac = x]
  <2> DEFINE p == s.irq \/ s.pend
  <2>1. \A v : FiredSt(t, v) = [t EXCEPT !.val = v, !.flag = TRUE, !.pend = p]
    <3>1. (t.irq \/ t.pend) = p BY <1>1
    <3> HIDE DEF t, p
    <3> QED BY <3>1, Zenon DEF FiredSt
  <2>2. \A v : FiredSt(s, v) = [s EXCEPT !.val = v, !.flag = TRUE, !.pend = p]
    BY DEF FiredSt
  <2> HIDE DEF p
  <2>3. ASSUME NEW v
        PROVE  FiredSt(t, v) = [FiredSt(s, v) EXCEPT !.frac = x]
    <3> DEFINE g == [s EXCEPT !.val = v, !.flag = TRUE, !.pend = p]
               h == [t EXCEPT !.val = v, !.flag = TRUE, !.pend = p]
    <3>1. FiredSt(s, v) = g /\ FiredSt(t, v) = h
      BY <2>1, <2>2
    <3>2. h = [g EXCEPT !.frac = x]
      BY DEF SysTickType
    <3> HIDE DEF g, h, t
    <3> QED BY <3>1, <3>2
  <2> QED BY <2>3
<1> HIDE DEF t
<1> QED BY <1>1, <1>2, <1>3 DEF After, t

-----------------------------------------------------------------------------
(* Ticks of SysTick. *)

LEMMA Rates ==
  ASSUME clk \in Clocks
  PROVE  /\ Hclk \in Nat \ {0} /\ Timclk \in Nat \ {0}
         /\ \A s : StHz(s) \in Nat \ {0}
<1>1. Hclk \in Nat \ {0} /\ Timclk \in Nat \ {0}
  BY TimersAssumption DEF Hclk, Timclk
<1>2. Hclk \div 8 \in Int
  BY <1>1
<1> QED BY <1>1, <1>2 DEF StHz, AtLeast

StTotal(s, n) == s.frac + n * StHz(s)

LEMMA TotalIsNat ==
  ASSUME clk \in Clocks, NEW s \in SysTickType, NEW n \in Nat
  PROVE  /\ StTotal(s, n) \in Nat /\ n * StHz(s) \in Nat
         /\ StTotal(s, n) \div Hclk \in Nat /\ StTotal(s, n) % Hclk \in 0 .. Hclk - 1
<1>1. n * StHz(s) \in Nat
  <2>1. StHz(s) \in Nat BY Rates
  <2> HIDE DEF StHz
  <2> QED BY <2>1
<1>2. StTotal(s, n) \in Nat
  BY <1>1 DEF StTotal, SysTickType
<1>3. StTotal(s, n) \in Int /\ StTotal(s, n) >= 0 /\ Hclk \in Nat \ {0}
  BY <1>2, Rates
<1>4. StTotal(s, n) % Hclk \in 0 .. Hclk - 1
  BY <1>3, Quotient
<1>5. StTotal(s, n) \div Hclk \in Nat
  BY <1>3, Quotient
<1> QED BY <1>1, <1>2, <1>4, <1>5

LEMMA StTickAfter ==
  ASSUME clk \in Clocks, NEW s \in SysTickType, NEW n \in Nat, s.on, s.load # 0
  PROVE  StTick(s, n) = [After(s, StTotal(s, n) \div Hclk) EXCEPT !.frac = StTotal(s, n) % Hclk]
BY TotalIsNat, StStepsAfter DEF StTick, StTotal

LEMMA StTickType ==
  ASSUME clk \in Clocks, NEW s \in SysTickType, NEW n \in Nat
  PROVE  LET t == StTick(s, n) IN
         /\ t \in SysTickType
         /\ t.on = s.on /\ t.irq = s.irq /\ t.core = s.core /\ t.load = s.load
         /\ t.val <= s.val \/ t.val <= s.load
         /\ t.frac = s.frac \/ t.frac < Hclk
<1>1. CASE ~ s.on \/ s.load = 0
  <2>1. StTick(s, n) = s
    BY <1>1 DEF StTick
  <2> QED BY <2>1 DEF SysTickType
<1>2. CASE s.on /\ s.load # 0
  <2> DEFINE a == After(s, StTotal(s, n) \div Hclk)
             r == StTotal(s, n) % Hclk
  <2>1. r \in Nat /\ r < Hclk
    BY TotalIsNat, Rates
  <2>2. /\ a \in SysTickType
        /\ a.on = s.on /\ a.irq = s.irq /\ a.core = s.core /\ a.load = s.load
        /\ a.val <= s.val \/ a.val <= s.load
    BY <1>2, TotalIsNat, AfterType
  <2>3. StTick(s, n) = [a EXCEPT !.frac = r]
    BY <1>2, StTickAfter
  <2> HIDE DEF a, r
  <2> QED BY <2>1, <2>2, <2>3 DEF SysTickType
<1> QED BY <1>1, <1>2

LEMMA StTickSplits ==
  ASSUME clk \in Clocks, NEW s \in SysTickType, NEW m \in Nat, NEW n \in Nat
  PROVE  StTick(StTick(s, m), n) = StTick(s, m + n)
<1>1. CASE ~ s.on \/ s.load = 0
  BY <1>1 DEF StTick
<1>2. CASE s.on /\ s.load # 0
  <2> DEFINE hz == StHz(s)
             q == StTotal(s, m) \div Hclk
             r == StTotal(s, m) % Hclk
             t == StTick(s, m)
             u == (r + n * hz) \div Hclk
             v == (r + n * hz) % Hclk
  <2>1. q \in Nat /\ r \in Nat /\ n * hz \in Nat /\ Hclk \in Nat \ {0}
    BY TotalIsNat, Rates
  <2>2. t = [After(s, q) EXCEPT !.frac = r]
    BY <1>2, StTickAfter
  <2>3. t \in SysTickType /\ t.on /\ t.load # 0 /\ t.frac = r /\ StHz(t) = hz
    <3>1. t \in SysTickType /\ t.on /\ t.load # 0 /\ t.core = s.core
      BY <1>2, StTickType
    <3>2. After(s, q) \in SysTickType
      BY <1>2, <2>1, AfterType
    <3> HIDE DEF t, q, r
    <3>3. t.frac = r
      BY <2>2, <3>2 DEF SysTickType
    <3> QED BY <3>1, <3>3 DEF StHz
  <2>4. StTotal(t, n) = r + n * hz
    BY <2>3 DEF StTotal
  <2>5. u \in Nat /\ v \in Nat
    BY <2>3, <2>4, TotalIsNat, Rates
  <2>6. StTick(t, n) = [After(t, u) EXCEPT !.frac = v]
    <3> HIDE DEF t, hz, r
    <3> QED BY <2>3, <2>4, StTickAfter
  <2>7. After(t, u) = [After(s, q + u) EXCEPT !.frac = r]
    <3>1. After(s, q) \in SysTickType
      BY <1>2, <2>1, AfterType
    <3>2. After(After(s, q), u) = After(s, q + u)
      BY <1>2, <2>1, <2>5, AfterSum
    <3> HIDE DEF t, q, r, u
    <3> QED BY <2>1, <2>2, <2>5, <3>1, <3>2, AfterFraction
  <2>8. q + u = StTotal(s, m + n) \div Hclk /\ v = StTotal(s, m + n) % Hclk
    <3>1. StTotal(s, m + n) = StTotal(s, m) + n * hz
      <4>1. hz \in Nat /\ s.frac \in Nat BY Rates DEF SysTickType
      <4> HIDE DEF hz
      <4>2. (m + n) * hz = m * hz + n * hz /\ m * hz \in Nat /\ n * hz \in Nat BY <4>1
      <4> QED BY <4>1, <4>2 DEF StTotal, hz
    <3>2. StTotal(s, m) \in Nat
      BY TotalIsNat
    <3> DEFINE a == StTotal(s, m)
               b == n * hz
    <3>3. a \in Nat /\ b \in Nat /\ Hclk \in Nat \ {0}
      BY <2>1, <3>2
    <3>4. StTotal(s, m + n) = a + b
      BY <3>1
    <3> HIDE DEF a, b
    <3>5. /\ (a \div Hclk) + (((a % Hclk) + b) \div Hclk) = (a + b) \div Hclk
          /\ ((a % Hclk) + b) % Hclk = (a + b) % Hclk
      BY <3>3, QuotientSplit
    <3> QED BY <3>4, <3>5 DEF a, b
  <2>9. After(s, q + u) \in SysTickType
    BY <1>2, <2>1, <2>5, AfterType
  <2>10. m + n \in Nat
    OBVIOUS
  <2>11. StTick(s, m + n) = [After(s, q + u) EXCEPT !.frac = v]
    BY <1>2, <2>8, <2>10, StTickAfter
  <2> HIDE DEF t, q, r, u, v
  <2>12. [[After(s, q + u) EXCEPT !.frac = r] EXCEPT !.frac = v] = [After(s, q + u) EXCEPT !.frac = v]
    BY <2>9 DEF SysTickType
  <2> QED BY <2>6, <2>7, <2>11, <2>12 DEF t
<1> QED BY <1>1, <1>2

\* SysTick pends when its clock has reached the first event.
LEMMA StPendsWhen ==
  ASSUME clk \in Clocks, NEW s \in SysTickType, NEW n \in Nat
  PROVE  StPends(s, n) <=> s.on /\ s.load # 0 /\ s.irq /\ StTotal(s, n) >= Hclk * First(s)
<1> DEFINE t == [s EXCEPT !.pend = FALSE]
           k == StTotal(t, n) \div Hclk
<1>1. /\ t \in SysTickType /\ t.on = s.on /\ t.load = s.load /\ t.irq = s.irq /\ t.val = s.val
      /\ t.frac = s.frac /\ t.core = s.core /\ t.pend = FALSE
  BY DEF SysTickType
<1> HIDE DEF t
<1>2. First(t) = First(s) /\ StTotal(t, n) = StTotal(s, n) /\ First(s) \in Nat \ {0}
  <2>1. First(s) \in Nat \ {0}
    BY DEF First, SysTickType
  <2> QED BY <1>1, <2>1 DEF First, StTotal, StHz
<1>3. StPends(s, n) <=> StTick(t, n).pend
  BY DEF StPends, t
<1>4. CASE ~ s.on \/ s.load = 0
  BY <1>1, <1>3, <1>4 DEF StTick
<1>5. CASE s.on /\ s.load # 0
  <2>1. k \in Nat /\ (k >= First(s) <=> StTotal(s, n) >= Hclk * First(s))
    <3>1. StTotal(t, n) \in Int /\ First(s) \in Int /\ Hclk \in Nat \ {0} /\ k \in Nat
      BY <1>1, <1>2, TotalIsNat, Rates
    <3> QED BY <1>2, <3>1, QuotientAtLeast
  <2>2. StTick(t, n) = [After(t, k) EXCEPT !.frac = StTotal(t, n) % Hclk]
    BY <1>1, <1>5, StTickAfter
  <2>3. After(t, k) \in SysTickType
    BY <1>1, <1>5, <2>1, AfterType
  <2> HIDE DEF k
  <2>4. StTick(t, n).pend = After(t, k).pend
    BY <2>2, <2>3 DEF SysTickType
  <2>5. After(t, k).pend <=> k >= First(s) /\ s.irq
    <3>1. CASE k = 0
      BY <1>1, <1>2, <3>1 DEF After
    <3>2. CASE k # 0 /\ k < First(s)
      <4>1. \A v : MovedSt(t, v).pend = t.pend
        BY <1>1 DEF MovedSt, SysTickType
      <4> QED BY <1>1, <1>2, <2>1, <3>2, <4>1 DEF After
    <3>3. CASE k # 0 /\ k >= First(s)
      <4>1. \A v : FiredSt(t, v).pend <=> (t.irq \/ t.pend)
        BY <1>1 DEF FiredSt, SysTickType
      <4> QED BY <1>1, <1>2, <2>1, <3>3, <4>1 DEF After
    <3> QED BY <1>2, <2>1, <3>1, <3>2, <3>3
  <2> QED BY <1>3, <1>5, <2>1, <2>4, <2>5
<1> QED BY <1>4, <1>5

-----------------------------------------------------------------------------
(* TIM. *)

TimType ==
  [cen : BOOLEAN, uie : BOOLEAN, uif : BOOLEAN, clocked : BOOLEAN, pend : BOOLEAN,
   arr : 0 .. Mask, psc : Nat, cnt : 0 .. Mask, frac : Nat]

\* The counter is at c without, or after, an update.
CountedTim(t, c) == [t EXCEPT !.cnt = c]
UpdatedTim(t, c) == [t EXCEPT !.cnt = c, !.uif = TRUE, !.pend = t.uie]

LEMMA TopFacts ==
  ASSUME NEW t \in TimType
  PROVE  /\ Top(t) \in Nat \ {0} /\ Top(t) <= Mask
         /\ StepsToUpdate(t) \in Nat \ {0}
         /\ t.cnt \in Nat
BY TimersAssumption DEF TimType, Top, StepsToUpdate

LEMMA UpdateIrq ==
  ASSUME NEW t \in TimType, NEW c \in 0 .. Mask
  PROVE  updateIrq([t EXCEPT !.cnt = c, !.uif = TRUE]) = UpdatedTim(t, c)
<1> DEFINE u == [t EXCEPT !.cnt = c, !.uif = TRUE]
<1>1. u.uif = TRUE /\ u.uie = t.uie /\ t.uie \in BOOLEAN
  BY DEF TimType
<1>2. (u.uif /\ u.uie) = t.uie
  <2> HIDE DEF u
  <2> QED BY <1>1, Zenon
<1>3. updateIrq(u) = [u EXCEPT !.pend = t.uie]
  <2> HIDE DEF u
  <2> QED BY <1>2, Zenon DEF updateIrq
<1>4. [u EXCEPT !.pend = t.uie] = UpdatedTim(t, c)
  BY DEF UpdatedTim, TimType
<1> QED BY <1>3, <1>4

LEMMA TimStepsCases ==
  ASSUME NEW t \in TimType, NEW n \in Nat
  PROVE  /\ n < StepsToUpdate(t) => /\ TimSteps(t, n) = CountedTim(t, t.cnt + n)
                                    /\ t.cnt + n \in 0 .. Mask
                                    /\ n = 0 \/ t.cnt + n <= Top(t)
         /\ n >= StepsToUpdate(t) =>
               LET c == (n - StepsToUpdate(t)) % (Top(t) + 1) IN
               TimSteps(t, n) = UpdatedTim(t, c) /\ c \in 0 .. Top(t)
<1>1. /\ Top(t) \in Nat \ {0} /\ Top(t) <= Mask /\ StepsToUpdate(t) \in Nat \ {0}
      /\ t.cnt \in 0 .. Mask /\ Mask \in Nat
  BY TopFacts, TimersAssumption DEF TimType
<1>2. CASE n < StepsToUpdate(t)
  <2>1. TimSteps(t, n) = CountedTim(t, t.cnt + n)
    BY <1>1, <1>2 DEF TimSteps, CountedTim
  <2>2. n = 0 \/ t.cnt + n <= Top(t)
    BY <1>1, <1>2 DEF StepsToUpdate
  <2> QED BY <1>1, <1>2, <2>1, <2>2
<1>3. CASE n >= StepsToUpdate(t)
  <2> DEFINE c == (n - StepsToUpdate(t)) % (Top(t) + 1)
  <2>1. c \in 0 .. Top(t)
    <3>1. n - StepsToUpdate(t) \in Int /\ Top(t) + 1 \in Nat \ {0} /\ (Top(t) + 1) - 1 = Top(t)
      BY <1>1
    <3> QED BY <3>1, Quotient
  <2>2. TimSteps(t, n) = updateIrq([t EXCEPT !.cnt = c, !.uif = TRUE])
    BY <1>1, <1>3 DEF TimSteps
  <2> HIDE DEF c
  <2>3. c \in 0 .. Mask
    BY <1>1, <2>1
  <2>4. TimSteps(t, n) = UpdatedTim(t, c)
    BY <2>2, <2>3, UpdateIrq
  <2> QED BY <1>1, <1>3, <2>1, <2>4 DEF c
<1> QED BY <1>1, <1>2, <1>3

LEMMA CountedFacts ==
  ASSUME NEW t \in TimType, NEW c \in 0 .. Mask
  PROVE  /\ CountedTim(t, c) \in TimType /\ CountedTim(t, c).cnt = c /\ Top(CountedTim(t, c)) = Top(t)
         /\ CountedTim(t, c).psc = t.psc /\ CountedTim(t, c).frac = t.frac /\ CountedTim(t, c).pend = t.pend
         /\ CountedTim(t, c).cen = t.cen /\ CountedTim(t, c).clocked = t.clocked
BY DEF CountedTim, TimType, Top

LEMMA UpdatedFacts ==
  ASSUME NEW t \in TimType, NEW c \in 0 .. Mask
  PROVE  /\ UpdatedTim(t, c) \in TimType /\ UpdatedTim(t, c).cnt = c /\ Top(UpdatedTim(t, c)) = Top(t)
         /\ UpdatedTim(t, c).psc = t.psc /\ UpdatedTim(t, c).frac = t.frac /\ UpdatedTim(t, c).pend = t.uie
         /\ UpdatedTim(t, c).cen = t.cen /\ UpdatedTim(t, c).clocked = t.clocked
BY DEF UpdatedTim, TimType, Top

LEMMA TwoCounts ==
  ASSUME NEW t \in TimType, NEW c, NEW d
  PROVE  /\ CountedTim(CountedTim(t, c), d) = CountedTim(t, d)
         /\ UpdatedTim(CountedTim(t, c), d) = UpdatedTim(t, d)
         /\ CountedTim(UpdatedTim(t, c), d) = UpdatedTim(t, d)
         /\ UpdatedTim(UpdatedTim(t, c), d) = UpdatedTim(t, d)
BY DEF CountedTim, UpdatedTim, TimType

LEMMA TimStepsType ==
  ASSUME NEW t \in TimType, NEW n \in Nat
  PROVE  LET u == TimSteps(t, n) IN
         /\ u \in TimType
         /\ u.psc = t.psc /\ u.frac = t.frac /\ u.cen = t.cen /\ u.clocked = t.clocked
<1>1. Top(t) \in Nat /\ Top(t) <= Mask /\ StepsToUpdate(t) \in Nat /\ Mask \in Nat
  BY TopFacts, TimersAssumption
<1>2. CASE n < StepsToUpdate(t)
  BY <1>2, TimStepsCases, CountedFacts
<1>3. CASE n >= StepsToUpdate(t)
  <2> DEFINE c == (n - StepsToUpdate(t)) % (Top(t) + 1)
  <2>1. TimSteps(t, n) = UpdatedTim(t, c) /\ c \in 0 .. Top(t)
    BY <1>3, TimStepsCases
  <2> HIDE DEF c
  <2>2. c \in 0 .. Mask
    BY <1>1, <2>1
  <2> QED BY <2>1, <2>2, UpdatedFacts
<1> QED BY <1>1, <1>2, <1>3

\* Steps add up.
LEMMA TimStepsSum ==
  ASSUME NEW t \in TimType, NEW j \in Nat, NEW k \in Nat
  PROVE  TimSteps(TimSteps(t, j), k) = TimSteps(t, j + k)
<1> DEFINE s == StepsToUpdate(t)
           top == Top(t)
           u == TimSteps(t, j)
<1>1. top \in Nat \ {0} /\ top <= Mask /\ s \in Nat \ {0} /\ t.cnt \in 0 .. Mask /\ Mask \in Nat
  BY TopFacts, TimersAssumption DEF TimType
<1>2. s = IF t.cnt >= top THEN 1 ELSE top - t.cnt + 1
  BY DEF StepsToUpdate
<1>3. u \in TimType
  BY TimStepsType
<1>4. CASE j < s
  <2>1. u = CountedTim(t, t.cnt + j) /\ t.cnt + j \in 0 .. Mask
    BY <1>4, TimStepsCases
  <2>2. u.cnt = t.cnt + j /\ Top(u) = top
    BY <2>1, CountedFacts
  <2>3. StepsToUpdate(u) = s - j
    <3>1. StepsToUpdate(u) = IF t.cnt + j >= top THEN 1 ELSE top - (t.cnt + j) + 1
      BY <2>2 DEF StepsToUpdate
    <3> HIDE DEF s, top, u
    <3> QED BY <1>1, <1>2, <1>4, <3>1
  <2>4. CASE k < s - j
    <3>1. TimSteps(u, k) = CountedTim(u, u.cnt + k)
      BY <1>3, <2>3, <2>4, TimStepsCases
    <3>2. j + k < s /\ j + k \in Nat /\ (t.cnt + j) + k = t.cnt + (j + k)
      BY <1>1, <2>4
    <3>3. TimSteps(t, j + k) = CountedTim(t, t.cnt + (j + k))
      BY <3>2, TimStepsCases
    <3> HIDE DEF s, u
    <3>4. TimSteps(u, k) = CountedTim(CountedTim(t, t.cnt + j), t.cnt + (j + k))
      BY <2>1, <2>2, <3>1, <3>2
    <3> QED BY <3>3, <3>4, TwoCounts DEF u
  <2>5. CASE k >= s - j
    <3> DEFINE c == ((j + k) - s) % (top + 1)
    <3>1. TimSteps(u, k) = UpdatedTim(u, c)
      <4>1. TimSteps(u, k) = UpdatedTim(u, (k - StepsToUpdate(u)) % (Top(u) + 1))
        BY <1>3, <2>3, <2>5, TimStepsCases
      <4>2. k - (s - j) = (j + k) - s
        BY <1>1
      <4> HIDE DEF s, top, u
      <4> QED BY <2>2, <2>3, <4>1, <4>2
    <3>2. j + k >= s /\ j + k \in Nat
      BY <1>1, <2>5
    <3>3. TimSteps(t, j + k) = UpdatedTim(t, c)
      BY <3>2, TimStepsCases
    <3> HIDE DEF c, s
    <3> QED BY <2>1, <3>1, <3>3, TwoCounts
  <2> HIDE DEF s, u
  <2> QED BY <1>1, <2>4, <2>5 DEF u
<1>5. CASE j >= s
  <2> DEFINE a == j - s
             m == top + 1
             c == a % m
  <2>1. u = UpdatedTim(t, c) /\ c \in 0 .. top
    BY <1>5, TimStepsCases
  <2>2. a \in Nat /\ m \in Nat \ {0} /\ c \in 0 .. Mask /\ c < m
    <3> HIDE DEF c, u, s, top
    <3> QED BY <1>1, <1>5, <2>1
  <2>3. u.cnt = c /\ Top(u) = top
    <3> HIDE DEF c
    <3> QED BY <2>1, <2>2, UpdatedFacts
  <2>4. StepsToUpdate(u) = m - c
    <3>1. StepsToUpdate(u) = IF c >= top THEN 1 ELSE top - c + 1
      BY <2>3 DEF StepsToUpdate
    <3> HIDE DEF c, u, s, top
    <3> QED BY <1>1, <2>1, <3>1
  <2>5. TimSteps(t, j + k) = UpdatedTim(t, (a + k) % m)
    <3>1. j + k \in Nat /\ j + k >= s /\ (j + k) - s = a + k
      BY <1>1, <1>5
    <3>2. TimSteps(t, j + k) = UpdatedTim(t, ((j + k) - s) % m)
      BY <3>1, TimStepsCases
    <3> HIDE DEF a, m, s
    <3> QED BY <3>1, <3>2
  <2>6. (a + k) % m = (c + k) % m
    <3> HIDE DEF a, m
    <3> QED BY <2>2, QuotientSplit
  <2> HIDE DEF a, c
  <2>7. CASE k < m - c
    <3>1. TimSteps(u, k) = CountedTim(u, c + k)
      BY <1>3, <2>3, <2>4, <2>7, TimStepsCases
    <3>2. (c + k) % m = c + k
      <4> HIDE DEF m
      <4>1. c + k \in 0 .. m - 1 /\ m * 0 + (c + k) = c + k
        BY <2>2, <2>7
      <4>2. (m * 0 + (c + k)) % m = c + k
        BY <2>2, <4>1, QuotientUnique
      <4> QED BY <4>1, <4>2
    <3> HIDE DEF u, m
    <3>3. TimSteps(t, j + k) = UpdatedTim(t, c + k)
      BY <2>5, <2>6, <3>2
    <3> QED BY <2>1, <3>1, <3>3, TwoCounts DEF u
  <2>8. CASE k >= m - c
    <3> DEFINE b == k - (m - c)
    <3>1. TimSteps(u, k) = UpdatedTim(u, b % m)
      BY <1>3, <2>3, <2>4, <2>8, TimStepsCases
    <3>2. b % m = (c + k) % m
      <4> DEFINE p == b \div m
                 r == b % m
      <4> HIDE DEF m
      <4>1. b \in Int /\ c + k = b + m
        BY <2>2
      <4>2. p \in Int /\ r \in 0 .. m - 1 /\ b = m * p + r
        BY <2>2, <4>1, Quotient
      <4> HIDE DEF b, p, r
      <4>3. c + k = m * (p + 1) + r
        <5>1. m * (p + 1) = m * p + m /\ m * p \in Int BY <2>2, <4>2
        <5> QED BY <2>2, <4>1, <4>2, <5>1
      <4>4. (m * (p + 1) + r) % m = r
        BY <2>2, <4>2, QuotientUnique
      <4>5. (c + k) % m = r
        BY <4>3, <4>4
      <4> QED BY <4>5 DEF r
    <3> HIDE DEF u, m, b
    <3>3. TimSteps(t, j + k) = UpdatedTim(t, b % m)
      BY <2>5, <2>6, <3>2
    <3> QED BY <2>1, <3>1, <3>3, TwoCounts DEF u
  <2> QED BY <2>2, <2>7, <2>8
<1> QED BY <1>1, <1>4, <1>5

LEMMA TimStepsFraction ==
  ASSUME NEW t \in TimType, NEW n \in Nat, NEW x \in Nat
  PROVE  TimSteps([t EXCEPT !.frac = x], n) = [TimSteps(t, n) EXCEPT !.frac = x]
<1> DEFINE u == [t EXCEPT !.frac = x]
<1>1. u \in TimType /\ u.cnt = t.cnt /\ Top(u) = Top(t) /\ StepsToUpdate(u) = StepsToUpdate(t)
  BY DEF TimType, Top, StepsToUpdate
<1>2. \A c : /\ CountedTim(u, c) = [CountedTim(t, c) EXCEPT !.frac = x]
             /\ UpdatedTim(u, c) = [UpdatedTim(t, c) EXCEPT !.frac = x]
  BY DEF CountedTim, UpdatedTim, TimType
<1>3. StepsToUpdate(t) \in Nat
  BY TopFacts
<1> HIDE DEF u
<1>4. CASE n < StepsToUpdate(t)
  <2>1. TimSteps(u, n) = CountedTim(u, t.cnt + n) /\ TimSteps(t, n) = CountedTim(t, t.cnt + n)
    BY <1>1, <1>4, TimStepsCases
  <2> QED BY <1>2, <2>1 DEF u
<1>5. CASE n >= StepsToUpdate(t)
  <2> DEFINE c == (n - StepsToUpdate(t)) % (Top(t) + 1)
  <2>1. TimSteps(u, n) = UpdatedTim(u, c) /\ TimSteps(t, n) = UpdatedTim(t, c)
    BY <1>1, <1>5, TimStepsCases
  <2> HIDE DEF c
  <2> QED BY <1>2, <2>1 DEF u
<1> QED BY <1>3, <1>4, <1>5

-----------------------------------------------------------------------------
(* Ticks of TIM. *)

TimTotal(t, n) == t.frac + n * Timclk
TimDiv(t) == Hclk * (t.psc + 1)

LEMMA TimTotalIsNat ==
  ASSUME clk \in Clocks, NEW t \in TimType, NEW n \in Nat
  PROVE  /\ TimTotal(t, n) \in Nat /\ n * Timclk \in Nat /\ TimDiv(t) \in Nat \ {0}
         /\ TimTotal(t, n) \div TimDiv(t) \in Nat
         /\ TimTotal(t, n) % TimDiv(t) \in 0 .. TimDiv(t) - 1
<1>1. Timclk \in Nat /\ Hclk \in Nat \ {0} /\ t.psc + 1 \in Nat \ {0} /\ t.frac \in Nat
  BY Rates DEF TimType
<1>2. n * Timclk \in Nat
  BY <1>1
<1>3. TimDiv(t) \in Nat \ {0}
  <2> DEFINE p == t.psc + 1
             h == Hclk
  <2>1. p \in Nat \ {0} /\ h \in Nat \ {0} /\ TimDiv(t) = h * p
    BY <1>1 DEF TimDiv
  <2> HIDE DEF p, h
  <2> QED BY <2>1
<1>4. TimTotal(t, n) \in Int /\ TimTotal(t, n) >= 0
  BY <1>1, <1>2 DEF TimTotal
<1>5. TimTotal(t, n) \div TimDiv(t) \in Nat
  BY <1>3, <1>4, Quotient
<1>6. TimTotal(t, n) % TimDiv(t) \in 0 .. TimDiv(t) - 1
  BY <1>3, <1>4, Quotient
<1> QED BY <1>2, <1>3, <1>4, <1>5, <1>6

\* The fraction may be set after the steps as well as before them.
LEMMA TimTickSteps ==
  ASSUME clk \in Clocks, NEW t \in TimType, NEW n \in Nat, t.cen, t.clocked
  PROVE  TimTick(t, n) = [TimSteps(t, TimTotal(t, n) \div TimDiv(t)) EXCEPT !.frac = TimTotal(t, n) % TimDiv(t)]
<1> DEFINE q == TimTotal(t, n) \div TimDiv(t)
           r == TimTotal(t, n) % TimDiv(t)
<1>1. q \in Nat /\ r \in Nat
  BY TimTotalIsNat
<1>2. TimTick(t, n) = TimSteps([t EXCEPT !.frac = r], q)
  BY DEF TimTick, TimTotal, TimDiv
<1> HIDE DEF q, r
<1>3. TimTick(t, n) = [TimSteps(t, q) EXCEPT !.frac = r]
  BY <1>1, <1>2, TimStepsFraction
<1> QED BY <1>3 DEF q, r

LEMMA TimTickType ==
  ASSUME clk \in Clocks, NEW t \in TimType, NEW n \in Nat
  PROVE  LET u == TimTick(t, n) IN
         /\ u \in TimType
         /\ u.psc = t.psc /\ u.cen = t.cen /\ u.clocked = t.clocked
         /\ u.frac = t.frac \/ u.frac < TimDiv(t)
<1>1. CASE ~ t.cen \/ ~ t.clocked
  <2>1. TimTick(t, n) = t
    BY <1>1 DEF TimTick
  <2> QED BY <2>1 DEF TimType
<1>2. CASE t.cen /\ t.clocked
  <2> DEFINE a == TimSteps(t, TimTotal(t, n) \div TimDiv(t))
             r == TimTotal(t, n) % TimDiv(t)
  <2>1. r \in Nat /\ r < TimDiv(t)
    BY TimTotalIsNat
  <2>2. a \in TimType /\ a.psc = t.psc /\ a.cen = t.cen /\ a.clocked = t.clocked
    BY TimTotalIsNat, TimStepsType
  <2>3. TimTick(t, n) = [a EXCEPT !.frac = r]
    BY <1>2, TimTickSteps
  <2> HIDE DEF a, r
  <2> QED BY <2>1, <2>2, <2>3 DEF TimType
<1> QED BY <1>1, <1>2

LEMMA TimTickSplits ==
  ASSUME clk \in Clocks, NEW t \in TimType, NEW m \in Nat, NEW n \in Nat
  PROVE  TimTick(TimTick(t, m), n) = TimTick(t, m + n)
<1>1. CASE ~ t.cen \/ ~ t.clocked
  BY <1>1 DEF TimTick
<1>2. CASE t.cen /\ t.clocked
  <2> DEFINE a == TimTotal(t, m)
             b == n * Timclk
             d == TimDiv(t)
             q == a \div d
             r == a % d
             p == (r + b) \div d
             v == (r + b) % d
             u == TimTick(t, m)
  <2>1. a \in Nat /\ b \in Nat /\ d \in Nat \ {0} /\ q \in Nat /\ r \in Nat
    BY TimTotalIsNat
  <2>2. u = [TimSteps(t, q) EXCEPT !.frac = r]
    BY <1>2, TimTickSteps
  <2>3. TimSteps(t, q) \in TimType
    BY <2>1, TimStepsType
  <2>4. u \in TimType /\ u.cen /\ u.clocked /\ u.psc = t.psc
    BY <1>2, TimTickType
  <2>5. u.frac = r
    <3> HIDE DEF u, q, r
    <3> QED BY <2>2, <2>3 DEF TimType
  <2>6. TimTotal(u, n) = r + b /\ TimDiv(u) = d
    BY <2>4, <2>5 DEF TimTotal, TimDiv
  <2>7. p \in Nat /\ v \in Nat
    <3> HIDE DEF u, r, d
    <3> QED BY <2>4, <2>6, TimTotalIsNat
  <2>8. TimTick(u, n) = [TimSteps(u, p) EXCEPT !.frac = v]
    <3> HIDE DEF u, r, d
    <3> QED BY <2>4, <2>6, TimTickSteps
  <2>9. TimSteps(u, p) = [TimSteps(t, q + p) EXCEPT !.frac = r]
    <3>1. TimSteps(TimSteps(t, q), p) = TimSteps(t, q + p)
      BY <2>1, <2>7, TimStepsSum
    <3> HIDE DEF u, q, r, p
    <3> QED BY <2>1, <2>2, <2>3, <2>7, <3>1, TimStepsFraction
  <2>10. TimTotal(t, m + n) = a + b
    <3>1. Timclk \in Nat /\ t.frac \in Nat
      BY Rates DEF TimType
    <3> DEFINE h == Timclk
    <3>2. h \in Nat BY <3>1
    <3> HIDE DEF h
    <3>3. (m + n) * h = m * h + n * h /\ m * h \in Nat /\ n * h \in Nat
      BY <3>2
    <3> QED BY <3>1, <3>3 DEF TimTotal, h
  <2>11. q + p = (a + b) \div d /\ v = (a + b) % d
    <3> HIDE DEF a, b, d
    <3> QED BY <2>1, QuotientSplit
  <2>12. TimSteps(t, q + p) \in TimType
    <3> HIDE DEF q, p
    <3> QED BY <2>1, <2>7, TimStepsType
  <2>13. TimTick(t, m + n) = [TimSteps(t, q + p) EXCEPT !.frac = v]
    <3>1. m + n \in Nat
      OBVIOUS
    <3>2. TimTick(t, m + n) = [TimSteps(t, TimTotal(t, m + n) \div d) EXCEPT !.frac = TimTotal(t, m + n) % d]
      BY <1>2, <3>1, TimTickSteps
    <3> HIDE DEF a, b, d, q, p, v
    <3> QED BY <2>10, <2>11, <3>2
  <2> HIDE DEF u, q, r, p, v
  <2>14. [[TimSteps(t, q + p) EXCEPT !.frac = r] EXCEPT !.frac = v] = [TimSteps(t, q + p) EXCEPT !.frac = v]
    BY <2>12 DEF TimType
  <2> QED BY <2>8, <2>9, <2>13, <2>14 DEF u
<1> QED BY <1>1, <1>2

TimPends(t, n) == TimTick([t EXCEPT !.pend = FALSE], n).pend

LEMMA TimPendsWhen ==
  ASSUME clk \in Clocks, NEW t \in TimType, NEW n \in Nat
  PROVE  TimPends(t, n) <=>
            t.cen /\ t.clocked /\ t.uie /\ TimTotal(t, n) >= TimDiv(t) * StepsToUpdate(t)
<1> DEFINE u == [t EXCEPT !.pend = FALSE]
           k == TimTotal(u, n) \div TimDiv(u)
           s == StepsToUpdate(u)
<1>1. /\ u \in TimType /\ u.pend = FALSE /\ u.cen = t.cen /\ u.clocked = t.clocked /\ u.uie = t.uie
      /\ TimTotal(u, n) = TimTotal(t, n) /\ TimDiv(u) = TimDiv(t) /\ s = StepsToUpdate(t)
  BY DEF TimType, TimTotal, TimDiv, StepsToUpdate, Top
<1>2. TimPends(t, n) <=> TimTick(u, n).pend
  BY DEF TimPends
<1> HIDE DEF u
<1>3. CASE ~ u.cen \/ ~ u.clocked
  BY <1>1, <1>2, <1>3 DEF TimTick
<1>4. CASE u.cen /\ u.clocked
  <2>1. k \in Nat /\ s \in Nat \ {0} /\ (k >= s <=> TimTotal(u, n) >= TimDiv(u) * s)
    <3>1. TimTotal(u, n) \in Int /\ TimDiv(u) \in Nat \ {0} /\ k \in Nat /\ s \in Nat \ {0} /\ s \in Int
      BY <1>1, TimTotalIsNat, TopFacts
    <3> QED BY <3>1, QuotientAtLeast
  <2>2. TimTick(u, n).pend = TimSteps(u, k).pend
    <3>1. TimTick(u, n) = [TimSteps(u, k) EXCEPT !.frac = TimTotal(u, n) % TimDiv(u)]
      BY <1>1, <1>4, TimTickSteps
    <3>2. TimSteps(u, k) \in TimType
      BY <1>1, <2>1, TimStepsType
    <3> HIDE DEF k
    <3> QED BY <3>1, <3>2 DEF TimType
  <2> HIDE DEF k
  <2>3. TimSteps(u, k).pend <=> k >= s /\ u.uie
    <3>1. CASE k < s
      <4>1. TimSteps(u, k) = CountedTim(u, u.cnt + k) /\ u.cnt + k \in 0 .. Mask
        BY <1>1, <2>1, <3>1, TimStepsCases
      <4>2. CountedTim(u, u.cnt + k).pend = FALSE
        BY <1>1, <4>1, CountedFacts
      <4> QED BY <2>1, <3>1, <4>1, <4>2
    <3>2. CASE k >= s
      <4> DEFINE c == (k - s) % (Top(u) + 1)
      <4>1. TimSteps(u, k) = UpdatedTim(u, c) /\ c \in 0 .. Top(u)
        BY <1>1, <2>1, <3>2, TimStepsCases
      <4> HIDE DEF c
      <4>2. c \in 0 .. Mask
        BY <1>1, <4>1, TopFacts, TimersAssumption
      <4>3. UpdatedTim(u, c).pend = u.uie
        BY <1>1, <4>2, UpdatedFacts
      <4> QED BY <3>2, <4>1, <4>3
    <3> QED BY <2>1, <3>1, <3>2
  <2> QED BY <1>1, <1>2, <1>4, <2>1, <2>2, <2>3
<1> QED BY <1>3, <1>4

-----------------------------------------------------------------------------
(* The next event. *)

\* The least n from 1 on with n * rate at or above a.
LEMMA LeastCycles ==
  ASSUME NEW a \in Int, NEW rate \in Nat \ {0}, NEW n \in Nat \ {0}
  PROVE  /\ AtLeast(CeilDiv(a, rate), 1) \in Nat \ {0}
         /\ n >= AtLeast(CeilDiv(a, rate), 1) <=> n * rate >= a
<1>1. n \in Int
  OBVIOUS
<1>2. CeilDiv(a, rate) \in Int /\ (n >= CeilDiv(a, rate) <=> n * rate >= a)
  BY <1>1, CeilDivLeast
<1>3. n * rate \in Int
  OBVIOUS
<1> DEFINE c == CeilDiv(a, rate)
<1>4. c \in Int /\ AtLeast(c, 1) = IF c < 1 THEN 1 ELSE c
  BY <1>2 DEF AtLeast
<1> HIDE DEF c
<1>5. AtLeast(c, 1) \in Nat \ {0} /\ (n >= AtLeast(c, 1) <=> n >= c)
  BY <1>4
<1> QED BY <1>2, <1>5 DEF c

LEMMA StCyclesExact ==
  ASSUME clk \in Clocks, NEW s \in SysTickType
  PROVE  /\ StCycles(s) = Never => \A n \in Nat : ~ StPends(s, n)
         /\ StCycles(s) # Never =>
               /\ StCycles(s) \in Nat \ {0}
               /\ \A n \in Nat \ {0} : StPends(s, n) <=> n >= StCycles(s)
<1> DEFINE goal == First(s) * Hclk
           hz == StHz(s)
           cycles == AtLeast(CeilDiv(AtLeast(goal - s.frac, 0), hz), 1)
<1>1. /\ Hclk \in Nat \ {0} /\ hz \in Nat \ {0} /\ s.frac \in Nat /\ First(s) \in Nat \ {0}
      /\ First(s) \in Int
  BY Rates DEF SysTickType, First
<1>2. goal \in Int /\ Hclk * First(s) = goal
  BY <1>1
<1> HIDE DEF goal, hz
<1>3. CASE ~ s.on \/ ~ s.irq \/ s.load = 0
  BY <1>3, StPendsWhen DEF StCycles, Never
<1>4. CASE s.on /\ s.irq /\ s.load # 0
  <2>1. StCycles(s) = cycles
    BY <1>4 DEF StCycles, First, goal, hz
  <2> DEFINE g == AtLeast(goal - s.frac, 0)
  <2>2. g \in Int /\ g >= goal - s.frac /\ g >= 0 /\ (g = goal - s.frac \/ g = 0)
    BY <1>1, <1>2 DEF AtLeast
  <2> HIDE DEF g
  <2>3. ASSUME NEW n \in Nat \ {0}
        PROVE  cycles \in Nat \ {0} /\ (n >= cycles <=> s.frac + n * hz >= goal)
    <3>1. n * hz \in Nat
      BY <1>1
    <3>2. cycles \in Nat \ {0} /\ (n >= cycles <=> n * hz >= g)
      BY <1>1, <2>2, LeastCycles DEF g
    <3> HIDE DEF cycles
    <3>3. n * hz >= g <=> s.frac + n * hz >= goal
      BY <1>1, <1>2, <2>2, <3>1
    <3> QED BY <3>1, <3>2, <3>3
  <2> HIDE DEF cycles
  <2>4. cycles \in Nat \ {0}
    <3>1. 1 \in Nat \ {0} OBVIOUS
    <3> QED BY <2>3, <3>1
  <2>5. ASSUME NEW n \in Nat \ {0}
        PROVE  StPends(s, n) <=> n >= cycles
    <3>1. StPends(s, n) <=> StTotal(s, n) >= goal
      BY <1>2, <1>4, StPendsWhen
    <3>2. StTotal(s, n) = s.frac + n * hz
      BY DEF StTotal, hz
    <3> QED BY <2>3, <3>1, <3>2
  <2>6. cycles # Never
    BY <2>4 DEF Never
  <2> QED BY <2>1, <2>4, <2>5, <2>6
<1> QED BY <1>3, <1>4

LEMMA TimCyclesExact ==
  ASSUME clk \in Clocks, NEW t \in TimType
  PROVE  /\ TimCycles(t) = Never => \A n \in Nat : ~ TimPends(t, n)
         /\ TimCycles(t) # Never =>
               /\ TimCycles(t) \in Nat \ {0}
               /\ \A n \in Nat \ {0} : TimPends(t, n) <=> n >= TimCycles(t)
<1> DEFINE goal == StepsToUpdate(t) * Hclk * (t.psc + 1)
           hz == Timclk
           cycles == AtLeast(CeilDiv(goal - t.frac, hz), 1)
<1>1. /\ Hclk \in Nat \ {0} /\ hz \in Nat \ {0} /\ t.frac \in Nat /\ t.psc + 1 \in Nat
      /\ StepsToUpdate(t) \in Nat
  BY Rates, TopFacts DEF TimType
<1>2. goal \in Int /\ TimDiv(t) * StepsToUpdate(t) = goal
  <2> DEFINE x == StepsToUpdate(t)
             y == Hclk
             z == t.psc + 1
  <2>1. x \in Nat /\ y \in Nat /\ z \in Nat /\ goal = x * y * z /\ TimDiv(t) = y * z
    BY <1>1 DEF TimDiv
  <2> HIDE DEF x, y, z, goal
  <2>2. x * y * z = (y * z) * x /\ x * y * z \in Int
    BY <2>1
  <2> QED BY <2>1, <2>2 DEF x
<1> HIDE DEF goal, hz
<1>3. CASE ~ t.cen \/ ~ t.uie \/ ~ t.clocked
  BY <1>3, TimPendsWhen DEF TimCycles, Never
<1>4. CASE t.cen /\ t.uie /\ t.clocked
  <2>1. TimCycles(t) = cycles
    BY <1>4 DEF TimCycles, goal, hz
  <2>2. ASSUME NEW n \in Nat \ {0}
        PROVE  cycles \in Nat \ {0} /\ (TimPends(t, n) <=> n >= cycles)
    <3>1. TimPends(t, n) <=> TimTotal(t, n) >= goal
      BY <1>2, <1>4, TimPendsWhen
    <3>2. TimTotal(t, n) = t.frac + n * hz
      BY DEF TimTotal, hz
    <3>3. cycles \in Nat \ {0} /\ (n >= cycles <=> t.frac + n * hz >= goal)
      <4>1. goal - t.frac \in Int /\ n * hz \in Int
        BY <1>1, <1>2
      <4>2. cycles \in Nat \ {0} /\ (n >= cycles <=> n * hz >= goal - t.frac)
        BY <1>1, <4>1, LeastCycles
      <4> HIDE DEF cycles
      <4> QED BY <1>1, <1>2, <4>1, <4>2
    <3> HIDE DEF cycles
    <3> QED BY <3>1, <3>2, <3>3
  <2> HIDE DEF cycles
  <2>3. cycles \in Nat \ {0} /\ cycles # Never
    <3>1. 1 \in Nat \ {0} OBVIOUS
    <3> QED BY <2>2, <3>1 DEF Never
  <2> QED BY <2>1, <2>2, <2>3
<1> QED BY <1>3, <1>4

\* The least of the events.
LEMMA NextEvent ==
  ASSUME clk \in Clocks, st \in SysTickType, tim \in TimType
  PROVE  LET c == cyclesToNextEvent
             a == StCycles(st)
             b == TimCycles(tim)
         IN  /\ c = Never <=> a = Never /\ b = Never
             /\ c # Never => /\ c = a \/ c = b
                             /\ a # Never => c <= a
                             /\ b # Never => c <= b
<1> DEFINE a == StCycles(st)
           b == TimCycles(tim)
           events == {a, b} \ {Never}
           c == CHOOSE x \in events : \A y \in events : x <= y
<1>1. /\ a # Never => a \in Nat \ {0}
      /\ b # Never => b \in Nat \ {0}
  BY StCyclesExact, TimCyclesExact
<1>2. cyclesToNextEvent = IF events = {} THEN Never ELSE c
  BY DEF cyclesToNextEvent
<1> HIDE DEF a, b
<1>3. events = {} <=> a = Never /\ b = Never
  OBVIOUS
<1>4. ASSUME events # {} PROVE c \in events /\ \A y \in events : c <= y
  <2>1. \E x \in events : \A y \in events : x <= y
    BY <1>1, <1>4
  <2> QED BY <2>1
<1> HIDE DEF c
<1>5. CASE events = {}
  BY <1>2, <1>3, <1>5 DEF a, b
<1>6. CASE events # {}
  <2>1. cyclesToNextEvent = c BY <1>2, <1>6
  <2>2. c # Never /\ (c = a \/ c = b) /\ (a # Never => c <= a) /\ (b # Never => c <= b)
    BY <1>4, <1>6
  <2> QED BY <1>3, <1>6, <2>1, <2>2 DEF a, b
<1> QED BY <1>5, <1>6

LEMMA EventIsExact ==
  ASSUME clk \in Clocks, st \in SysTickType, tim \in TimType
  PROVE  EventExact
<1> DEFINE c == cyclesToNextEvent
           a == StCycles(st)
           b == TimCycles(tim)
<1>1. \A n : PendsWithin(n) <=> StPends(st, n) \/ TimPends(tim, n)
  BY DEF PendsWithin, TimPends
<1>2. /\ a = Never => \A n \in Nat : ~ StPends(st, n)
      /\ a # Never => /\ a \in Nat \ {0}
                      /\ \A n \in Nat \ {0} : StPends(st, n) <=> n >= a
  BY StCyclesExact
<1>3. /\ b = Never => \A n \in Nat : ~ TimPends(tim, n)
      /\ b # Never => /\ b \in Nat \ {0}
                      /\ \A n \in Nat \ {0} : TimPends(tim, n) <=> n >= b
  BY TimCyclesExact
<1>4. /\ c = Never <=> a = Never /\ b = Never
      /\ c # Never => /\ c = a \/ c = b
                      /\ a # Never => c <= a
                      /\ b # Never => c <= b
  BY NextEvent
<1>5. EventExact <=> IF c = Never THEN ~ PendsWithin(2 * MaxChunk)
                     ELSE PendsWithin(c) /\ (c > 1 => ~ PendsWithin(c - 1))
  BY DEF EventExact
<1> HIDE DEF a, b, c
<1>6. CASE c = Never
  <2>1. 2 * MaxChunk \in Nat
    BY TimersAssumption
  <2> QED BY <1>1, <1>2, <1>3, <1>4, <1>5, <1>6, <2>1
<1>7. CASE c # Never
  <2>1. c \in Nat \ {0}
    BY <1>2, <1>3, <1>4, <1>7
  <2>2. PendsWithin(c)
    BY <1>1, <1>2, <1>3, <1>4, <1>7, <2>1
  <2>3. ASSUME c > 1 PROVE ~ PendsWithin(c - 1)
    <3>1. c - 1 \in Nat \ {0}
      BY <2>1, <2>3
    <3>2. ~ StPends(st, c - 1)
      BY <1>2, <1>4, <1>7, <2>1, <3>1
    <3>3. ~ TimPends(tim, c - 1)
      BY <1>3, <1>4, <1>7, <2>1, <3>1
    <3> QED BY <1>1, <3>2, <3>3
  <2> QED BY <1>5, <1>7, <2>2, <2>3
<1> QED BY <1>6, <1>7

-----------------------------------------------------------------------------
(* The specification. *)

LEMMA Typed ==
  ASSUME TypeOK
  PROVE  clk \in Clocks /\ st \in SysTickType /\ tim \in TimType
<1>1. Loads \cup {0} \subseteq Nat /\ Pscs \cup {0} \subseteq Nat
  BY TimersAssumption
<1> QED BY <1>1 DEF TypeOK, SysTickType, TimType

LEMMA SomeQuotient == \E q \in Quotients : 0 < q
<1> DEFINE h == HsiClock[1]
           q == h * (0 + 1)
<1>1. HsiClock \in Clocks /\ h \in Nat \ {0} /\ 0 \in Pscs \cup {0}
  BY TimersAssumption
<1>2. q \in Quotients
  BY <1>1 DEF Quotients
<1>3. 0 < q
  <2> HIDE DEF h
  <2> QED BY <1>1
<1> HIDE DEF q
<1> QED BY <1>2, <1>3

LEMMA TimersInitType == Init => TypeOK
<1> SUFFICES ASSUME Init PROVE TypeOK
  OBVIOUS
<1>1. HsiClock \in Clocks /\ HsiClock[1] \in Nat \ {0} /\ Mask \in Nat
  BY TimersAssumption
<1>3. \E q \in Quotients : tim.frac < q
  BY SomeQuotient DEF Init, TimReset
<1>4. \E c \in Clocks : st.frac < c[1]
  BY <1>1 DEF Init, StReset
<1>5. \E l \in Loads \cup {0} : st.val <= l
  BY DEF Init, StReset
<1> QED BY <1>1, <1>3, <1>4, <1>5 DEF Init, TypeOK, StReset, TimReset

LEMMA AdvanceType ==
  ASSUME TypeOK, NEW n \in 1 .. MaxChunk, Advance(n)
  PROVE  TypeOK'
<1>1. n \in Nat
  BY TimersAssumption
<1>2. clk \in Clocks /\ st \in SysTickType /\ tim \in TimType
  BY Typed
<1>3. /\ clk' = clk /\ uses' = uses /\ st' = StTick(st, n) /\ tim' = TimTick(tim, n)
  BY DEF Advance
<1>4. /\ st' \in SysTickType /\ st'.load = st.load
      /\ st'.val <= st.val \/ st'.val <= st.load
      /\ st'.frac = st.frac \/ st'.frac < Hclk
  BY <1>1, <1>2, <1>3, StTickType
<1>5. /\ tim' \in TimType /\ tim'.psc = tim.psc
      /\ tim'.frac = tim.frac \/ tim'.frac < TimDiv(tim)
  BY <1>1, <1>2, <1>3, TimTickType
<1>6. \E l \in Loads \cup {0} : st'.val <= l
  <2>1. PICK l \in Loads \cup {0} : st.val <= l
    BY DEF TypeOK
  <2>2. l \in Nat /\ st.load \in Loads \cup {0} /\ st.val \in Nat /\ st'.val \in Nat
    BY <1>2, <1>4, TimersAssumption DEF TypeOK, SysTickType
  <2>3. CASE st'.val <= st.val
    BY <2>1, <2>2, <2>3
  <2>4. CASE st'.val <= st.load
    BY <2>2, <2>4
  <2> QED BY <1>4, <2>3, <2>4
<1>7. \E c \in Clocks : st'.frac < c[1]
  BY <1>2, <1>4 DEF TypeOK, Hclk
<1>8. \E q \in Quotients : tim'.frac < q
  <2>1. TimDiv(tim) \in Quotients
    BY <1>2 DEF TimDiv, Quotients, Hclk, TypeOK
  <2> QED BY <1>5, <2>1 DEF TypeOK
<1>9. since' \in Nat \cup {-1}
  <2>1. CASE StPends(st, n)
    BY <2>1 DEF Advance
  <2>2. CASE ~ StPends(st, n) /\ since # -1
    <3>1. since' = since + n
      BY <2>2 DEF Advance
    <3> QED BY <1>1, <2>2, <3>1 DEF TypeOK
  <2>3. CASE ~ StPends(st, n) /\ since = -1
    BY <2>3 DEF Advance
  <2> QED BY <2>1, <2>2, <2>3
<1>10. st' \in [on : BOOLEAN, irq : BOOLEAN, core : BOOLEAN, flag : BOOLEAN, pend : BOOLEAN,
                load : Loads \cup {0}, val : Nat, frac : Nat]
  BY <1>4 DEF TypeOK, SysTickType
<1>11. tim' \in [cen : BOOLEAN, uie : BOOLEAN, uif : BOOLEAN, clocked : BOOLEAN, pend : BOOLEAN,
                 arr : 0 .. Mask, psc : Pscs \cup {0}, cnt : 0 .. Mask, frac : Nat]
  BY <1>5 DEF TypeOK, TimType
<1> QED BY <1>3, <1>6, <1>7, <1>8, <1>9, <1>10, <1>11 DEF TypeOK

LEMMA TakeType == ASSUME TypeOK, Take PROVE TypeOK'
<1>1. CASE st' = [st EXCEPT !.pend = FALSE] /\ UNCHANGED <<clk, tim, uses, since>>
  BY <1>1 DEF TypeOK
<1>2. CASE tim' = [tim EXCEPT !.pend = FALSE] /\ UNCHANGED <<clk, st, uses, since>>
  BY <1>2 DEF TypeOK
<1> QED BY <1>1, <1>2 DEF Take

LEMMA SysTickAccessType == ASSUME TypeOK, SysTickAccess PROVE TypeOK'
<1>1. ASSUME NEW s, StAccess(s),
             s \in [on : BOOLEAN, irq : BOOLEAN, core : BOOLEAN, flag : BOOLEAN, pend : BOOLEAN,
                    load : Loads \cup {0}, val : Nat, frac : Nat],
             s.val = st.val \/ s.val = 0, s.frac = st.frac
      PROVE  TypeOK'
  <2>1. st' = s /\ since' = -1 /\ UNCHANGED <<clk, tim, uses>>
    BY <1>1 DEF StAccess
  <2>2. \E l \in Loads \cup {0} : s.val <= l
    BY <1>1 DEF TypeOK
  <2> QED BY <1>1, <2>1, <2>2 DEF TypeOK
<1>2. CASE StAccess([st EXCEPT !.flag = FALSE])
  BY <1>1, <1>2 DEF TypeOK
<1>3. CASE \E on, irq, core \in BOOLEAN : StAccess([st EXCEPT !.on = on, !.irq = irq, !.core = core])
  BY <1>1, <1>3 DEF TypeOK
<1>4. CASE \E l \in Loads : StAccess([st EXCEPT !.load = l])
  BY <1>1, <1>4 DEF TypeOK
<1>5. CASE StAccess([st EXCEPT !.val = 0, !.flag = FALSE])
  BY <1>1, <1>5 DEF TypeOK
<1> QED BY <1>2, <1>3, <1>4, <1>5 DEF SysTickAccess

\* A register of TIM is written and updateIrq follows.
LEMMA TimWriteType ==
  ASSUME TypeOK, NEW t, TimWrite(t), t.frac = tim.frac,
         t \in [cen : BOOLEAN, uie : BOOLEAN, uif : BOOLEAN, clocked : BOOLEAN, pend : BOOLEAN,
                arr : 0 .. Mask, psc : Pscs \cup {0}, cnt : 0 .. Mask, frac : Nat]
  PROVE  TypeOK'
<1> DEFINE p == t.uif /\ t.uie
<1>1. tim' = [t EXCEPT !.pend = p] /\ UNCHANGED <<clk, st, uses, since>>
  BY DEF TimWrite, updateIrq
<1>2. p \in BOOLEAN
  OBVIOUS
<1> HIDE DEF p
<1>3. /\ tim' \in [cen : BOOLEAN, uie : BOOLEAN, uif : BOOLEAN, clocked : BOOLEAN, pend : BOOLEAN,
                   arr : 0 .. Mask, psc : Pscs \cup {0}, cnt : 0 .. Mask, frac : Nat]
      /\ tim'.frac = tim.frac
  BY <1>1, <1>2
<1> QED BY <1>1, <1>3 DEF TypeOK

LEMMA TimAccessType == ASSUME TypeOK, TimAccess PROVE TypeOK'
<1> USE TimersAssumption
<1>1. CASE \E b \in BOOLEAN : TimWrite([tim EXCEPT !.cen = b]) \/ TimWrite([tim EXCEPT !.uie = b])
  BY <1>1, TimWriteType DEF TypeOK
<1>2. CASE TimWrite([tim EXCEPT !.uif = FALSE])
  BY <1>2, TimWriteType DEF TypeOK
<1>3. CASE TimWrite([tim EXCEPT !.cnt = 0, !.uif = TRUE])
  <2> DEFINE t == [tim EXCEPT !.cnt = 0, !.uif = TRUE]
  <2>1. 0 \in 0 .. Mask
    OBVIOUS
  <2>2. /\ t.frac = tim.frac
        /\ t \in [cen : BOOLEAN, uie : BOOLEAN, uif : BOOLEAN, clocked : BOOLEAN, pend : BOOLEAN,
                  arr : 0 .. Mask, psc : Pscs \cup {0}, cnt : 0 .. Mask, frac : Nat]
    BY <2>1 DEF TypeOK
  <2> HIDE DEF t
  <2> QED BY <1>3, <2>2, TimWriteType DEF t
<1>4. CASE \E c \in Cnts : TimWrite([tim EXCEPT !.cnt = c])
  BY <1>4, TimWriteType DEF TypeOK
<1>5. CASE \E p \in Pscs : TimWrite([tim EXCEPT !.psc = p])
  BY <1>5, TimWriteType DEF TypeOK
<1>6. CASE \E a \in Arrs : TimWrite([tim EXCEPT !.arr = a])
  BY <1>6, TimWriteType DEF TypeOK
<1> QED BY <1>1, <1>2, <1>3, <1>4, <1>5, <1>6 DEF TimAccess

LEMMA ClockType == ASSUME TypeOK, SetClocks \/ EnableClock PROVE TypeOK'
<1>1. CASE SetClocks
  BY <1>1 DEF SetClocks, TypeOK
<1>2. CASE EnableClock
  BY <1>2 DEF EnableClock, TypeOK
<1> QED BY <1>1, <1>2

LEMMA ResetType == ASSUME TypeOK, ResetMcu PROVE TypeOK'
<1>2. HsiClock \in Clocks /\ HsiClock[1] \in Nat \ {0} /\ Mask \in Nat
  BY TimersAssumption
<1>4. \E q \in Quotients : tim'.frac < q
  BY SomeQuotient DEF ResetMcu, TimReset
<1>5. \E c \in Clocks : st'.frac < c[1]
  BY <1>2 DEF ResetMcu, StReset
<1>6. \E l \in Loads \cup {0} : st'.val <= l
  BY DEF ResetMcu, StReset
<1> QED BY <1>2, <1>4, <1>5, <1>6 DEF ResetMcu, TypeOK, StReset, TimReset

LEMMA TimersNextType == TypeOK /\ [Next]_vars => TypeOK'
<1> SUFFICES ASSUME TypeOK, [Next]_vars PROVE TypeOK'
  OBVIOUS
<1>1. CASE Next
  BY <1>1, AdvanceType, TakeType, SysTickAccessType, TimAccessType, ClockType, ResetType DEF Next
<1>2. CASE UNCHANGED vars
  BY <1>2 DEF vars, TypeOK
<1> QED BY <1>1, <1>2

\* An update interrupt that pends has its flag and its enable set.
LEMMA PendNext == TypeOK /\ PendMeansUpdate /\ [Next]_vars => PendMeansUpdate'
<1> SUFFICES ASSUME TypeOK, PendMeansUpdate, [Next]_vars PROVE PendMeansUpdate'
  OBVIOUS
<1>1. ASSUME NEW n \in 1 .. MaxChunk, Advance(n) PROVE PendMeansUpdate'
  <2>1. n \in Nat /\ clk \in Clocks /\ tim \in TimType
    BY Typed, TimersAssumption
  <2>2. tim' = TimTick(tim, n)
    BY <1>1 DEF Advance
  <2>3. CASE ~ tim.cen \/ ~ tim.clocked
    BY <2>2, <2>3 DEF TimTick, PendMeansUpdate
  <2>4. CASE tim.cen /\ tim.clocked
    <3> DEFINE k == TimTotal(tim, n) \div TimDiv(tim)
               u == TimSteps(tim, k)
    <3>1. tim' = [u EXCEPT !.frac = TimTotal(tim, n) % TimDiv(tim)]
      BY <2>1, <2>2, <2>4, TimTickSteps
    <3>2. k \in Nat /\ u \in TimType
      BY <2>1, TimTotalIsNat, TimStepsType
    <3>3. tim'.pend = u.pend /\ tim'.uif = u.uif /\ tim'.uie = u.uie
      <4> HIDE DEF u
      <4> QED BY <3>1, <3>2 DEF TimType
    <3> HIDE DEF k
    <3>4. u.pend => u.uif /\ u.uie
      <4>1. CASE k < StepsToUpdate(tim)
        <5>1. u = CountedTim(tim, tim.cnt + k)
          BY <2>1, <3>2, <4>1, TimStepsCases
        <5> QED BY <2>1, <5>1 DEF CountedTim, PendMeansUpdate, TimType
      <4>2. CASE k >= StepsToUpdate(tim)
        <5>1. u = UpdatedTim(tim, (k - StepsToUpdate(tim)) % (Top(tim) + 1))
          BY <2>1, <3>2, <4>2, TimStepsCases
        <5> QED BY <2>1, <5>1 DEF UpdatedTim, TimType
      <4> QED BY <2>1, <3>2, <4>1, <4>2, TopFacts
    <3> QED BY <3>3, <3>4 DEF PendMeansUpdate
  <2> QED BY <2>3, <2>4
<1>2. ASSUME NEW t, TimWrite(t), DOMAIN t = DOMAIN tim PROVE PendMeansUpdate'
  <2>1. tim' = updateIrq(t)
    BY <1>2 DEF TimWrite
  <2>2. "pend" \in DOMAIN t
    BY <1>2 DEF TypeOK
  <2>3. updateIrq(t).pend = (t.uif /\ t.uie) /\ updateIrq(t).uif = t.uif /\ updateIrq(t).uie = t.uie
    BY <1>2 DEF updateIrq, TypeOK
  <2> QED BY <2>1, <2>3 DEF PendMeansUpdate
<1>3. CASE TimAccess
  BY <1>2, <1>3 DEF TimAccess, TypeOK
<1>4. CASE Take \/ SysTickAccess \/ SetClocks \/ EnableClock
  BY <1>4 DEF Take, SysTickAccess, StAccess, SetClocks, EnableClock, PendMeansUpdate, TypeOK
<1>5. CASE ResetMcu
  BY <1>5 DEF ResetMcu, TimReset, PendMeansUpdate
<1>6. CASE UNCHANGED vars
  BY <1>6 DEF vars, PendMeansUpdate
<1> QED BY <1>1, <1>3, <1>4, <1>5, <1>6 DEF Next

\* Registers, counters and fractions stay in their ranges.
THEOREM TimersTypeCorrect == Spec => []TypeOK
<1>1. Init => TypeOK BY TimersInitType
<1>2. TypeOK /\ [Next]_vars => TypeOK' BY TimersNextType
<1> QED BY <1>1, <1>2, PTL DEF Spec

\* However the machine cuts time, the counters and interrupts are the same.
THEOREM Splits == Spec => []TickSplits
<1>1. ASSUME TypeOK PROVE TickSplits
  <2>1. clk \in Clocks /\ st \in SysTickType /\ tim \in TimType
    BY <1>1, Typed
  <2>2. 1 .. MaxChunk \subseteq Nat
    BY TimersAssumption
  <2> QED BY <2>1, <2>2, StTickSplits, TimTickSplits DEF TickSplits
<1>2. TypeOK => TickSplits BY <1>1
<1> QED BY <1>2, TimersTypeCorrect, PTL

\* cyclesToNextEvent is exact, and a pending update interrupt has its cause.
THEOREM TimerEvents == Spec => []EventsExact
<1>1. Init => TypeOK /\ PendMeansUpdate
  BY TimersInitType DEF Init, TimReset, PendMeansUpdate
<1>2. TypeOK /\ PendMeansUpdate /\ [Next]_vars => (TypeOK /\ PendMeansUpdate)'
  BY TimersNextType, PendNext
<1>3. TypeOK /\ PendMeansUpdate => EventsExact
  BY Typed, EventIsExact DEF EventsExact
<1> QED BY <1>1, <1>2, <1>3, PTL DEF Spec

-----------------------------------------------------------------------------
(* EXTI, SYSCFG and GPIO, for any lines, pins and widths of access *)

\* Every pin has its line, and the bytes of a register have lines only.
Shape == Pins \subseteq Lines /\ UNION Bytes \subseteq Lines

\* A line that is due is still in PR.
DueStays == due \subseteq exti.pr

\* idr_ is what the pins are.
IdrExact == gpio.idr = InputData(gpio)

ExtiInv == ExtiTypeOK /\ DueStays /\ IdrExact /\ EventsPend

ExtiType == [imr : SUBSET Lines, rtsr : SUBSET Pins, ftsr : SUBSET Pins, pr : SUBSET Lines]
GpioType == [out : SUBSET Pins, odr : SUBSET Pins, ext : SUBSET Pins, idr : SUBSET Pins]

-----------------------------------------------------------------------------
(* Accesses *)

\* What an access writes are bits of the register, and so is the register.
LEMMA WrittenBits ==
    ASSUME NEW bits, NEW bytes, UNION bytes \subseteq bits,
           NEW access \in Accesses(bits, bytes), NEW base \in SUBSET bits
    PROVE  Written(base, access) \in SUBSET bits
<1>1. PICK c \in {bits} \cup bytes \cup {{b} : b \in bits} :
          access \in [covers : {c}, value : SUBSET c]
  BY DEF Accesses
<1>2. c \subseteq bits OBVIOUS
<1>3. QED BY <1>1, <1>2 DEF Written

LEMMA AccessValue ==
    ASSUME NEW bits, NEW bytes, UNION bytes \subseteq bits,
           NEW access \in Accesses(bits, bytes)
    PROVE  access.value \subseteq access.covers /\ access.value \subseteq bits
<1>1. PICK c \in {bits} \cup bytes \cup {{b} : b \in bits} :
          access \in [covers : {c}, value : SUBSET c]
  BY DEF Accesses
<1>2. QED BY <1>1

-----------------------------------------------------------------------------
(* The two functions that all steps end in *)

\* updateIrqs makes the pending bits right, whatever they were.
LEMMA UpdateIrqsKeeps ==
    ASSUME NEW e \in ExtiType, NEW raised \in SUBSET e.pr, NEW acked,
           due \ acked \subseteq e.pr, due \subseteq Lines, UpdateIrqs(e, raised, acked)
    PROVE  /\ exti' \in ExtiType /\ pend' \subseteq Irqs /\ soft' \subseteq Irqs
           /\ due' \subseteq Lines /\ DueStays' /\ EventsPend'
<1>1. exti' = e /\ pend' = {Irq(l) : l \in e.pr \cap e.imr} /\ soft' = {}
      /\ due' = (due \ acked) \cup raised
  BY DEF UpdateIrqs
<1>2. e.pr \subseteq Lines /\ e.imr \subseteq Lines
  BY DEF ExtiType
<1>3. pend' \subseteq Irqs /\ due' \subseteq Lines
  BY <1>1, <1>2 DEF Irqs
<1>4. DueStays' BY <1>1 DEF DueStays
<1>5. EventsPend' BY <1>1, <1>4 DEF EventsPend, DueStays
<1>6. QED BY <1>1, <1>3, <1>4, <1>5

LEMMA RaiseKeeps ==
    ASSUME ExtiInv, NEW lines \in SUBSET Lines, Raise(exti, lines)
    PROVE  /\ exti' \in ExtiType /\ pend' \subseteq Irqs /\ soft' \subseteq Irqs
           /\ due' \subseteq Lines /\ DueStays' /\ EventsPend'
<1> DEFINE raised == lines \cap exti.imr
           e == [exti EXCEPT !.pr = @ \cup raised]
<1>1. CASE raised = {}
  BY <1>1 DEF Raise, ExtiInv, ExtiTypeOK, ExtiType, DueStays, EventsPend
<1>2. CASE raised # {}
  <2>1. UpdateIrqs(e, raised, {}) BY <1>2 DEF Raise
  <2>2. e \in ExtiType /\ e.pr = exti.pr \cup raised
    BY DEF ExtiInv, ExtiTypeOK, ExtiType
  <2>3. QED BY <2>1, <2>2, UpdateIrqsKeeps DEF ExtiInv, DueStays, ExtiTypeOK
<1>3. QED BY <1>1, <1>2

\* A change of the bank, with all pins reported that it may move.
LEMMA LevelsChangeKeeps ==
    ASSUME Shape, ExtiInv, NEW g \in GpioType, NEW changed \in SUBSET Pins,
           LevelsChange(g, changed)
    PROVE  ExtiInv'
<1>1. /\ gpio' = [g EXCEPT !.idr = InputData(g)]
      /\ select' = select
      /\ \E lines \in SUBSET Lines : Raise(exti, lines)
  BY DEF LevelsChange, Shape, ExtiInv, ExtiTypeOK
<1>2. InputData(g) \in SUBSET Pins BY DEF InputData, GpioType
<1>3. gpio' \in GpioType /\ gpio'.out = g.out /\ gpio'.odr = g.odr /\ gpio'.ext = g.ext
      /\ gpio'.idr = InputData(g)
  BY <1>1, <1>2 DEF GpioType
<1>4. IdrExact' BY <1>3 DEF IdrExact, InputData
<1>5. QED BY <1>1, <1>3, <1>4, RaiseKeeps DEF ExtiInv, ExtiTypeOK, ExtiType, GpioType

-----------------------------------------------------------------------------
(* The steps *)

LEMMA ExtiInitial == ExtiInit => ExtiInv
BY DEF ExtiInit, ExtiInv, ExtiTypeOK, ExtiReset, ExticrReset, DueStays, IdrExact, InputData, EventsPend

LEMMA ExtiWriteKeeps ==
    ASSUME Shape, ExtiInv, NEW access \in Accesses(Lines, Bytes),
           WriteImr(access) \/ WriteSwier(access) \/ WritePr(access)
    PROVE  ExtiInv'
<1>1. /\ exti \in ExtiType /\ due \subseteq Lines /\ due \subseteq exti.pr
      /\ exti.imr \in SUBSET Lines /\ exti.pr \in SUBSET Lines
  BY DEF ExtiInv, ExtiTypeOK, ExtiType, DueStays
<1>2. \A base \in SUBSET Lines : Written(base, access) \in SUBSET Lines
  BY WrittenBits DEF Shape
<1>3. CASE WriteImr(access)
  <2> DEFINE e == [exti EXCEPT !.imr = Written(@, access)]
  <2>1. e \in ExtiType /\ e.pr = exti.pr BY <1>1, <1>2 DEF ExtiType
  <2>2. UpdateIrqs(e, {}, {}) /\ UNCHANGED <<select, gpio>> BY <1>3 DEF WriteImr
  <2>3. QED BY <1>1, <2>1, <2>2, UpdateIrqsKeeps
            DEF ExtiInv, ExtiTypeOK, ExtiType, IdrExact, InputData
<1>4. CASE WriteSwier(access)
  <2> DEFINE raised == Written({}, access) \cap exti.imr
             e == [exti EXCEPT !.pr = @ \cup raised]
  <2>1. e \in ExtiType /\ e.pr = exti.pr \cup raised BY <1>1, <1>2 DEF ExtiType
  <2>2. UpdateIrqs(e, raised, {}) /\ UNCHANGED <<select, gpio>> BY <1>4 DEF WriteSwier
  <2>3. QED BY <1>1, <2>1, <2>2, UpdateIrqsKeeps
            DEF ExtiInv, ExtiTypeOK, ExtiType, IdrExact, InputData
<1>5. CASE WritePr(access)
  <2> DEFINE acked == Written(PrBase, access)
             e == [exti EXCEPT !.pr = @ \ acked]
  <2>1. e \in ExtiType /\ e.pr = exti.pr \ acked BY <1>1 DEF ExtiType
  <2>2. UpdateIrqs(e, {}, acked) /\ UNCHANGED <<select, gpio>> BY <1>5 DEF WritePr
  <2>3. QED BY <1>1, <2>1, <2>2, UpdateIrqsKeeps
            DEF ExtiInv, ExtiTypeOK, ExtiType, IdrExact, InputData
<1>6. QED BY <1>3, <1>4, <1>5

LEMMA TriggersKeep ==
    ASSUME Shape, ExtiInv, NEW access \in Accesses(Pins, {}), WriteTriggers(access)
    PROVE  ExtiInv'
<1>1. /\ exti \in ExtiType /\ due \subseteq Lines /\ due \subseteq exti.pr
      /\ exti.rtsr \in SUBSET Pins /\ exti.ftsr \in SUBSET Pins
  BY DEF ExtiInv, ExtiTypeOK, ExtiType, DueStays
<1>2. \A base \in SUBSET Pins : Written(base, access) \in SUBSET Pins
  BY WrittenBits
<1>3. PICK e \in ExtiType : e.pr = exti.pr /\ UpdateIrqs(e, {}, {})
  <2> DEFINE r == [exti EXCEPT !.rtsr = Written(@, access)]
             f == [exti EXCEPT !.ftsr = Written(@, access)]
  <2>1. r \in ExtiType /\ r.pr = exti.pr /\ f \in ExtiType /\ f.pr = exti.pr
    BY <1>1, <1>2 DEF ExtiType
  <2>2. UpdateIrqs(r, {}, {}) \/ UpdateIrqs(f, {}, {}) BY DEF WriteTriggers
  <2>3. QED BY <2>1, <2>2
<1>4. UNCHANGED <<select, gpio>> BY DEF WriteTriggers
<1>5. QED BY <1>1, <1>3, <1>4, UpdateIrqsKeeps
          DEF ExtiInv, ExtiTypeOK, ExtiType, IdrExact, InputData

LEMMA BankKeeps ==
    ASSUME Shape, ExtiInv,
           \/ \E access \in Accesses(Pins, {}) : WriteOdr(access)
           \/ \E pins \in SUBSET Pins : WriteModer(pins)
           \/ \E set, reset \in SUBSET Pins : WriteBsrr(set, reset)
           \/ \E pin \in Pins, high \in BOOLEAN : SetExternalInput(pin, high)
    PROVE  ExtiInv'
<1>1. gpio \in GpioType BY DEF ExtiInv, ExtiTypeOK, GpioType
<1>2. ASSUME NEW access \in Accesses(Pins, {}), WriteOdr(access) PROVE ExtiInv'
  <2>1. Written(gpio.odr, access) \in SUBSET Pins
    BY <1>1, WrittenBits DEF GpioType
  <2>2. [gpio EXCEPT !.odr = Written(@, access)] \in GpioType BY <1>1, <2>1 DEF GpioType
  <2>3. QED BY <1>2, <2>2, LevelsChangeKeeps DEF WriteOdr
<1>3. ASSUME NEW pins \in SUBSET Pins, WriteModer(pins) PROVE ExtiInv'
  <2>1. [gpio EXCEPT !.out = pins] \in GpioType BY <1>1 DEF GpioType
  <2>2. QED BY <1>3, <2>1, LevelsChangeKeeps DEF WriteModer
<1>4. ASSUME NEW set \in SUBSET Pins, NEW reset \in SUBSET Pins, WriteBsrr(set, reset)
      PROVE ExtiInv'
  <2>1. [gpio EXCEPT !.odr = (@ \ reset) \cup set] \in GpioType BY <1>1 DEF GpioType
  <2>2. QED BY <1>4, <2>1, LevelsChangeKeeps DEF WriteBsrr
<1>5. ASSUME NEW pin \in Pins, NEW high \in BOOLEAN, SetExternalInput(pin, high) PROVE ExtiInv'
  <2>1. [gpio EXCEPT !.ext = IF high THEN @ \cup {pin} ELSE @ \ {pin}] \in GpioType
    BY <1>1 DEF GpioType
  <2>2. QED BY <1>5, <2>1, LevelsChangeKeeps DEF SetExternalInput
<1>6. QED BY <1>2, <1>3, <1>4, <1>5

LEMMA NvicKeeps ==
    ASSUME ExtiInv,
           \/ \E irq \in Irqs : EnterException(irq)
           \/ \E irq \in Irqs, set \in BOOLEAN : WritePending(irq, set)
           \/ \E pins \in SUBSET Pins : WriteExticr(pins)
    PROVE  ExtiInv'
<1>1. ASSUME NEW irq \in Irqs, EnterException(irq) PROVE ExtiInv'
  BY <1>1 DEF EnterException, ExtiInv, ExtiTypeOK, DueStays, IdrExact, InputData, EventsPend
<1>2. ASSUME NEW irq \in Irqs, NEW set \in BOOLEAN, WritePending(irq, set) PROVE ExtiInv'
  BY <1>2 DEF WritePending, ExtiInv, ExtiTypeOK, DueStays, IdrExact, InputData, EventsPend
<1>3. ASSUME NEW pins \in SUBSET Pins, WriteExticr(pins) PROVE ExtiInv'
  BY <1>3 DEF WriteExticr, ExtiInv, ExtiTypeOK, DueStays, IdrExact, InputData, EventsPend
<1>4. QED BY <1>1, <1>2, <1>3

LEMMA ExtiResetKeeps == ASSUME ExtiInv, ResetPins PROVE ExtiInv'
<1> DEFINE in == [gpio EXCEPT !.out = {}]
           off == [in EXCEPT !.odr = {}]
<1>1. gpio' = [off EXCEPT !.idr = gpio.ext]
  BY DEF ResetPins, ResetLevels, ExtiInv, ExtiTypeOK
<1>2. gpio' \in GpioType /\ gpio'.out = {} /\ gpio'.ext = gpio.ext /\ gpio'.idr = gpio.ext
  BY <1>1 DEF ExtiInv, ExtiTypeOK, GpioType
<1>3. IdrExact' BY <1>2 DEF IdrExact, InputData
<1>4. QED BY <1>2, <1>3 DEF ResetPins, ExtiReset, ExticrReset, ExtiInv, ExtiTypeOK, GpioType, DueStays, EventsPend

LEMMA ExtiInductive == ASSUME Shape PROVE ExtiInv /\ [ExtiNext]_extiVars => ExtiInv'
<1>1. ASSUME ExtiInv, ExtiNext PROVE ExtiInv'
  BY <1>1, ExtiWriteKeeps, TriggersKeep, BankKeeps, NvicKeeps, ExtiResetKeeps DEF ExtiNext, Firmware
<1>2. ASSUME ExtiInv, UNCHANGED extiVars PROVE ExtiInv'
  BY <1>2 DEF extiVars, ExtiInv, ExtiTypeOK, DueStays, IdrExact, InputData, EventsPend
<1>3. QED BY <1>1, <1>2

LEMMA ExtiInvariance == ASSUME Shape PROVE ExtiSpec => []ExtiInv
<1>1. QED BY ExtiInitial, ExtiInductive, PTL DEF ExtiSpec

-----------------------------------------------------------------------------

\* Registers, levels and pending bits keep their types.
THEOREM ExtiTypeCorrect == ASSUME Shape PROVE ExtiSpec => []ExtiTypeOK
<1>1. ExtiInv => ExtiTypeOK BY DEF ExtiInv
<1>2. QED BY <1>1, ExtiInvariance, PTL

\* No event is lost and none comes twice, however many lines share an
\* interrupt and in whatever order they are raised, masked and acknowledged.
THEOREM ExtiEvents == ASSUME Shape PROVE ExtiSpec => []EventsPend
<1>1. ExtiInv => EventsPend BY DEF ExtiInv
<1>2. QED BY <1>1, ExtiInvariance, PTL

-----------------------------------------------------------------------------
(* The action properties *)

LEMMA LevelIsIdr == ASSUME ExtiInv PROVE Level = gpio.idr
BY DEF ExtiInv, ExtiTypeOK, IdrExact, InputData, Level

\* A step that leaves the pins alone has no edges.
LEMMA NoEdges ==
    ASSUME ExtiInv, UNCHANGED gpio, exti'.pr \subseteq exti.pr
    PROVE  exti'.pr \ exti.pr = Edges \ exti.pr
<1>1. Level' = Level BY DEF Level
<1>2. QED BY <1>1 DEF Edges

LEMMA BankEdges ==
    ASSUME Shape, ExtiInv, ExtiInv', NEW g \in GpioType, NEW changed \in SUBSET Pins,
           LevelsChange(g, changed),
           \A p \in Pins \ changed : p \in InputData(g) <=> p \in InputData(gpio)
    PROVE  exti'.pr \ exti.pr = Edges \ exti.pr
<1> DEFINE idr == InputData(g)
           rising == (idr \ gpio.idr) \cap exti.rtsr
           falling == (gpio.idr \ idr) \cap exti.ftsr
           lines == (rising \cup falling) \cap select \cap changed
           raised == lines \cap exti.imr
<1>1. gpio'.idr = idr /\ Raise(exti, lines)
  BY DEF LevelsChange, GpioType
<1>2. Level = gpio.idr /\ Level' = idr /\ gpio.idr = InputData(gpio)
  BY <1>1, LevelIsIdr DEF ExtiInv, IdrExact, ExtiTypeOK, Level, InputData
<1>3. exti'.pr = exti.pr \cup raised
  <2>1. CASE raised = {} BY <1>1, <2>1 DEF Raise
  <2>2. CASE raised # {}
    BY <1>1, <2>2 DEF Raise, UpdateIrqs, ExtiInv, ExtiTypeOK
  <2>3. QED BY <2>1, <2>2
<1>4. idr \subseteq Pins /\ gpio.idr \subseteq Pins
  BY DEF InputData, GpioType, ExtiInv, ExtiTypeOK
<1>5. raised = Edges
  BY <1>2, <1>4 DEF Edges, ExtiInv, ExtiTypeOK
<1>6. QED BY <1>3, <1>5

\* setExternalInput looks at one pin; the others have not moved.
LEMMA InputEdges ==
    ASSUME Shape, ExtiInv, ExtiInv', NEW pin \in Pins, NEW high \in BOOLEAN,
           SetExternalInput(pin, high)
    PROVE  exti'.pr \ exti.pr = Edges \ exti.pr
<1> DEFINE g == [gpio EXCEPT !.ext = IF high THEN @ \cup {pin} ELSE @ \ {pin}]
<1>1. g \in GpioType /\ g.out = gpio.out /\ g.odr = gpio.odr
      /\ \A p \in Pins \ {pin} : p \in g.ext <=> p \in gpio.ext
  BY DEF ExtiInv, ExtiTypeOK, GpioType
<1>2. \A p \in Pins \ {pin} : p \in InputData(g) <=> p \in InputData(gpio)
  BY <1>1 DEF InputData
<1>3. LevelsChange(g, {pin}) /\ {pin} \in SUBSET Pins BY DEF SetExternalInput
<1>4. g \in GpioType BY <1>1
<1> HIDE DEF g
<1>5. QED BY <1>2, <1>3, <1>4, BankEdges

LEMMA OutputEdges ==
    ASSUME Shape, ExtiInv, ExtiInv',
           \/ \E access \in Accesses(Pins, {}) : WriteOdr(access)
           \/ \E pins \in SUBSET Pins : WriteModer(pins)
           \/ \E set, reset \in SUBSET Pins : WriteBsrr(set, reset)
    PROVE  exti'.pr \ exti.pr = Edges \ exti.pr
<1>1. \E g \in GpioType : LevelsChange(g, Pins)
  <2>1. gpio \in GpioType BY DEF ExtiInv, ExtiTypeOK, GpioType
  <2>2. ASSUME NEW access \in Accesses(Pins, {}), WriteOdr(access)
        PROVE \E g \in GpioType : LevelsChange(g, Pins)
    <3>1. [gpio EXCEPT !.odr = Written(@, access)] \in GpioType
      BY <2>1, WrittenBits DEF GpioType
    <3>2. QED BY <2>2, <3>1 DEF WriteOdr
  <2>3. ASSUME NEW pins \in SUBSET Pins, WriteModer(pins)
        PROVE \E g \in GpioType : LevelsChange(g, Pins)
    <3>1. [gpio EXCEPT !.out = pins] \in GpioType BY <2>1 DEF GpioType
    <3>2. QED BY <2>3, <3>1 DEF WriteModer
  <2>4. ASSUME NEW set \in SUBSET Pins, NEW reset \in SUBSET Pins, WriteBsrr(set, reset)
        PROVE \E g \in GpioType : LevelsChange(g, Pins)
    <3>1. [gpio EXCEPT !.odr = (@ \ reset) \cup set] \in GpioType BY <2>1 DEF GpioType
    <3>2. QED BY <2>4, <3>1 DEF WriteBsrr
  <2>5. QED BY <2>2, <2>3, <2>4
<1>2. QED BY <1>1, BankEdges

LEMMA EdgeStepHolds ==
    ASSUME Shape, ExtiInv, ExtiInv', ExtiNext
    PROVE  EdgeStep
<1>1. ASSUME NEW access \in Accesses(Lines, Bytes), WriteImr(access) \/ WritePr(access)
      PROVE exti'.pr \subseteq exti.pr /\ UNCHANGED gpio
  BY <1>1 DEF WriteImr, WritePr, UpdateIrqs, ExtiInv, ExtiTypeOK
<1>2. ASSUME NEW access \in Accesses(Pins, {}), WriteTriggers(access)
      PROVE exti'.pr \subseteq exti.pr /\ UNCHANGED gpio
  BY <1>2 DEF WriteTriggers, UpdateIrqs, ExtiInv, ExtiTypeOK
<1>3. ASSUME \/ \E irq \in Irqs : EnterException(irq)
             \/ \E irq \in Irqs, set \in BOOLEAN : WritePending(irq, set)
             \/ \E pins \in SUBSET Pins : WriteExticr(pins)
      PROVE exti'.pr \subseteq exti.pr /\ UNCHANGED gpio
  BY <1>3 DEF EnterException, WritePending, WriteExticr
<1>4. QED BY <1>1, <1>2, <1>3, NoEdges, InputEdges, OutputEdges DEF ExtiNext, Firmware, EdgeStep

\* PR gets exactly the lines with a selected edge, whatever moves the pins.
THEOREM Edging == ASSUME Shape PROVE ExtiSpec => EdgesExact
<1>1. ExtiInv /\ ExtiInv' /\ [ExtiNext]_extiVars => [EdgeStep]_extiVars
  BY EdgeStepHolds
<1>2. QED BY <1>1, ExtiInvariance, PTL DEF ExtiSpec, EdgesExact

LEMMA AckStepHolds == ASSUME ExtiInv, ExtiNext PROVE AckStep
<1>1. ASSUME NEW e \in ExtiType, NEW raised, NEW acked, UpdateIrqs(e, raised, acked),
             exti.pr \subseteq e.pr
      PROVE exti.pr \subseteq exti'.pr
  BY <1>1 DEF UpdateIrqs
<1>2. exti \in ExtiType BY DEF ExtiInv, ExtiTypeOK, ExtiType
<1>3. ASSUME NEW lines, Raise(exti, lines) PROVE exti.pr \subseteq exti'.pr
  BY <1>2, <1>3 DEF Raise, UpdateIrqs, ExtiType
<1>4. ASSUME NEW access \in Accesses(Lines, Bytes), WriteImr(access) \/ WriteSwier(access)
      PROVE exti.pr \subseteq exti'.pr
  BY <1>2, <1>4 DEF WriteImr, WriteSwier, UpdateIrqs, ExtiType
<1>5. ASSUME NEW access \in Accesses(Pins, {}), WriteTriggers(access) \/ WriteOdr(access)
      PROVE exti.pr \subseteq exti'.pr
  BY <1>2, <1>3, <1>5 DEF WriteTriggers, UpdateIrqs, ExtiType, WriteOdr, LevelsChange
<1>6. ASSUME \/ \E irq \in Irqs : EnterException(irq)
             \/ \E irq \in Irqs, set \in BOOLEAN : WritePending(irq, set)
             \/ \E pins \in SUBSET Pins : WriteExticr(pins) \/ WriteModer(pins)
             \/ \E set, reset \in SUBSET Pins : WriteBsrr(set, reset)
             \/ \E pin \in Pins, high \in BOOLEAN : SetExternalInput(pin, high)
      PROVE exti.pr \subseteq exti'.pr
  BY <1>3, <1>6 DEF EnterException, WritePending, WriteExticr, WriteModer, WriteBsrr,
                    SetExternalInput, LevelsChange
<1>7. ASSUME NEW access \in Accesses(Lines, Bytes), WritePr(access)
      PROVE exti'.pr = exti.pr \ access.value
  BY <1>2, <1>7 DEF WritePr, Written, PrBase, UpdateIrqs, ExtiType
<1>8. QED BY <1>4, <1>5, <1>6, <1>7 DEF ExtiNext, Firmware, AckStep

\* A byte or bit-band write to PR acknowledges what it names and nothing else.
THEOREM Acknowledging == ASSUME Shape PROVE ExtiSpec => AckExact
<1>1. ExtiInv /\ [ExtiNext]_extiVars => [AckStep]_extiVars
  BY AckStepHolds
<1>2. QED BY <1>1, ExtiInvariance, PTL DEF ExtiSpec, AckExact

-----------------------------------------------------------------------------
(* USART, for any characters and any number of bytes *)

UsartInv == UsartTypeOK /\ Reception

UsartType ==
    [rx : Seq(Chars), sr : SUBSET Flags, cr1 : SUBSET Flags, dr : Chars \cup {0}]

-----------------------------------------------------------------------------
(* What the functions of the device return *)

LEMMA BytesAssociate ==
    ASSUME NEW s \in Seq(Chars), NEW t \in Seq(Chars), NEW u \in Seq(Chars)
    PROVE  (s \o t) \o u = s \o (t \o u)
BY ConcatAssociative

\* An access leaves flags only.
LEMMA WrittenFlags ==
    ASSUME NEW access \in Accesses(Flags, {}), NEW base \in SUBSET Flags
    PROVE  Written(base, access) \in SUBSET Flags
<1>1. PICK c \in {Flags} \cup {{b} : b \in Flags} :
          access \in [covers : {c}, value : SUBSET c]
  BY DEF Accesses
<1>2. c \subseteq Flags OBVIOUS
<1>3. QED BY <1>1, <1>2 DEF Written

\* updateIrq settles the pending bit.
LEMMA UpdatedSettles ==
    ASSUME NEW u \in UsartType, Updated(u)
    PROVE  /\ usart' \in UsartType /\ rxPend' \in BOOLEAN /\ overruled' \in BOOLEAN
           /\ (overruled \/ (rxPend <=> Requests(usart)))'
BY Zenon DEF Updated, Requests

\* A read of DR takes the head of the FIFO, if there is one.
LEMMA PoppedIs ==
    ASSUME NEW u \in UsartType
    PROVE  /\ Popped(u) \in UsartType
           /\ u.rx = <<>> => Popped(u).rx = <<>>
           /\ u.rx # <<>> => Popped(u).rx = Tail(u.rx)
           /\ Popped(u).rx = <<>> => Popped(u).sr = u.sr \ {"RXNE"}
           /\ Popped(u).rx # <<>> => Popped(u).sr = u.sr
<1> DEFINE rest == IF u.rx = <<>> THEN <<>> ELSE Tail(u.rx)
           flags == IF rest = <<>> THEN u.sr \ {"RXNE"} ELSE u.sr
           last == IF u.rx = <<>> THEN u.dr ELSE Head(u.rx)
<1>1. rest \in Seq(Chars) /\ flags \in SUBSET Flags /\ last \in Chars \cup {0}
  <2>1. CASE u.rx = <<>> BY <2>1 DEF UsartType
  <2>2. CASE u.rx # <<>> BY <2>2, HeadTailProperties DEF UsartType
  <2>3. QED BY <2>1, <2>2
<1> DEFINE popped == [u EXCEPT !.rx = rest]
           lowered == [popped EXCEPT !.sr = flags]
           read == [lowered EXCEPT !.dr = last]
<1>2. popped \in UsartType /\ popped.rx = rest BY <1>1 DEF UsartType
<1>3. lowered \in UsartType /\ lowered.rx = rest /\ lowered.sr = flags
  BY <1>1, <1>2 DEF UsartType
<1>4. read \in UsartType /\ read.rx = rest /\ read.sr = flags
  BY <1>1, <1>3 DEF UsartType
<1>5. Popped(u) = read BY Zenon DEF Popped
<1>6. QED BY <1>4, <1>5

-----------------------------------------------------------------------------
(* The steps *)

\* What a reset leaves.
LEMMA ResetIs ==
    /\ UsartReset \in UsartType /\ UsartReset.rx = <<>> /\ "RXNE" \notin UsartReset.sr
    /\ ~ Requests(UsartReset)
BY DEF UsartReset, UsartType, Requests, Flags

LEMMA UsartInitial == ASSUME MaxBytes \in Nat PROVE UsartInit => UsartInv
<1> SUFFICES ASSUME UsartInit PROVE UsartInv OBVIOUS
<1>1. UsartTypeOK
  <2>1. arrived \in Seq(Chars) /\ Len(arrived) <= MaxBytes /\ taken \in Seq(Chars)
    BY DEF UsartInit
  <2>2. rxPend \in BOOLEAN /\ overruled \in BOOLEAN /\ cleared \in BOOLEAN
    BY Zenon DEF UsartInit
  <2>3. usart \in UsartType BY ResetIs DEF UsartInit
  <2>4. QED BY <2>1, <2>2, <2>3, Zenon DEF UsartTypeOK, UsartType
<1>2. Reception
  <2>1. taken \o usart.rx = arrived BY ResetIs DEF UsartInit
  <2>2. QED BY <2>1, ResetIs, Zenon DEF UsartInit, Reception
<1>3. QED BY <1>1, <1>2 DEF UsartInv

LEMMA PushKeeps ==
    ASSUME MaxBytes \in Nat, UsartInv, NEW byte \in Chars, Push(byte)
    PROVE  UsartInv'
<1> DEFINE queue == Append(usart.rx, byte)
           queued == [usart EXCEPT !.rx = queue]
           u == [queued EXCEPT !.sr = usart.sr \cup {"RXNE"}]
<1>1. /\ usart \in UsartType /\ arrived \in Seq(Chars) /\ taken \in Seq(Chars)
      /\ taken \o usart.rx = arrived /\ usart.rx \in Seq(Chars)
  BY DEF UsartInv, UsartTypeOK, Reception, UsartType
<1>2. queue \in Seq(Chars) /\ queue # <<>> /\ Append(arrived, byte) \in Seq(Chars)
      /\ Len(Append(arrived, byte)) = Len(arrived) + 1
  <2>1. queue \in Seq(Chars) /\ Len(queue) = Len(usart.rx) + 1 /\ Len(usart.rx) \in Nat
    BY <1>1, AppendProperties, LenProperties
  <2>2. Append(arrived, byte) \in Seq(Chars) /\ Len(Append(arrived, byte)) = Len(arrived) + 1
    BY <1>1, AppendProperties
  <2>3. queue # <<>>
    <3>1. Len(queue) # 0 BY <2>1
    <3> HIDE DEF queue
    <3> QED BY <3>1
  <2> QED BY <2>1, <2>2, <2>3
<1>3. queued \in UsartType /\ queued.rx = queue BY <1>1, <1>2 DEF UsartType
<1>4. u \in UsartType /\ u.rx = queue /\ "RXNE" \in u.sr
  BY <1>1, <1>3 DEF UsartType, Flags
<1>5. Updated(u) /\ arrived' = Append(arrived, byte) /\ cleared' = FALSE /\ taken' = taken
      /\ Len(arrived) < MaxBytes
  BY DEF Push
<1>6. usart' = u BY <1>5 DEF Updated
<1>7. taken \o queue = Append(arrived, byte)
  <2>1. queue = usart.rx \o <<byte>> BY <1>1, AppendIsConcat
  <2>2. Append(arrived, byte) = arrived \o <<byte>> BY <1>1, AppendIsConcat
  <2>3. <<byte>> \in Seq(Chars) OBVIOUS
  <2>4. (taken \o usart.rx) \o <<byte>> = taken \o (usart.rx \o <<byte>>)
    BY <1>1, <2>3, BytesAssociate
  <2>5. QED BY <1>1, <2>1, <2>2, <2>4
<1>8. UsartTypeOK'
  <2>1. Len(arrived) \in Nat BY <1>1
  <2>2. Len(arrived') <= MaxBytes BY <1>2, <1>5, <2>1
  <2>3. arrived' \in Seq(Chars) /\ taken' \in Seq(Chars) BY <1>1, <1>2, <1>5
  <2>4. cleared' \in BOOLEAN BY <1>5
  <2>5. QED BY <1>4, <1>5, <2>2, <2>3, <2>4, UpdatedSettles, Zenon DEF UsartTypeOK, UsartType
<1>9. Reception'
  <2>1. taken' \o usart'.rx = arrived' /\ usart'.rx # <<>> /\ "RXNE" \in usart'.sr
    BY <1>2, <1>4, <1>5, <1>6, <1>7
  <2>2. (overruled \/ (rxPend <=> Requests(usart)))' BY <1>4, <1>5, UpdatedSettles
  <2>3. QED BY <2>1, <2>2, Zenon DEF Reception
<1>10. QED BY <1>8, <1>9 DEF UsartInv

LEMMA ReadDrKeeps ==
    ASSUME UsartInv, ReadDr
    PROVE  UsartInv'
<1> DEFINE u == Popped(usart)
<1>1. /\ usart \in UsartType /\ arrived \in Seq(Chars) /\ taken \in Seq(Chars)
      /\ taken \o usart.rx = arrived /\ usart.rx \in Seq(Chars)
      /\ ("RXNE" \in usart.sr => usart.rx # <<>>)
  BY DEF UsartInv, UsartTypeOK, Reception, UsartType
<1>2. Updated(u) /\ arrived' = arrived /\ cleared' = cleared
      /\ taken' = IF usart.rx = <<>> THEN taken ELSE Append(taken, Head(usart.rx))
  BY DEF ReadDr
<1>3. usart' = u BY <1>2 DEF Updated
<1>4. u \in UsartType BY <1>1, PoppedIs
<1>5. taken' \in Seq(Chars) /\ taken' \o usart'.rx = arrived'
  <2>1. CASE usart.rx = <<>> BY <1>1, <1>2, <1>3, <2>1, PoppedIs
  <2>2. CASE usart.rx # <<>>
    <3> DEFINE first == Head(usart.rx)
               rest == Tail(usart.rx)
    <3>1. first \in Chars /\ rest \in Seq(Chars) /\ usart.rx = <<first>> \o rest
      BY <1>1, <2>2, HeadTailProperties
    <3>2. taken' = taken \o <<first>> /\ <<first>> \in Seq(Chars)
      BY <1>1, <1>2, <2>2, <3>1, AppendIsConcat
    <3>3. usart'.rx = rest BY <1>1, <1>3, <2>2, PoppedIs
    <3>4. (taken \o <<first>>) \o rest = taken \o (<<first>> \o rest)
      BY <1>1, <3>1, <3>2, BytesAssociate
    <3>5. taken' \in Seq(Chars) BY <1>1, <3>2, ConcatProperties
    <3>6. QED BY <1>1, <1>2, <3>1, <3>2, <3>3, <3>4, <3>5
  <2>3. QED BY <2>1, <2>2
<1>6. UsartTypeOK'
  <2>1. arrived' \in Seq(Chars) /\ Len(arrived') <= MaxBytes /\ cleared' \in BOOLEAN
    BY <1>2, Zenon DEF UsartInv, UsartTypeOK
  <2>2. QED BY <1>2, <1>4, <1>5, <2>1, UpdatedSettles, Zenon DEF UsartTypeOK, UsartType
<1>7. Reception'
  <2>1. "RXNE" \in usart'.sr => usart'.rx # <<>>
    BY <1>1, <1>3, PoppedIs
  <2>2. usart'.rx # <<>> => "RXNE" \in usart'.sr \/ cleared'
    <3>1. ASSUME usart'.rx # <<>> PROVE usart.rx # <<>> /\ usart'.sr = usart.sr
      BY <1>1, <1>3, <3>1, PoppedIs
    <3>2. usart.rx # <<>> => "RXNE" \in usart.sr \/ cleared
      BY Zenon DEF UsartInv, Reception
    <3>3. QED BY <1>2, <3>1, <3>2, Zenon
  <2>3. (overruled \/ (rxPend <=> Requests(usart)))' BY <1>2, <1>4, UpdatedSettles
  <2>4. QED BY <1>5, <2>1, <2>2, <2>3, Zenon DEF Reception
<1>8. QED BY <1>6, <1>7 DEF UsartInv

\* A write that leaves the FIFO and the bytes, and clears no RXNE unnoticed.
LEMMA FlagsKeep ==
    ASSUME UsartInv, NEW u \in UsartType, Updated(u), u.rx = usart.rx,
           "RXNE" \in u.sr => "RXNE" \in usart.sr,
           cleared' \in BOOLEAN, cleared => cleared',
           "RXNE" \in usart.sr => "RXNE" \in u.sr \/ cleared',
           UNCHANGED <<arrived, taken>>
    PROVE  UsartInv'
<1>1. usart' = u BY DEF Updated
<1>2. (overruled \/ (rxPend <=> Requests(usart)))' BY UpdatedSettles
<1>3. UsartTypeOK'
  <2>1. arrived' \in Seq(Chars) /\ Len(arrived') <= MaxBytes /\ taken' \in Seq(Chars)
    BY DEF UsartInv, UsartTypeOK
  <2>2. QED BY <2>1, UpdatedSettles, Zenon DEF UsartTypeOK, UsartType
<1>4. taken' \o usart'.rx = arrived'
  BY <1>1 DEF UsartInv, Reception
<1>5. ("RXNE" \in usart.sr => usart.rx # <<>>)
      /\ (usart.rx # <<>> => "RXNE" \in usart.sr \/ cleared)
  BY Zenon DEF UsartInv, Reception
<1>6. ("RXNE" \in usart'.sr => usart'.rx # <<>>)
      /\ (usart'.rx # <<>> => "RXNE" \in usart'.sr \/ cleared')
  BY <1>1, <1>5, Zenon
<1>7. Reception' BY <1>2, <1>4, <1>6, Zenon DEF Reception
<1>8. QED BY <1>3, <1>7 DEF UsartInv

LEMMA WriteSrKeeps ==
    ASSUME UsartInv, NEW access \in Accesses(Flags, {}), WriteSr(access)
    PROVE  UsartInv'
<1> DEFINE zeros == WriteZero \ Written(Flags, access)
           u == [usart EXCEPT !.sr = @ \ zeros]
<1>1. usart \in UsartType /\ cleared \in BOOLEAN BY DEF UsartInv, UsartTypeOK, UsartType
<1>2. u \in UsartType /\ u.rx = usart.rx /\ u.sr = usart.sr \ zeros
  BY <1>1 DEF UsartType
<1>3. Updated(u) /\ cleared' = (cleared \/ "RXNE" \in zeros) /\ UNCHANGED <<arrived, taken>>
  BY DEF WriteSr
<1>4. cleared' \in BOOLEAN /\ (cleared => cleared') /\ ("RXNE" \in zeros => cleared')
  BY <1>1, <1>3, Zenon
<1>5. "RXNE" \in usart.sr => "RXNE" \in u.sr \/ "RXNE" \in zeros BY <1>2
<1>6. "RXNE" \in u.sr => "RXNE" \in usart.sr BY <1>2
<1>7. "RXNE" \in usart.sr => "RXNE" \in u.sr \/ cleared' BY <1>4, <1>5, Zenon
<1>8. QED BY <1>2, <1>3, <1>4, <1>6, <1>7, FlagsKeep

LEMMA WriteDrKeeps ==
    ASSUME UsartInv, NEW byte \in Chars, WriteDr(byte)
    PROVE  UsartInv'
<1> DEFINE u == [usart EXCEPT !.dr = byte, !.sr = @ \cup {"TC", "TXE"}]
           sent == [usart EXCEPT !.dr = byte]
<1>1. usart \in UsartType /\ cleared \in BOOLEAN BY DEF UsartInv, UsartTypeOK, UsartType
<1>2. /\ sent \in UsartType /\ sent.rx = usart.rx /\ sent.sr = usart.sr
      /\ u = [sent EXCEPT !.sr = usart.sr \cup {"TC", "TXE"}]
  BY <1>1 DEF UsartType
<1>3. u \in UsartType /\ u.rx = usart.rx /\ ("RXNE" \in u.sr <=> "RXNE" \in usart.sr)
  BY <1>1, <1>2 DEF UsartType, Flags
<1>4. Updated(u) /\ cleared' = cleared /\ UNCHANGED <<arrived, taken>>
  BY DEF WriteDr, DrBase
<1>5. cleared' \in BOOLEAN /\ (cleared => cleared') BY <1>1, <1>4, Zenon
<1>6. QED BY <1>3, <1>4, <1>5, FlagsKeep

LEMMA WriteCr1Keeps ==
    ASSUME UsartInv, NEW access \in Accesses(Flags, {}), WriteCr1(access)
    PROVE  UsartInv'
<1> DEFINE u == [usart EXCEPT !.cr1 = Written(@, access)]
<1>1. usart \in UsartType /\ cleared \in BOOLEAN BY DEF UsartInv, UsartTypeOK, UsartType
<1>2. Written(usart.cr1, access) \in SUBSET Flags
  BY <1>1, WrittenFlags DEF UsartType
<1>3. u \in UsartType /\ u.rx = usart.rx /\ u.sr = usart.sr
  BY <1>1, <1>2 DEF UsartType
<1>4. Updated(u) /\ cleared' = cleared /\ UNCHANGED <<arrived, taken>>
  BY DEF WriteCr1
<1>5. cleared' \in BOOLEAN /\ (cleared => cleared') BY <1>1, <1>4, Zenon
<1>6. QED BY <1>3, <1>4, <1>5, FlagsKeep

\* The NVIC's side changes the pending bit only, and says so.
LEMMA OverruledKeeps ==
    ASSUME UsartInv, EnterUsart \/ \E set \in BOOLEAN : WriteUsartPending(set)
    PROVE  UsartInv'
<1>1. rxPend' \in BOOLEAN /\ overruled' = TRUE /\ UNCHANGED <<usart, arrived, taken, cleared>>
  BY Zenon DEF EnterUsart, WriteUsartPending
<1>2. UsartTypeOK' BY <1>1, Zenon DEF UsartInv, UsartTypeOK
<1>3. Reception' BY <1>1, Zenon DEF UsartInv, Reception
<1>4. QED BY <1>2, <1>3 DEF UsartInv

LEMMA UsartResetKeeps == ASSUME MaxBytes \in Nat, ResetUsart PROVE UsartInv'
<1>1. UsartTypeOK'
  <2>1. arrived' \in Seq(Chars) /\ Len(arrived') <= MaxBytes /\ taken' \in Seq(Chars)
    BY DEF ResetUsart
  <2>2. rxPend' \in BOOLEAN /\ overruled' \in BOOLEAN /\ cleared' \in BOOLEAN
    BY Zenon DEF ResetUsart
  <2>3. usart' \in UsartType BY ResetIs DEF ResetUsart
  <2>4. QED BY <2>1, <2>2, <2>3, Zenon DEF UsartTypeOK, UsartType
<1>2. Reception'
  <2>1. taken' \o usart'.rx = arrived' BY ResetIs DEF ResetUsart
  <2>2. QED BY <2>1, ResetIs, Zenon DEF ResetUsart, Reception, Requests
<1>3. QED BY <1>1, <1>2 DEF UsartInv

LEMMA UsartStep ==
    ASSUME MaxBytes \in Nat, UsartInv, [UsartNext]_usartVars
    PROVE  UsartInv'
<1>1. CASE \E byte \in Chars : Push(byte) BY <1>1, PushKeeps
<1>2. CASE \E byte \in Chars : WriteDr(byte) BY <1>2, WriteDrKeeps
<1>3. CASE ReadDr BY <1>3, ReadDrKeeps
<1>4. CASE \E access \in Accesses(Flags, {}) : WriteSr(access) BY <1>4, WriteSrKeeps
<1>5. CASE \E access \in Accesses(Flags, {}) : WriteCr1(access) BY <1>5, WriteCr1Keeps
<1>6. CASE EnterUsart \/ \E set \in BOOLEAN : WriteUsartPending(set)
  BY <1>6, OverruledKeeps
<1>7. CASE ResetUsart BY <1>7, UsartResetKeeps
<1>8. CASE UNCHANGED usartVars
  <2>1. UsartTypeOK' BY <1>8, Zenon DEF usartVars, UsartInv, UsartTypeOK
  <2>2. Reception' BY <1>8, Zenon DEF usartVars, UsartInv, Reception, Requests
  <2>3. QED BY <2>1, <2>2 DEF UsartInv
<1>9. QED BY <1>1, <1>2, <1>3, <1>4, <1>5, <1>6, <1>7, <1>8 DEF UsartNext

-----------------------------------------------------------------------------

LEMMA UsartInductive == ASSUME MaxBytes \in Nat PROVE UsartSpec => []UsartInv
<1>1. UsartInit => UsartInv BY UsartInitial DEF UsartTypeOK
<1>2. UsartInv /\ [UsartNext]_usartVars => UsartInv' BY UsartStep
<1>3. QED BY <1>1, <1>2, PTL DEF UsartSpec

\* The registers, the FIFO and the histories have their types.
THEOREM UsartTypeCorrect == ASSUME MaxBytes \in Nat PROVE UsartSpec => []UsartTypeOK
<1>1. UsartInv => UsartTypeOK BY DEF UsartInv
<1>2. QED BY <1>1, UsartInductive, PTL

\* No byte is lost, repeated or swapped, whoever reads DR, and the interrupt
\* stays pending while a byte that asks for it waits.
THEOREM Receiving == ASSUME MaxBytes \in Nat PROVE UsartSpec => []Reception
<1>1. UsartInv => Reception BY DEF UsartInv
<1>2. QED BY <1>1, UsartInductive, PTL

=============================================================================
