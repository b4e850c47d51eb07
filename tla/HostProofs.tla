----------------------------- MODULE HostProofs -----------------------------
(***************************************************************************)
(* Proofs about what runs beside the machine: the Worker's real-time pacer  *)
(* (Pacer), the cached library of a build (LibCache) and the project's      *)
(* files (ProjectFiles).  They share no state and no lemma.                 *)
(***************************************************************************)
EXTENDS Pacer, LibCache, ProjectFiles, SequenceTheorems, TLAPS

-----------------------------------------------------------------------------
(* Real-time pacing, for any clocks, speeds and times *)

LEMMA Quotient ==
  ASSUME NEW a \in Nat, NEW d \in Nat \ {0}
  PROVE  a \div d \in Nat /\ a % d \in 0 .. d - 1 /\ a = d * (a \div d) + (a % d)
<1>1. a \div d \in Int /\ a % d \in 0 .. d - 1 OBVIOUS
<1>2. a = d * (a \div d) + (a % d) OBVIOUS
<1>3. a \div d >= 0
  <2> DEFINE p == a \div d
  <2>1. p \in Int /\ a < d * p + d BY <1>1, <1>2
  <2> HIDE DEF p
  <2>2. p <= -1 => d * p <= 0 - d BY <2>1
  <2>3. d * p \in Int BY <2>1
  <2>4. p >= 0 BY <2>1, <2>2, <2>3
  <2> QED BY <2>4 DEF p
<1> QED BY <1>1, <1>2, <1>3

\* Division is monotonic.
LEMMA QuotientMonotone ==
  ASSUME NEW a \in Nat, NEW b \in Nat, a <= b, NEW d \in Nat \ {0}
  PROVE  a \div d <= b \div d
<1> DEFINE p == a \div d
           r == a % d
           q == b \div d
           s == b % d
<1>1. p \in Int /\ r \in 0 .. d - 1 /\ a = d * p + r BY Quotient
<1>2. q \in Int /\ s \in 0 .. d - 1 /\ b = d * q + s BY Quotient
<1> HIDE DEF p, q, r, s
<1>3. p >= q + 1 => d * p >= d * q + d
  <2>1. d * (q + 1) = d * q + d BY <1>2
  <2>2. p >= q + 1 => d * p >= d * (q + 1) BY <1>1, <1>2
  <2> QED BY <2>1, <2>2
<1>4. d * p \in Int /\ d * q \in Int BY <1>1, <1>2
<1>5. p <= q BY <1>1, <1>2, <1>3, <1>4
<1> QED BY <1>5 DEF p, q

\* A sum has at most one more than its terms.
LEMMA QuotientSum ==
  ASSUME NEW a \in Nat, NEW b \in Nat, NEW d \in Nat \ {0}
  PROVE  (a + b) \div d <= (a \div d) + (b \div d) + 1
<1> DEFINE p == a \div d
           r == a % d
           q == b \div d
           s == b % d
           u == (a + b) \div d
           v == (a + b) % d
<1>1. p \in Int /\ r \in 0 .. d - 1 /\ a = d * p + r BY Quotient
<1>2. q \in Int /\ s \in 0 .. d - 1 /\ b = d * q + s BY Quotient
<1>3. u \in Int /\ v \in 0 .. d - 1 /\ a + b = d * u + v
  <2> DEFINE c == a + b
  <2>1. c \in Nat OBVIOUS
  <2> HIDE DEF c
  <2>2. c \div d \in Nat /\ c % d \in 0 .. d - 1 /\ c = d * (c \div d) + (c % d) BY <2>1, Quotient
  <2> QED BY <2>2 DEF c
<1> HIDE DEF p, q, r, s, u, v
<1>4. u >= p + q + 2 => d * u >= d * p + d * q + 2 * d
  <2> DEFINE w == p + q + 2
  <2>1. w \in Int BY <1>1, <1>2
  <2>2. d * w = d * p + d * q + 2 * d BY <1>1, <1>2
  <2> HIDE DEF w
  <2>3. u >= w => d * u >= d * w BY <1>3, <2>1
  <2> QED BY <2>2, <2>3 DEF w
<1>5. d * p \in Int /\ d * q \in Int /\ d * u \in Int BY <1>1, <1>2, <1>3
<1>6. u <= p + q + 1 BY <1>1, <1>2, <1>3, <1>4, <1>5
<1> QED BY <1>6 DEF p, q, u

\* The quotient is what multiplies back with a remainder.
LEMMA QuotientIs ==
  ASSUME NEW d \in Nat \ {0}, NEW q \in Nat, NEW r \in 0 .. d - 1
  PROVE  (d * q + r) \div d = q
<1> DEFINE a == d * q + r
           p == a \div d
           s == a % d
<1>1. a \in Nat /\ d * q \in Int OBVIOUS
<1>2. p \in Int /\ s \in 0 .. d - 1 /\ a = d * p + s
  <2>1. a \in Nat BY <1>1
  <2> HIDE DEF a
  <2> QED BY <2>1, Quotient
<1>3. d * (p - q) = r - s
  BY <1>2
<1>4. p - q = 0
  <2> DEFINE e == p - q
  <2>1. e \in Int /\ d * e = r - s BY <1>2, <1>3
  <2>2. r - s < d /\ r - s > 0 - d BY <1>2
  <2> HIDE DEF e
  <2>3. e >= 1 => d * e >= d BY <2>1
  <2>4. e <= -1 => d * e <= 0 - d BY <2>1
  <2>5. e = 0 BY <2>1, <2>2, <2>3, <2>4
  <2> QED BY <2>5 DEF e
<1> QED BY <1>2, <1>4

-----------------------------------------------------------------------------

\* While HCLK stays, the emulated time and the fraction account for every cycle.
ExactTime == spent # None => pacer.frac < hz /\ spent * Second = hz * pacer.emu + pacer.frac

\* The worker waits for no less than the time it is ahead.
WaitsOut == ~ Unlimited => Target(pacer.emu) - pacer.real <= wait

NotLate == ~ Unlimited => pacer.real - Target(pacer.emu) <= MaxLag

NotFarAhead == ~ Unlimited /\ pacer.emu > 0 => \E h, g \in Hclks : wait <= Longest(h, g)

PInv == PacerTypeOK /\ ExactTime /\ WaitsOut /\ NotLate /\ NotFarAhead

PacerType == [real : Nat, emu : Nat, frac : Nat]

LEMMA PacerFacts ==
  ASSUME PacerAssumption, PacerTypeOK
  PROVE  /\ Second \in Nat \ {0} /\ Resolution \in Nat \ {0} /\ ChunkTime \in Nat /\ MaxLag \in Nat
         /\ Least \in Nat /\ Most \in Nat /\ Unpaced \in Nat /\ MaxReal \in Nat
         /\ hz \in Hclks /\ Hclks \subseteq Nat \ {0}
         /\ speed[1] \in Nat /\ speed[2] \in Nat \ {0}
         /\ wait \in Nat
         /\ pacer.real \in Nat /\ pacer.emu \in Nat /\ pacer.frac \in Nat
         /\ \E h \in Hclks : pacer.frac < h
<1>1. hz \in Hclks /\ Hclks \subseteq Nat \ {0} /\ wait \in Nat
  BY DEF PacerAssumption, PacerTypeOK
<1>2. speed \in Nat \X (Nat \ {0})
  BY DEF PacerAssumption, PacerTypeOK
<1>3. pacer.real \in Nat /\ pacer.emu \in Nat /\ pacer.frac \in Nat
  BY DEF PacerTypeOK
<1>4. \E h \in Hclks : pacer.frac < h
  BY <1>1, <1>3 DEF PacerTypeOK
<1>5. /\ Second \in Nat \ {0} /\ Resolution \in Nat \ {0} /\ ChunkTime \in Nat /\ MaxLag \in Nat
      /\ Least \in Nat /\ Most \in Nat /\ Unpaced \in Nat /\ MaxReal \in Nat
  BY DEF PacerAssumption
<1> QED BY <1>1, <1>2, <1>3, <1>4, <1>5

\* Targets of a speed that is limited.
LEMMA TargetFacts ==
  ASSUME NEW s \in Nat \ {0}, NEW t \in Nat \ {0}, NEW a \in Nat, NEW b \in Nat
  PROVE  /\ (a * t) \div s \in Nat
         /\ a <= b => (a * t) \div s <= (b * t) \div s
         /\ ((a + b) * t) \div s <= ((a * t) \div s) + ((b * t) \div s) + 1
         /\ (0 * t) \div s = 0
<1> DEFINE x == a * t
           y == b * t
<1>1. x \in Nat /\ y \in Nat /\ (a <= b => x <= y) /\ (a + b) * t = x + y /\ 0 * t = 0
  OBVIOUS
<1> HIDE DEF x, y
<1>2. x \div s \in Nat
  BY <1>1, Quotient
<1>3. a <= b => x \div s <= y \div s
  BY <1>1, QuotientMonotone
<1>4. (x + y) \div s <= (x \div s) + (y \div s) + 1
  BY <1>1, QuotientSum
<1>5. 0 \div s = 0
  OBVIOUS
<1> QED BY <1>1, <1>2, <1>3, <1>4, <1>5 DEF x, y

\* The sleep is the wait without less than one step of the timer.
LEMMA SleepFacts ==
  ASSUME PacerAssumption, PacerTypeOK
  PROVE  Sleep \in Nat /\ Sleep <= wait /\ wait - Sleep < Resolution
<1>1. wait \in Nat /\ Resolution \in Nat \ {0}
  BY PacerFacts
<1> DEFINE q == wait \div Resolution
           r == wait % Resolution
<1>2. q \in Nat /\ r \in 0 .. Resolution - 1 /\ wait = Resolution * q + r
  BY <1>1, Quotient
<1>3. Sleep = Resolution * q
  BY DEF Sleep
<1> HIDE DEF q, r
<1>4. Resolution * q \in Nat
  BY <1>1, <1>2
<1> QED BY <1>1, <1>2, <1>3, <1>4

LEMMA ChunkFacts ==
  ASSUME PacerAssumption, PacerTypeOK, NEW h \in Hclks
  PROVE  ChunkInstructions(h) \in Nat
<1>1. /\ h \in Nat /\ Second \in Nat \ {0} /\ ChunkTime \in Nat /\ Least \in Nat /\ Most \in Nat
      /\ Unpaced \in Nat /\ speed[1] \in Nat /\ speed[2] \in Nat \ {0}
  BY PacerFacts
<1> DEFINE a == h * speed[1] * ChunkTime
           d == speed[2] * Second
           n == a \div d
<1>2. a \in Nat /\ d \in Nat \ {0}
  <2> DEFINE x == speed[1]
             y == speed[2]
  <2>1. x \in Nat /\ y \in Nat \ {0} BY <1>1
  <2> HIDE DEF x, y
  <2>2. h * x \in Nat BY <1>1, <2>1
  <2>3. h * x * ChunkTime \in Nat /\ y * Second \in Nat \ {0} BY <1>1, <2>1, <2>2
  <2> QED BY <2>3 DEF x, y
<1> HIDE DEF a, d
<1>3. n \in Int
  BY <1>2
<1> HIDE DEF n
<1>4. Clamped(n) \in Nat
  BY <1>1, <1>3 DEF Clamped
<1>5. ChunkInstructions(h) = IF Unlimited THEN Unpaced ELSE Clamped(n)
  BY DEF ChunkInstructions, n, a, d
<1> QED BY <1>1, <1>4, <1>5

\* What advance makes of the cycles.
LEMMA CountedFacts ==
  ASSUME PacerAssumption, PInv, NEW cycles \in Nat
  PROVE  LET p == Counted(cycles)
             d == (cycles * Second + pacer.frac) \div hz IN
         /\ p \in [real : 0..MaxReal, emu : Nat, frac : Nat] /\ d \in Nat
         /\ p.real = pacer.real /\ p.emu = pacer.emu + d /\ p.frac < hz
         /\ spent # None => (spent + cycles) * Second = hz * p.emu + p.frac
<1> DEFINE scaled == cycles * Second + pacer.frac
           d == scaled \div hz
           r == scaled % hz
           p == Counted(cycles)
<1>1. /\ Second \in Nat /\ hz \in Nat \ {0} /\ pacer.frac \in Nat /\ pacer.emu \in Nat
  BY PacerFacts DEF PInv
<1>2. scaled \in Nat /\ cycles * Second \in Nat
  BY <1>1
<1>3. d \in Nat /\ r \in 0 .. hz - 1 /\ scaled = hz * d + r
  BY <1>1, <1>2, Quotient
<1>4. p = [pacer EXCEPT !.emu = @ + d, !.frac = r]
  BY DEF Counted
<1> HIDE DEF d, r
<1>5. /\ p \in [real : 0..MaxReal, emu : Nat, frac : Nat]
      /\ p.real = pacer.real /\ p.emu = pacer.emu + d /\ p.frac = r
  <2>1. pacer \in [real : 0..MaxReal, emu : Nat, frac : Nat] BY DEF PInv, PacerTypeOK
  <2>2. pacer.emu + d \in Nat /\ r \in Nat BY <1>1, <1>3
  <2> HIDE DEF p
  <2> QED BY <1>4, <2>1, <2>2
<1>6. ASSUME spent # None PROVE (spent + cycles) * Second = hz * p.emu + p.frac
  <2>1. spent * Second = hz * pacer.emu + pacer.frac /\ spent \in Nat
    BY <1>6 DEF PInv, ExactTime, PacerTypeOK
  <2>2. (spent + cycles) * Second = spent * Second + cycles * Second
    BY <1>1, <2>1
  <2>3. hz * (pacer.emu + d) = hz * pacer.emu + hz * d /\ hz * pacer.emu \in Nat /\ hz * d \in Nat
    BY <1>1, <1>3
  <2>4. spent * Second \in Nat
    BY <1>1, <2>1
  <2>5. hz * p.emu = hz * (pacer.emu + d)
    BY <1>5
  <2> HIDE DEF p
  <2> DEFINE x == spent * Second
             y == cycles * Second
             e == hz * pacer.emu
             f == hz * d
  <2>6. x = e + pacer.frac /\ y + pacer.frac = f + r /\ hz * p.emu = e + f
    BY <1>3, <2>1, <2>3, <2>5
  <2>7. x \in Nat /\ y \in Nat /\ e \in Nat /\ f \in Nat /\ r \in Nat /\ pacer.frac \in Nat
    BY <1>1, <1>2, <1>3, <2>3, <2>4
  <2>8. (spent + cycles) * Second = x + y
    BY <2>2
  <2> HIDE DEF x, y, e, f
  <2> QED BY <1>5, <2>6, <2>7, <2>8
<1>7. p.frac < hz
  BY <1>1, <1>3, <1>5
<1> HIDE DEF p
<1> QED BY <1>3, <1>5, <1>6, <1>7 DEF d, p

\* A chunk has at most the time of its instructions and of the fraction.
LEMMA TimeOfChunk ==
  ASSUME PacerAssumption, PInv, NEW cycles \in Nat, cycles <= ChunkInstructions(hz),
         NEW g \in Hclks, pacer.frac < g
  PROVE  (cycles * Second + pacer.frac) \div hz <= (ChunkInstructions(hz) * Second + g) \div hz
<1> DEFINE n == ChunkInstructions(hz)
           x == cycles * Second
           y == n * Second
<1>1. /\ Second \in Nat /\ hz \in Nat \ {0} /\ hz \in Hclks /\ pacer.frac \in Nat /\ g \in Nat
  BY PacerFacts DEF PInv
<1>2. n \in Nat
  BY <1>1, ChunkFacts DEF PInv
<1> HIDE DEF n
<1>3. x \in Nat /\ y \in Nat /\ x <= y
  BY <1>1, <1>2 DEF n
<1> HIDE DEF x, y
<1>4. x + pacer.frac \in Nat /\ y + g \in Nat /\ x + pacer.frac <= y + g
  BY <1>1, <1>3
<1>5. (x + pacer.frac) \div hz <= (y + g) \div hz
  <2> DEFINE a == x + pacer.frac
             b == y + g
  <2>1. a \in Nat /\ b \in Nat /\ a <= b
    BY <1>4
  <2> HIDE DEF a, b
  <2>2. a \div hz <= b \div hz
    BY <1>1, <2>1, QuotientMonotone
  <2> QED BY <2>2 DEF a, b
<1> QED BY <1>5 DEF x, y, n

\* After a tick the wait is short enough and long enough.
LEMMA WaitAfterTick ==
  ASSUME PacerAssumption, PInv, ~ Unlimited, NEW cycles \in Nat, NEW delay \in Nat,
         cycles <= ChunkInstructions(hz)
  PROVE  LET p == Counted(cycles)
             real == p.real + Sleep + delay
         IN  /\ Target(p.emu) \in Nat /\ real \in Nat
             /\ \E g \in Hclks : Target(p.emu) - real <= Longest(hz, g)
<1> DEFINE p == Counted(cycles)
           d == (cycles * Second + pacer.frac) \div hz
           real == p.real + Sleep + delay
           sp == speed[1]
           sq == speed[2]
<1>1. /\ p.real = pacer.real /\ p.emu = pacer.emu + d /\ d \in Nat
      /\ p \in [real : 0..MaxReal, emu : Nat, frac : Nat]
  BY CountedFacts
<1>2. /\ sp \in Nat \ {0} /\ sq \in Nat \ {0} /\ hz \in Hclks /\ hz \in Nat \ {0}
      /\ Second \in Nat /\ Resolution \in Nat
      /\ pacer.real \in Nat /\ pacer.emu \in Nat /\ wait \in Nat
  BY PacerFacts DEF PInv, Unlimited
<1>3. PICK g \in Hclks : pacer.frac < g
  BY PacerFacts DEF PInv
<1> DEFINE most == (ChunkInstructions(hz) * Second + g) \div hz
<1>4. d <= most
  BY <1>3, TimeOfChunk
<1>5. most \in Nat
  <2> DEFINE n == ChunkInstructions(hz)
             s == n * Second + g
  <2>1. n \in Nat /\ g \in Nat
    BY <1>2, ChunkFacts, PacerFacts DEF PInv
  <2>2. s \in Nat
    <3> HIDE DEF n
    <3> QED BY <1>2, <2>1
  <2> HIDE DEF s
  <2>3. s \div hz \in Nat
    BY <1>2, <2>2, Quotient
  <2> QED BY <2>3 DEF s
<1>6. Sleep \in Nat /\ wait - Sleep < Resolution
  BY SleepFacts DEF PInv
<1>7. Target(pacer.emu) - pacer.real <= wait
  BY DEF PInv, WaitsOut
<1>8. \A e : Target(e) = (e * sq) \div sp
  BY DEF Target
<1>9. Longest(hz, g) = Resolution + Target(most)
  BY DEF Longest
<1> HIDE DEF d, most, sp, sq, p
<1>10. /\ Target(p.emu) \in Nat /\ Target(pacer.emu) \in Nat /\ Target(d) \in Nat /\ Target(most) \in Nat
       /\ Target(p.emu) <= Target(pacer.emu) + Target(d) + 1
       /\ Target(d) <= Target(most)
  <2>1. p.emu \in Nat
    BY <1>1
  <2>2. \A a \in Nat : Target(a) \in Nat
    BY <1>2, <1>8, TargetFacts
  <2>3. \A a, b \in Nat : Target(a + b) <= Target(a) + Target(b) + 1 /\ (a <= b => Target(a) <= Target(b))
    BY <1>2, <1>8, TargetFacts
  <2> QED BY <1>1, <1>2, <1>4, <1>5, <2>1, <2>2, <2>3
<1>11. real \in Nat /\ real = pacer.real + Sleep + delay
  BY <1>1, <1>2, <1>6
<1> HIDE DEF real
<1>12. Target(p.emu) - real <= Longest(hz, g)
  BY <1>2, <1>6, <1>7, <1>9, <1>10, <1>11
<1> QED BY <1>10, <1>11, <1>12 DEF p, real

LEMMA LongestIsNat ==
  ASSUME PacerAssumption, PacerTypeOK, ~ Unlimited, NEW h \in Hclks, NEW g \in Hclks
  PROVE  Longest(h, g) \in Nat
<1> DEFINE n == ChunkInstructions(h)
           s == n * Second + g
           d == s \div h
<1>1. /\ n \in Nat /\ Second \in Nat /\ g \in Nat /\ h \in Nat \ {0} /\ Resolution \in Nat
      /\ speed[1] \in Nat \ {0} /\ speed[2] \in Nat \ {0}
  BY PacerFacts, ChunkFacts DEF Unlimited
<1>2. s \in Nat
  <2> HIDE DEF n
  <2> QED BY <1>1
<1>3. Longest(h, g) = Resolution + (d * speed[2]) \div speed[1]
  BY DEF Longest, Target
<1> HIDE DEF s
<1>4. d \in Nat
  BY <1>1, <1>2, Quotient
<1> HIDE DEF d
<1>5. (d * speed[2]) \div speed[1] \in Nat
  <2> DEFINE x == speed[1]
             y == speed[2]
  <2>1. x \in Nat \ {0} /\ y \in Nat \ {0} BY <1>1
  <2> HIDE DEF x, y
  <2>2. (d * y) \div x \in Nat BY <1>4, <2>1, TargetFacts
  <2> QED BY <2>2 DEF x, y
<1> QED BY <1>1, <1>3, <1>5

LEMMA TickKeeps ==
  ASSUME PacerAssumption, PInv, NEW cycles \in 0..Most, NEW delay \in Delays, Tick(cycles, delay)
  PROVE  PInv'
<1> DEFINE p == Counted(cycles)
           real == p.real + Sleep + delay
           lag == real - Target(p.emu)
<1>1. cycles \in Nat /\ delay \in Nat
  BY DEF PacerAssumption
<1>2. /\ p \in [real : 0..MaxReal, emu : Nat, frac : Nat] /\ p.frac < hz
      /\ spent # None => (spent + cycles) * Second = hz * p.emu + p.frac
  BY <1>1, CountedFacts
<1>3. /\ cycles <= ChunkInstructions(hz) /\ real <= MaxReal
      /\ IF Unlimited THEN pacer' = [p EXCEPT !.real = real] /\ wait' = 0
         ELSE IF Target(p.emu) > real
         THEN pacer' = [p EXCEPT !.real = real] /\ wait' = Target(p.emu) - real
         ELSE pacer' = [p EXCEPT !.real = IF lag > MaxLag THEN Target(p.emu) ELSE real] /\ wait' = 0
      /\ spent' = (IF spent = None THEN None ELSE spent + cycles)
      /\ speed' = speed /\ hz' = hz
  BY DEF Tick
<1>4. Sleep \in Nat /\ hz \in Hclks /\ hz \in Nat \ {0} /\ MaxReal \in Nat /\ MaxLag \in Nat /\ p.real \in Nat
  BY <1>2, SleepFacts, PacerFacts DEF PInv
<1>5. real \in Nat
  BY <1>1, <1>4
<1> HIDE DEF p, real
<1>6. spent' \in Nat \cup {None} /\ (spent' # None => spent # None /\ spent' = spent + cycles)
  BY <1>1, <1>3 DEF PInv, PacerTypeOK, None
<1>7. ASSUME pacer' \in [real : 0..MaxReal, emu : Nat, frac : Nat], pacer'.emu = p.emu, pacer'.frac = p.frac,
             wait' \in Nat
      PROVE  PacerTypeOK' /\ ExactTime'
  <2>1. pacer'.frac \in 0..hz' - 1 /\ hz' \in Hclks
    BY <1>2, <1>3, <1>4, <1>7
  <2>2. PacerTypeOK'
    BY <1>3, <1>6, <1>7, <2>1 DEF PacerTypeOK, PInv
  <2>3. ASSUME spent' # None PROVE spent' * Second = hz' * pacer'.emu + pacer'.frac
    <3>1. spent' = spent + cycles /\ spent # None
      BY <1>6, <2>3
    <3>2. (spent + cycles) * Second = hz * p.emu + p.frac
      BY <1>2, <3>1
    <3> QED BY <1>3, <1>7, <3>1, <3>2
  <2> QED BY <1>2, <1>3, <1>7, <2>2, <2>3 DEF ExactTime
<1>8. CASE Unlimited
  <2>1. pacer' = [p EXCEPT !.real = real] /\ wait' = 0
    BY <1>3, <1>8
  <2>2. pacer' \in [real : 0..MaxReal, emu : Nat, frac : Nat] /\ pacer'.emu = p.emu /\ pacer'.frac = p.frac
    BY <1>2, <1>3, <1>4, <1>5, <2>1
  <2>3. Unlimited'
    BY <1>3, <1>8 DEF Unlimited
  <2> QED BY <1>7, <2>1, <2>2, <2>3 DEF PInv, WaitsOut, NotLate, NotFarAhead
<1>9. CASE ~ Unlimited
  <2> DEFINE t == Target(p.emu)
  <2>1. t \in Nat /\ \E g \in Hclks : t - real <= Longest(hz, g)
    BY <1>1, <1>3, <1>9, WaitAfterTick DEF p, real
  <2>2. pacer'.emu = p.emu => Target(pacer.emu)' = t
    BY <1>3 DEF Target
  <2>3. ~ Unlimited' /\ \A h, g : Longest(h, g)' = Longest(h, g)
    BY <1>3, <1>9 DEF Target, Longest, ChunkInstructions, Clamped, Unlimited
  <2> HIDE DEF t
  <2>4. ASSUME pacer' \in [real : 0..MaxReal, emu : Nat, frac : Nat], pacer'.emu = p.emu, pacer'.frac = p.frac,
               wait' \in Nat, t - pacer'.real <= wait', pacer'.real - t <= MaxLag,
               wait' <= 0 \/ wait' <= t - real
        PROVE  PInv'
    <3>1. PacerTypeOK' /\ ExactTime'
      BY <1>7, <2>4
    <3>2. WaitsOut' /\ NotLate'
      BY <2>2, <2>4 DEF WaitsOut, NotLate
    <3>3. \E g \in Hclks : wait' <= Longest(hz, g)
      <4>1. CASE wait' <= t - real
        <5>1. PICK g \in Hclks : t - real <= Longest(hz, g)
          BY <2>1
        <5>2. Longest(hz, g) \in Nat
          BY <5>1, LongestIsNat, <1>4, <1>9 DEF PInv
        <5> QED BY <1>5, <2>1, <2>4, <4>1, <5>1, <5>2
      <4>2. CASE wait' <= 0
        <5>1. Longest(hz, hz) \in Nat
          BY LongestIsNat, <1>4, <1>9 DEF PInv
        <5> QED BY <1>4, <2>4, <4>2, <5>1
      <4> QED BY <2>4, <4>1, <4>2
    <3>4. NotFarAhead'
      BY <1>3, <1>4, <2>3, <3>3 DEF NotFarAhead
    <3> QED BY <3>1, <3>2, <3>4 DEF PInv
  <2>5. CASE t > real
    <3>1. pacer' = [p EXCEPT !.real = real] /\ wait' = t - real
      BY <1>3, <1>9, <2>5 DEF t
    <3>2. /\ pacer' \in [real : 0..MaxReal, emu : Nat, frac : Nat]
          /\ pacer'.real = real /\ pacer'.emu = p.emu /\ pacer'.frac = p.frac
      BY <1>2, <1>3, <1>4, <1>5, <3>1
    <3> QED BY <1>4, <1>5, <2>1, <2>4, <2>5, <3>1, <3>2
  <2>6. CASE ~ (t > real)
    <3> DEFINE r == IF lag > MaxLag THEN t ELSE real
    <3>1. pacer' = [p EXCEPT !.real = r] /\ wait' = 0
      BY <1>3, <1>9, <2>6 DEF t
    <3>2. r \in Nat /\ r <= real /\ r - t <= MaxLag /\ t <= r
      BY <1>4, <1>5, <2>1, <2>6 DEF t
    <3> HIDE DEF r
    <3>3. /\ pacer' \in [real : 0..MaxReal, emu : Nat, frac : Nat]
          /\ pacer'.real = r /\ pacer'.emu = p.emu /\ pacer'.frac = p.frac
      BY <1>2, <1>3, <1>4, <1>5, <3>1, <3>2
    <3> QED BY <1>4, <2>1, <2>4, <3>1, <3>2, <3>3
  <2> QED BY <2>5, <2>6
<1> QED BY <1>8, <1>9

\* At an anchor everything starts anew.
LEMMA AnchorKeeps ==
  ASSUME PacerAssumption, PInv, pacer' = Anchored, wait' \in Nat, spent' = 0, hz' = hz, speed' \in Speeds
  PROVE  PInv'
<1>1. /\ pacer'.real = 0 /\ pacer'.emu = 0 /\ pacer'.frac = 0
      /\ pacer' \in [real : 0..MaxReal, emu : Nat, frac : Nat]
  BY DEF Anchored, PacerAssumption
<1>2. hz' \in Hclks /\ hz' \in Nat \ {0} /\ Second \in Nat /\ MaxLag \in Nat /\ 0 \in 0..hz' - 1
  BY PacerFacts DEF PInv
<1>3. PacerTypeOK'
  BY <1>1, <1>2 DEF PacerTypeOK
<1>4. ExactTime'
  <2>1. 0 * Second = 0 /\ hz' * 0 = 0
    BY <1>2
  <2> QED BY <1>1, <1>2, <2>1 DEF ExactTime, None
<1>5. ~ Unlimited' => Target(pacer.emu)' = 0
  <2>1. speed' \in Nat \X (Nat \ {0})
    BY DEF PacerAssumption
  <2> DEFINE s == speed'[1]
             u == speed'[2]
  <2>2. s \in Nat /\ u \in Nat \ {0}
    BY <2>1
  <2>3. Target(pacer.emu)' = (0 * u) \div s /\ (~ Unlimited' => s # 0)
    BY <1>1 DEF Target, Unlimited
  <2> HIDE DEF s, u
  <2>4. s # 0 => (0 * u) \div s = 0
    BY <2>2, TargetFacts
  <2> QED BY <2>3, <2>4
<1> QED BY <1>1, <1>2, <1>3, <1>4, <1>5 DEF PInv, WaitsOut, NotLate, NotFarAhead

LEMMA SetHclkKeeps ==
  ASSUME PacerAssumption, PInv, NEW h \in Hclks, SetHclk(h)
  PROVE  PInv'
<1>1. hz' = h /\ spent' = None /\ pacer' = pacer /\ speed' = speed /\ wait' = wait
  BY DEF SetHclk
<1>2. Target(pacer.emu)' = Target(pacer.emu) /\ (Unlimited' <=> Unlimited)
  BY <1>1 DEF Target, Unlimited
<1>3. \A k, g : Longest(k, g)' = Longest(k, g)
  BY <1>1 DEF Target, Longest, ChunkInstructions, Clamped, Unlimited
<1> QED BY <1>1, <1>2, <1>3 DEF PInv, PacerTypeOK, ExactTime, WaitsOut, NotLate, NotFarAhead

LEMMA PacerInductive == ASSUME PacerAssumption PROVE PInv /\ [PacerNext]_pacerVars => PInv'
<1> SUFFICES ASSUME PInv, [PacerNext]_pacerVars PROVE PInv'
  OBVIOUS
<1>1. CASE \E cycles \in 0..Most, delay \in Delays : Tick(cycles, delay)
  BY <1>1, TickKeeps
<1>2. CASE StartPacer
  BY <1>2, AnchorKeeps DEF StartPacer, PInv, PacerTypeOK
<1>3. CASE \E s \in Speeds : SetSpeed(s)
  <2>1. Sleep \in Nat
    BY SleepFacts DEF PInv
  <2> QED BY <1>3, <2>1, AnchorKeeps DEF SetSpeed
<1>4. CASE \E h \in Hclks : SetHclk(h)
  BY <1>4, SetHclkKeeps
<1>5. CASE UNCHANGED pacerVars
  <2>1. /\ Target(pacer.emu)' = Target(pacer.emu) /\ (Unlimited' <=> Unlimited)
        /\ \A k, g : Longest(k, g)' = Longest(k, g)
    BY <1>5 DEF pacerVars, Target, Longest, ChunkInstructions, Clamped, Unlimited
  <2> QED BY <1>5, <2>1 DEF pacerVars, PInv, PacerTypeOK, ExactTime, WaitsOut, NotLate, NotFarAhead
<1> QED BY <1>1, <1>2, <1>3, <1>4, <1>5 DEF PacerNext

LEMMA PacerInitial == ASSUME PacerAssumption PROVE PacerInit => PInv
<1> SUFFICES ASSUME PacerInit PROVE PInv
  OBVIOUS
<1>1. /\ pacer.real = 0 /\ pacer.emu = 0 /\ pacer.frac = 0
      /\ pacer \in [real : 0..MaxReal, emu : Nat, frac : Nat]
  BY DEF PacerInit, Anchored, PacerAssumption
<1>2. /\ hz \in Hclks /\ hz \in Nat \ {0} /\ Second \in Nat /\ MaxLag \in Nat /\ 0 \in 0..hz - 1
      /\ <<1, 1>> \in Speeds
  BY DEF PacerInit, PacerAssumption
<1>3. PacerTypeOK
  BY <1>1, <1>2 DEF PacerTypeOK, PacerInit
<1>4. ExactTime
  BY <1>1, <1>2 DEF ExactTime, PacerInit
<1>5. Target(pacer.emu) = 0
  <2>1. Target(pacer.emu) = (0 * 1) \div 1
    BY <1>1 DEF Target, PacerInit
  <2> QED BY <2>1
<1> QED BY <1>1, <1>2, <1>3, <1>4, <1>5 DEF PInv, WaitsOut, NotLate, NotFarAhead, PacerInit

LEMMA PacerInvariance == ASSUME PacerAssumption PROVE PacerSpec => []PInv
<1>1. PacerInit => PInv BY PacerInitial
<1>2. PInv /\ [PacerNext]_pacerVars => PInv' BY PacerInductive
<1> QED BY <1>1, <1>2, PTL DEF PacerSpec

\* The pacer's times stay in their types.
THEOREM PacerTypeCorrect == ASSUME PacerAssumption PROVE PacerSpec => []PacerTypeOK
<1>1. PInv => PacerTypeOK BY DEF PInv
<1> QED BY <1>1, PacerInvariance, PTL

\* Emulated time is exact, at most a chunk ahead of the real time and at most
\* MaxLag behind it, for any clocks, speeds and delays.
THEOREM Pace == ASSUME PacerAssumption PROVE PacerSpec => []KeepsPace
<1>1. ASSUME PInv PROVE KeepsPace
  <2>1. ASSUME spent # None PROVE pacer.emu = (spent * Second) \div hz
    <3>1. /\ spent * Second = hz * pacer.emu + pacer.frac
          /\ hz \in Nat \ {0} /\ pacer.emu \in Nat /\ pacer.frac \in 0 .. hz - 1
      BY <1>1, <2>1, PacerFacts DEF PInv, ExactTime
    <3>2. (hz * pacer.emu + pacer.frac) \div hz = pacer.emu
      <4> DEFINE e == pacer.emu
                 f == pacer.frac
      <4>1. e \in Nat /\ f \in 0 .. hz - 1 BY <3>1
      <4> HIDE DEF e, f
      <4>2. (hz * e + f) \div hz = e BY <3>1, <4>1, QuotientIs
      <4> QED BY <4>2 DEF e, f
    <3> QED BY <3>1, <3>2
  <2> QED BY <1>1, <2>1 DEF KeepsPace, PInv, NotLate, NotFarAhead
<1>2. PInv => KeepsPace BY <1>1
<1> QED BY <1>2, PacerInvariance, PTL

-----------------------------------------------------------------------------
(* The cached library, for any files and configurations *)

\* The object of f can be linked in a build with this configuration.
Good(f, config) == objects[f] = config \/ (deleted = "yes" /\ objects[f] = "partial")

\* A stamp vouches for all objects that exist.
StampTrue ==
    \A c \in Configs, f \in Files :
        stamp = c => Good(f, c) \/ (deleted = "yes" /\ objects[f] = "missing")

\* A stamp of another configuration is gone before the first job runs.
StampGone == build.phase = "compile" /\ build.valid = "no" => stamp = "missing"

StampKept ==
    /\ build.phase # "idle" => build.config \in Configs
    /\ build.phase \in {"compile", "link"} /\ build.valid = "yes" => stamp = build.config
    /\ build.phase = "stamp" => stamp \in {"missing", "partial"} /\ build.valid = "no"

\* Files that have no job, and no job any more, are good.
Settled ==
    build.phase # "idle" /\ build.result = "ok" =>
        \A f \in Files \ (build.todo \cup build.running) : Good(f, build.config)

\* After the compilation no job is left.
NoJobs ==
    build.phase \in {"stamp", "link"} =>
        build.result = "ok" /\ build.todo = {} /\ build.running = {}

\* A job under a valid stamp is for a deleted object.
OnlyDeleted ==
    build.phase = "compile" /\ build.valid = "yes" =>
        \A f \in build.todo \cup build.running :
            deleted = "yes" /\ objects[f] \in {"missing", "partial", build.config}

CacheInv ==
    /\ CacheTypeOK /\ StampTrue /\ StampGone /\ StampKept
    /\ Settled /\ NoJobs /\ OnlyDeleted

\* Each step, with the parts of the invariant that it can disturb.
LEMMA CacheInitial == ASSUME Distinct PROVE CacheInit => CacheInv
BY DEF CacheInit, CacheInv, CacheTypeOK, StampTrue, StampGone, StampKept, Settled, NoJobs, OnlyDeleted,
       NoBuild, NoConfig, Contents, Good, Distinct

LEMMA BeginKeeps ==
    ASSUME Distinct, CacheInv, NEW config \in Configs, Begin(config)
    PROVE  CacheInv'
BY DEF Begin, Cached, CacheInv, CacheTypeOK, StampTrue, StampGone, StampKept, Settled, NoJobs,
       OnlyDeleted, NoConfig, Contents, Good, Distinct

LEMMA StartKeeps ==
    ASSUME Distinct, CacheInv, NEW f \in Files, Start(f)
    PROVE  CacheInv'
<1> DEFINE taken == [build EXCEPT !.todo = @ \ {f}]
<1>1. /\ build' = [taken EXCEPT !.running = build.running \cup {f}]
      /\ UNCHANGED <<objects, stamp, deleted>>
  BY DEF Start, CacheInv, CacheTypeOK
<1>2. /\ build'.phase = build.phase /\ build'.config = build.config
      /\ build'.valid = build.valid /\ build'.result = build.result
      /\ build'.todo = build.todo \ {f} /\ build'.running = build.running \cup {f}
      /\ build.phase = "compile" /\ f \in build.todo
  BY <1>1 DEF Start, CacheInv, CacheTypeOK
<1>3. CacheTypeOK' BY <1>1, <1>2 DEF CacheInv, CacheTypeOK
<1>4. StampTrue' BY <1>1 DEF CacheInv, StampTrue, Good
<1>5. StampGone' /\ StampKept' /\ NoJobs' /\ OnlyDeleted' /\ Settled'
  BY <1>1, <1>2 DEF CacheInv, StampGone, StampKept, NoJobs, OnlyDeleted, Settled, Good
<1>6. QED BY <1>3, <1>4, <1>5 DEF CacheInv

LEMMA CompiledKeeps ==
    ASSUME Distinct, CacheInv, NEW f \in Files, Compiled(f)
    PROVE  CacheInv'
BY DEF Compiled, CacheInv, CacheTypeOK, StampTrue, StampGone, StampKept, Settled, NoJobs,
       OnlyDeleted, NoConfig, Contents, Good, Distinct

LEMMA FailedKeeps ==
    ASSUME Distinct, CacheInv, NEW f \in Files, Failed(f)
    PROVE  CacheInv'
<1>1. PICK left \in Remains(objects[f]) : objects' = [objects EXCEPT ![f] = left]
  BY DEF Failed
<1> DEFINE done == [build EXCEPT !.running = @ \ {f}]
           result == IF build.result = "ok" THEN "failed" ELSE build.result
<1>2. build' = [done EXCEPT !.result = result] /\ UNCHANGED <<stamp, deleted>>
  BY DEF Failed, CacheInv, CacheTypeOK
<1>3. /\ build'.phase = build.phase /\ build'.config = build.config
      /\ build'.valid = build.valid /\ build'.todo = build.todo
      /\ build'.running = build.running \ {f} /\ build'.result # "ok"
      /\ build.phase = "compile" /\ f \in build.running
  BY <1>2 DEF Failed, CacheInv, CacheTypeOK
<1>4. CacheTypeOK'
  BY <1>1, <1>2 DEF CacheInv, CacheTypeOK, Remains, Contents
<1>5. StampTrue' /\ OnlyDeleted'
  BY <1>1, <1>2, <1>3 DEF CacheInv, CacheTypeOK, StampTrue, StampKept, StampGone, OnlyDeleted, Remains,
                          Contents, Good, Distinct
<1>6. StampGone' /\ StampKept' /\ Settled' /\ NoJobs'
  BY <1>2, <1>3 DEF CacheInv, StampGone, StampKept, Settled, NoJobs
<1>7. QED BY <1>4, <1>5, <1>6 DEF CacheInv

LEMMA DeleteKeeps ==
    ASSUME Distinct, CacheInv, NEW f \in Files, Delete(f)
    PROVE  CacheInv'
BY DEF Delete, CacheInv, CacheTypeOK, StampTrue, StampGone, StampKept, Settled, NoJobs,
       OnlyDeleted, NoConfig, Contents, Good, Distinct

LEMMA KilledKeeps ==
    ASSUME Distinct, CacheInv, Killed
    PROVE  CacheInv'
BY DEF Killed, Remains, NoBuild, CacheInv, CacheTypeOK, StampTrue, StampGone, StampKept, Settled, NoJobs,
       OnlyDeleted, NoConfig, Contents, Good, Distinct

LEMMA ResultKeeps ==
    ASSUME Distinct, CacheInv, ProjectFailed \/ Notice \/ GiveUp
    PROVE  CacheInv'
BY DEF ProjectFailed, Notice, GiveUp, NoBuild, CacheInv, CacheTypeOK, StampTrue, StampGone, StampKept,
       Settled, NoJobs, OnlyDeleted, NoConfig, Contents, Good, Distinct

LEMMA EndKeeps ==
    ASSUME Distinct, CacheInv, AllCompiled \/ TruncateStamp \/ WriteStamp \/ Link
    PROVE  CacheInv'
<1>1. ASSUME AllCompiled PROVE CacheInv'
  BY <1>1 DEF AllCompiled, CacheInv, CacheTypeOK, StampTrue, StampGone,
      StampKept, Settled, NoJobs, OnlyDeleted, NoConfig, Contents, Good, Distinct
<1>2. ASSUME TruncateStamp PROVE CacheInv'
  BY <1>2 DEF TruncateStamp, CacheInv, CacheTypeOK, StampTrue, StampGone,
      StampKept, Settled, NoJobs, OnlyDeleted, NoConfig, Contents, Good, Distinct
<1>3. ASSUME WriteStamp PROVE CacheInv'
  <2>1. /\ build.phase = "stamp" /\ build'.phase = "link" /\ build' = [build EXCEPT !.phase = "link"]
        /\ build'.config = build.config /\ build'.valid = build.valid /\ build'.todo = build.todo
        /\ build'.running = build.running /\ build'.result = build.result
        /\ UNCHANGED <<objects, deleted>>
    BY <1>3 DEF WriteStamp, CacheInv, CacheTypeOK
  <2>2. \A f \in Files : Good(f, build.config)
    BY <2>1 DEF CacheInv, NoJobs, Settled
  <2>3. CacheTypeOK'
    BY <1>3 DEF WriteStamp, CacheInv, CacheTypeOK, StampKept, Contents
  <2>4. StampTrue'
    BY <1>3, <2>1, <2>2 DEF WriteStamp, CacheInv, StampTrue, StampKept, Good, Distinct
  <2>5. StampGone' /\ StampKept' /\ NoJobs' /\ OnlyDeleted' /\ Settled'
    BY <1>3, <2>1, <2>2 DEF WriteStamp, CacheInv, CacheTypeOK, StampGone, StampKept, NoJobs, OnlyDeleted,
                            Settled, Good
  <2>6. QED BY <2>3, <2>4, <2>5 DEF CacheInv
<1>4. ASSUME Link PROVE CacheInv'
  BY <1>4 DEF Link, NoBuild, CacheInv, CacheTypeOK, StampTrue, StampGone,
      StampKept, Settled, NoJobs, OnlyDeleted, NoConfig, Contents, Good, Distinct
<1>5. QED BY <1>1, <1>2, <1>3, <1>4

LEMMA CacheInductive == ASSUME Distinct PROVE CacheInv /\ [CacheNext]_cacheVars => CacheInv'
<1>1. ASSUME CacheInv, CacheNext PROVE CacheInv'
  BY <1>1, BeginKeeps, StartKeeps, CompiledKeeps, FailedKeeps, DeleteKeeps, KilledKeeps,
     ResultKeeps, EndKeeps DEF CacheNext
<1>2. ASSUME CacheInv, UNCHANGED cacheVars PROVE CacheInv'
  BY <1>2 DEF cacheVars, CacheInv, CacheTypeOK, StampTrue, StampGone, StampKept, Settled, NoJobs,
              OnlyDeleted, Good
<1>3. QED BY <1>1, <1>2

-----------------------------------------------------------------------------

LEMMA CacheInvariance == ASSUME Distinct PROVE CacheSpec => []CacheInv
<1>1. CacheInit => CacheInv BY CacheInitial
<1>2. CacheInv /\ [CacheNext]_cacheVars => CacheInv' BY CacheInductive
<1>3. QED BY <1>1, <1>2, PTL DEF CacheSpec

\* The files and the build stay in their types.
THEOREM CacheTypeCorrect == ASSUME Distinct PROVE CacheSpec => []CacheTypeOK
<1>1. CacheInv => CacheTypeOK BY DEF CacheInv
<1>2. QED BY <1>1, CacheInvariance, PTL

\* Whatever was built, failed or was killed before, every object that is
\* linked was compiled for this build's configuration; or its file was deleted
\* by hand and its compilation interrupted.
THEOREM Current == ASSUME Distinct PROVE CacheSpec => []NoStaleObject
<1>1. CacheInv => NoStaleObject BY DEF CacheInv, NoStaleObject, Settled, NoJobs, Good
<1>2. QED BY <1>1, CacheInvariance, PTL

-----------------------------------------------------------------------------
(* The files of the project, for any texts and delays *)

\* A report of a save comes within the window of that save, or of a later one.
Covered ==
    \A n \in notices : n.by = "us" =>
        \E i \in DOMAIN windows : windows[i] >= n.left + (Window - Latency)

\* Where the editor does not show the file it watches, the watcher has still to
\* say so, or its report has been ignored or was in vain.
Different ==
    watched /\ ~ editor.dirty /\ disk # editor.text =>
        missed \/ \E n \in notices : n.by = "other"

\* Reports come while the path is watched, and the program replaces no file.
Watching == (notices # {} => watched) /\ \A n \in notices : n.gone => n.by = "other"

\* What was typed will be saved, if the file can be written.
WillSave == editor.dirty => saveIn # Stopped \/ refused

FilesInv == FilesTypeOK /\ Covered /\ Different /\ Watching /\ WillSave

\* Without one of its elements a sequence keeps the others.
LEMMA Removed ==
    ASSUME NEW S, NEW s \in Seq(S), NEW i \in 1 .. Len(s)
    PROVE  /\ RemoveAt(s, i) \in Seq(S) /\ Len(RemoveAt(s, i)) = Len(s) - 1
           /\ \A j \in 1 .. Len(s) : j # i => \E k \in 1 .. Len(s) - 1 : RemoveAt(s, i)[k] = s[j]
    <1> DEFINE n == Len(s)
               t == SubSeq(s, 1, i - 1)
               u == SubSeq(s, i + 1, n)
    <1>1. n \in Nat /\ i \in 1 .. n
      BY LenProperties
    <1>2. \A j \in 1 .. n : s[j] \in S
      BY ElementOfSeq
    <1>3. /\ t \in Seq(S) /\ Len(t) = i - 1
          /\ \A j \in 1 .. i - 1 : t[j] = s[j]
      <2>1. \A j \in 1 .. i - 1 : s[j] \in S
        BY <1>1, <1>2
      <2>2. /\ SubSeq(s, 1, i - 1) \in Seq(S)
            /\ Len(SubSeq(s, 1, i - 1)) = IF 1 <= i - 1 THEN (i - 1) - 1 + 1 ELSE 0
            /\ \A j \in 1 .. (i - 1) - 1 + 1 : SubSeq(s, 1, i - 1)[j] = s[1 + j - 1]
        BY <1>1, <2>1, SubSeqProperties
      <2> QED
        BY <1>1, <2>2
    <1>4. /\ u \in Seq(S) /\ Len(u) = n - i
          /\ \A j \in 1 .. n - i : u[j] = s[i + j]
      <2>1. \A j \in i + 1 .. n : s[j] \in S
        BY <1>1, <1>2
      <2>2. /\ SubSeq(s, i + 1, n) \in Seq(S)
            /\ Len(SubSeq(s, i + 1, n)) = IF i + 1 <= n THEN n - (i + 1) + 1 ELSE 0
            /\ \A j \in 1 .. n - (i + 1) + 1 : SubSeq(s, i + 1, n)[j] = s[(i + 1) + j - 1]
        BY <1>1, <2>1, SubSeqProperties
      <2> QED
        BY <1>1, <2>2
    <1> HIDE DEF t, u
    <1>5. /\ t \o u \in Seq(S) /\ Len(t \o u) = n - 1
          /\ \A k \in 1 .. n - 1 : (t \o u)[k] = IF k <= i - 1 THEN t[k] ELSE u[k - (i - 1)]
      <2>1. /\ t \o u \in Seq(S) /\ Len(t \o u) = Len(t) + Len(u)
            /\ \A k \in 1 .. Len(t) + Len(u) :
                  (t \o u)[k] = IF k <= Len(t) THEN t[k] ELSE u[k - Len(t)]
        BY <1>3, <1>4, ConcatProperties
      <2> QED
        BY <1>1, <1>3, <1>4, <2>1
    <1>6. RemoveAt(s, i) = t \o u
      BY DEF RemoveAt, t, u
    <1>7. ASSUME NEW j \in 1 .. n, j # i PROVE \E k \in 1 .. n - 1 : (t \o u)[k] = s[j]
      <2>1. CASE j < i
        BY <1>1, <1>3, <1>5, <1>7, <2>1
      <2>2. CASE j > i
        <3>1. j - 1 \in 1 .. n - 1 /\ ~ (j - 1 <= i - 1) /\ j - i \in 1 .. n - i
          BY <1>1, <2>2
        <3>2. (t \o u)[j - 1] = u[(j - 1) - (i - 1)]
          BY <1>5, <3>1
        <3>3. (j - 1) - (i - 1) = j - i /\ i + (j - i) = j
          BY <1>1
        <3>4. (t \o u)[j - 1] = s[j]
          BY <1>4, <3>1, <3>2, <3>3
        <3> QED
          BY <3>1, <3>4
      <2>3. j < i \/ j > i
        <3>1. j \in Int /\ i \in Int /\ j # i
          BY <1>1, <1>7
        <3> QED
          BY <3>1
      <2> QED
        BY <2>1, <2>2, <2>3
    <1> QED
      BY <1>5, <1>6, <1>7

\* The variables' types, one by one.
LEMMA FileFacts ==
    ASSUME FilesAssumption, FilesTypeOK
    PROVE  /\ SaveDelay \in Nat /\ Window \in Nat /\ Latency \in Nat /\ MaxSaves \in Nat
           /\ Latency < Window
           /\ editor = [text |-> editor.text, dirty |-> editor.dirty]
           /\ editor.text \in Texts \cup {Absent} /\ editor.dirty \in BOOLEAN
           /\ Len(windows) \in Nat /\ DOMAIN windows = 1 .. Len(windows)
           /\ \A i \in 1 .. Len(windows) : windows[i] \in 0 .. Window
           /\ \A n \in notices : n.by \in {"us", "other"} /\ n.gone \in BOOLEAN /\ n.left \in 0 .. Latency
    <1>1. /\ Len(windows) \in Nat /\ DOMAIN windows = 1 .. Len(windows)
          /\ \A i \in 1 .. Len(windows) : windows[i] \in 0 .. Window
      BY LenProperties, ElementOfSeq DEF FilesTypeOK
    <1>2. \A n \in notices : n.by \in {"us", "other"} /\ n.gone \in BOOLEAN /\ n.left \in 0 .. Latency
      BY DEF FilesTypeOK
    <1>3. editor \in [text : Texts \cup {Absent}, dirty : BOOLEAN]
      BY DEF FilesTypeOK
    <1>4. editor = [text |-> editor.text, dirty |-> editor.dirty]
          /\ editor.text \in Texts \cup {Absent} /\ editor.dirty \in BOOLEAN
      BY <1>3
    <1> QED
      BY <1>1, <1>2, <1>4 DEF FilesAssumption

\* The reports after a change.
LEMMA Reports ==
    ASSUME FilesAssumption, FilesInv, NEW by \in {"us", "other"}, NEW gone \in BOOLEAN,
           gone => by = "other"
    PROVE  /\ Reported(by, gone) \subseteq [by : {"us", "other"}, gone : BOOLEAN, left : 0 .. Latency]
           /\ \A n \in Reported(by, gone) : n \in notices \/ (n.by = by /\ n.left = Latency)
           /\ \A n \in Reported(by, gone) : n.gone => n.by = "other"
           /\ notices \subseteq Reported(by, gone)
           /\ watched => \E n \in Reported(by, gone) : n.by = by \/ n.by = "other"
    <1> DEFINE new == [by |-> by, gone |-> gone, left |-> Latency]
    <1>1. /\ new \in [by : {"us", "other"}, gone : BOOLEAN, left : 0 .. Latency]
          /\ new.by = by /\ new.left = Latency /\ new.gone = gone
      BY DEF FilesAssumption
    <1>2. Reported(by, gone) = IF Heard THEN notices \cup {new} ELSE notices
      BY DEF Reported
    <1>3. watched /\ ~ Heard => \E n \in notices : n.by = "other"
      BY DEF Heard, FilesInv, Watching
    <1> HIDE DEF new
    <1>4. notices \subseteq [by : {"us", "other"}, gone : BOOLEAN, left : 0 .. Latency] /\ \A n \in notices : n.gone => n.by = "other"
      BY DEF FilesInv, FilesTypeOK, Watching
    <1>5. CASE Heard
      <2>1. Reported(by, gone) = notices \cup {new}
        BY <1>2, <1>5
      <2>2. /\ \A n \in Reported(by, gone) : n \in notices \/ n = new
            /\ notices \subseteq Reported(by, gone) /\ new \in Reported(by, gone)
        BY <2>1
      <2>3. Reported(by, gone) \subseteq [by : {"us", "other"}, gone : BOOLEAN, left : 0 .. Latency]
        BY <1>1, <1>4, <2>2
      <2>4. \A n \in Reported(by, gone) : n \in notices \/ (n.by = by /\ n.left = Latency)
        BY <1>1, <2>2
      <2>5. ASSUME NEW n \in Reported(by, gone), n.gone PROVE n.by = "other"
        BY <1>1, <1>4, <2>2, <2>5
      <2> QED
        BY <1>1, <2>2, <2>3, <2>4, <2>5
    <1>6. CASE ~ Heard
      <2>1. Reported(by, gone) = notices
        BY <1>2, <1>6
      <2>2. watched => \E n \in notices : n.by = "other"
        BY <1>3, <1>6
      <2> QED
        BY <1>4, <2>1, <2>2
    <1> QED
      BY <1>5, <1>6

\* Whether or not the report of a save is lost, its window covers it.
LEMMA SaveCovers ==
    ASSUME FilesAssumption, FilesInv, windows' = Append(windows, Window), Len(windows) < MaxSaves,
           \A m \in notices' : \E n \in Reported("us", FALSE) : m.by = n.by /\ m.left = n.left
    PROVE  Covered' /\ windows' \in Seq(0 .. Window) /\ Len(windows') <= MaxSaves
    <1> DEFINE k == Len(windows)
    <1>1. /\ k \in Nat /\ DOMAIN windows = 1 .. k /\ windows \in Seq(0 .. Window)
          /\ Window \in 0 .. Window /\ Window \in Nat /\ Latency \in Nat /\ MaxSaves \in Nat
      BY FileFacts DEF FilesInv, FilesTypeOK
    <1>2. /\ windows' \in Seq(0 .. Window) /\ Len(windows') = k + 1
          /\ DOMAIN windows' = 1 .. k + 1 /\ windows'[k + 1] = Window
          /\ \A i \in 1 .. k : windows'[i] = windows[i]
      BY <1>1
    <1>3. ASSUME NEW m \in notices', m.by = "us"
          PROVE  \E i \in DOMAIN windows' : windows'[i] >= m.left + (Window - Latency)
      <2>1. PICK n \in Reported("us", FALSE) : m.by = n.by /\ m.left = n.left
        OBVIOUS
      <2>2. CASE n.left = Latency
        <3>1. Window >= m.left + (Window - Latency) /\ k + 1 \in 1 .. k + 1
          BY <1>1, <2>1, <2>2
        <3> QED
          BY <1>2, <3>1
      <2>3. CASE n \in notices
        BY <1>1, <1>2, <1>3, <2>1, <2>3 DEF FilesInv, Covered
      <2>4. n \in notices \/ n.left = Latency
        BY <2>1, Reports
      <2> QED
        BY <2>2, <2>3, <2>4
    <1> QED
      BY <1>1, <1>2, <1>3 DEF Covered

LEMMA FlushKeeps ==
    ASSUME FilesAssumption, FilesInv, NEW text \in Texts \cup {Absent}, NEW dirty \in BOOLEAN,
           dirty \/ ~ editor.dirty, saveIn' = Stopped, FlushSaves(text, dirty)
    PROVE  FilesInv'
    <1>1. saveIn' \in Stopped .. SaveDelay
      BY FileFacts DEF FilesInv, Stopped
    <1>2. CASE Saved(text)
      <2>1. disk' = text /\ editor' = [text |-> text, dirty |-> FALSE]
        BY <1>2 DEF Saved
      <2>2. editor'.text = text /\ ~ editor'.dirty
        BY <2>1
      <2>3. notices' = Reported("us", FALSE) /\ watched' = TRUE
        BY <1>2 DEF Saved
      <2>6. Covered' /\ windows' \in Seq(0 .. Window) /\ Len(windows') <= MaxSaves
        BY <1>2, <2>3, SaveCovers DEF Saved
      <2>7. notices' \subseteq [by : {"us", "other"}, gone : BOOLEAN, left : 0 .. Latency] /\ Watching'
        BY <2>3, Reports DEF Watching
      <2>4. editor' \in [text : Texts \cup {Absent}, dirty : BOOLEAN]
        BY <2>1
      <2>5. FilesTypeOK'
        BY <1>1, <1>2, <2>1, <2>3, <2>4, <2>6, <2>7 DEF Saved, FilesTypeOK
      <2> QED
        BY <2>1, <2>2, <2>5, <2>6, <2>7 DEF FilesInv, Different, WillSave
    <1>3. CASE Refused(text)
      <2>1. editor' = [text |-> text, dirty |-> TRUE] /\ refused' = TRUE
        BY <1>3 DEF Refused
      <2>2. editor'.dirty /\ editor' \in [text : Texts \cup {Absent}, dirty : BOOLEAN]
        BY <2>1
      <2>3. FilesTypeOK'
        BY <1>1, <1>3, <2>1, <2>2 DEF Refused, FilesTypeOK, FilesInv
      <2>4. Covered' /\ Watching'
        BY <1>3 DEF Refused, Covered, Watching, FilesInv
      <2> QED
        BY <2>1, <2>2, <2>3, <2>4 DEF FilesInv, Different, WillSave
    <1>4. CASE ~ dirty /\ UNCHANGED <<disk, editor, writing, windows, watched, notices, missed, refused>>
      <2>1. FilesTypeOK'
        BY <1>1, <1>4 DEF FilesTypeOK, FilesInv
      <2> QED
        BY <1>4, <2>1 DEF FilesInv, Covered, Different, Watching, WillSave
    <1> QED
      BY <1>2, <1>3, <1>4 DEF FlushSaves

LEMMA TypeKeeps ==
    ASSUME FilesAssumption, FilesInv, NEW text \in Texts, Type(text)
    PROVE  FilesInv'
    <1>1. editor' = [text |-> text, dirty |-> TRUE] /\ saveIn' = SaveDelay
      BY DEF Type
    <1>2. editor'.dirty /\ editor' \in [text : Texts \cup {Absent}, dirty : BOOLEAN]
      BY <1>1
    <1>3. saveIn' \in Stopped .. SaveDelay /\ saveIn' # Stopped
      BY <1>1, FileFacts DEF FilesInv, Stopped
    <1>4. FilesTypeOK'
      BY <1>2, <1>3 DEF Type, FilesTypeOK, FilesInv
    <1> QED
      BY <1>2, <1>3, <1>4 DEF Type, FilesInv, Covered, Different, Watching, WillSave

\* What the project holds after it was read, and which reports are left.
LEMMA Loaded ==
    ASSUME FilesAssumption, NEW text \in Texts \cup {Absent}, NEW reports, Load(text, reports),
           reports \subseteq [by : {"us", "other"}, gone : BOOLEAN, left : 0 .. Latency], disk' = text
    PROVE  /\ editor' \in [text : Texts \cup {Absent}, dirty : BOOLEAN] /\ ~ editor'.dirty
           /\ missed' \in BOOLEAN /\ watched' \in BOOLEAN
           /\ notices' \subseteq [by : {"us", "other"}, gone : BOOLEAN, left : 0 .. Latency]
           /\ \A m \in notices' : \E n \in reports : m.by = n.by /\ m.left = n.left
           /\ Different' /\ Watching'
    <1>1. PICK shown \in Texts \cup {Absent} : editor' = [text |-> shown, dirty |-> FALSE]
      BY DEF Load, FilesAssumption
    <1>2. editor' \in [text : Texts \cup {Absent}, dirty : BOOLEAN] /\ ~ editor'.dirty
      BY <1>1
    <1>3. missed' = (editor'.text # text) /\ watched' = (text # Absent)
      BY DEF Load
    <1>4. /\ notices' \subseteq {[n EXCEPT !.gone = FALSE] : n \in reports}
          /\ notices' # {} => text # Absent
      BY DEF Load
    <1>5. ASSUME NEW m \in notices'
          PROVE  /\ m \in [by : {"us", "other"}, gone : BOOLEAN, left : 0 .. Latency] /\ ~ m.gone
                 /\ \E n \in reports : m.by = n.by /\ m.left = n.left
      <2>1. PICK n \in reports : m = [n EXCEPT !.gone = FALSE]
        BY <1>4
      <2>2. n \in [by : {"us", "other"}, gone : BOOLEAN, left : 0 .. Latency]
        BY <2>1
      <2>3. m = [by |-> n.by, gone |-> FALSE, left |-> n.left]
        BY <2>1, <2>2
      <2> QED
        BY <2>1, <2>2, <2>3
    <1>6. Different'
      BY <1>3 DEF Different
    <1>7. Watching'
      BY <1>3, <1>4, <1>5 DEF Watching
    <1> QED
      BY <1>2, <1>3, <1>5, <1>6, <1>7

LEMMA OpenKeeps ==
    ASSUME FilesAssumption, FilesInv, OpenAgain
    PROVE  FilesInv'
    <1>1. saveIn' \in Stopped .. SaveDelay
      BY FileFacts DEF OpenAgain, FilesInv, Stopped
    <1>2. editor.text \in Texts \cup {Absent} /\ editor.dirty \in BOOLEAN
      BY FileFacts DEF FilesInv
    <1>3. CASE /\ editor.dirty /\ Len(windows) < MaxSaves
               /\ disk' = editor.text
               /\ writing' = TRUE /\ windows' = Append(windows, Window) /\ refused' = FALSE
               /\ Load(editor.text, Reported("us", FALSE))
      <2>1. Reported("us", FALSE) \subseteq [by : {"us", "other"}, gone : BOOLEAN, left : 0 .. Latency]
        BY Reports
      <2>2. /\ editor' \in [text : Texts \cup {Absent}, dirty : BOOLEAN] /\ ~ editor'.dirty
            /\ missed' \in BOOLEAN /\ watched' \in BOOLEAN
            /\ notices' \subseteq [by : {"us", "other"}, gone : BOOLEAN, left : 0 .. Latency]
            /\ \A m \in notices' : \E n \in Reported("us", FALSE) : m.by = n.by /\ m.left = n.left
            /\ Different' /\ Watching'
        BY <1>2, <1>3, <2>1, Loaded
      <2>3. Covered' /\ windows' \in Seq(0 .. Window) /\ Len(windows') <= MaxSaves
        BY <1>3, <2>2, SaveCovers
      <2>4. FilesTypeOK'
        BY <1>1, <1>2, <1>3, <2>2, <2>3 DEF FilesTypeOK
      <2> QED
        BY <2>2, <2>3, <2>4 DEF FilesInv, WillSave
    <1>4. CASE /\ disk' = disk /\ UNCHANGED windows
               /\ writing' = (writing /\ ~ editor.dirty) /\ refused' = editor.dirty
               /\ Load(disk, notices)
      <2>1. disk \in Texts \cup {Absent} /\ notices \subseteq [by : {"us", "other"}, gone : BOOLEAN, left : 0 .. Latency]
        BY DEF FilesInv, FilesTypeOK
      <2>2. /\ editor' \in [text : Texts \cup {Absent}, dirty : BOOLEAN] /\ ~ editor'.dirty
            /\ missed' \in BOOLEAN /\ watched' \in BOOLEAN
            /\ notices' \subseteq [by : {"us", "other"}, gone : BOOLEAN, left : 0 .. Latency]
            /\ \A m \in notices' : \E n \in notices : m.by = n.by /\ m.left = n.left
            /\ Different' /\ Watching'
        BY <1>4, <2>1, Loaded
      <2>3. Covered'
        BY <1>4, <2>2 DEF FilesInv, Covered
      <2>4. writing' \in BOOLEAN /\ refused' \in BOOLEAN
        <3>1. writing \in BOOLEAN
          BY DEF FilesInv, FilesTypeOK
        <3> QED
          BY <1>2, <1>4, <3>1
      <2>5. FilesTypeOK'
        BY <1>1, <1>4, <2>1, <2>2, <2>4 DEF FilesInv, FilesTypeOK
      <2> QED
        BY <2>2, <2>3, <2>5 DEF FilesInv, WillSave
    <1> QED
      BY <1>3, <1>4 DEF OpenAgain

LEMMA OtherKeeps ==
    ASSUME FilesAssumption, FilesInv, NEW text \in Texts \cup {Absent}, NEW gone \in BOOLEAN,
           OtherWrites(text, gone)
    PROVE  FilesInv'
    <1>1. notices' = Reported("other", gone)
      BY DEF OtherWrites
    <1>2. notices' \subseteq [by : {"us", "other"}, gone : BOOLEAN, left : 0 .. Latency]
      BY <1>1, Reports
    <1>3. FilesTypeOK'
      BY <1>2 DEF OtherWrites, FilesInv, FilesTypeOK
    <1>4. Covered'
      BY <1>1, Reports DEF OtherWrites, FilesInv, Covered
    <1>5. Different'
      BY <1>1, Reports DEF OtherWrites, Different
    <1>6. Watching'
      <2>1. CASE Heard
        BY <1>1, <2>1, Reports DEF OtherWrites, Watching, Heard
      <2>2. CASE ~ Heard
        BY <1>1, <2>2 DEF OtherWrites, FilesInv, Watching, Reported
      <2> QED
        BY <2>1, <2>2
    <1> QED
      BY <1>3, <1>4, <1>5, <1>6 DEF OtherWrites, FilesInv, WillSave

LEMMA ReloadKeeps ==
    ASSUME FilesAssumption, FilesInv, NEW notice \in notices, ReloadFromDisk(notice)
    PROVE  FilesInv'
    <1>1. /\ notices' \subseteq notices /\ (notices' # {} => watched')
          /\ watched' => notices' = notices \ {notice}
          /\ watched' \in BOOLEAN
          /\ UNCHANGED <<disk, saveIn, writing, windows, refused>>
      BY DEF ReloadFromDisk
    <1>2. Covered' /\ Watching'
      BY <1>1 DEF FilesInv, Covered, Watching
    <1>3. CASE /\ Ignored
               /\ missed' = (missed \/ (notice.by = "other" /\ disk # editor.text))
               /\ UNCHANGED editor
      <2>1. FilesTypeOK'
        BY <1>1, <1>3 DEF FilesInv, FilesTypeOK
      <2>2. Different'
        <3>1. SUFFICES ASSUME ~ editor.dirty, disk # editor.text, watched', ~ missed'
                       PROVE  \E n \in notices \ {notice} : n.by = "other"
          BY <1>1, <1>3 DEF Different
        <3>2. ~ missed /\ notice.by # "other"
          BY <1>3, <3>1
        <3>3. watched
          BY DEF FilesInv, Watching
        <3> QED
          BY <3>1, <3>2, <3>3 DEF FilesInv, Different
      <2> QED
        BY <1>1, <1>2, <1>3, <2>1, <2>2 DEF FilesInv, WillSave
    <1>4. CASE ~ Ignored /\ missed' = (missed \/ disk # editor.text) /\ UNCHANGED editor
      <2>1. FilesTypeOK'
        BY <1>1, <1>4 DEF FilesInv, FilesTypeOK
      <2>2. Different'
        BY <1>1, <1>4 DEF Different
      <2> QED
        BY <1>1, <1>2, <1>4, <2>1, <2>2 DEF FilesInv, WillSave
    <1>5. CASE /\ ~ Ignored /\ disk # Absent
               /\ editor' = IF disk = editor.text THEN editor ELSE [text |-> disk, dirty |-> FALSE]
               /\ missed' = FALSE
      <2>1. editor'.text = disk /\ editor' \in [text : Texts \cup {Absent}, dirty : BOOLEAN]
        BY <1>5 DEF FilesInv, FilesTypeOK
      <2>2. FilesTypeOK'
        BY <1>1, <1>5, <2>1 DEF FilesInv, FilesTypeOK
      <2>3. Different'
        BY <1>1, <2>1 DEF Different
      <2>4. WillSave'
        <3>1. CASE disk = editor.text
          BY <1>1, <1>5, <3>1 DEF FilesInv, WillSave
        <3>2. CASE disk # editor.text
          <4>1. ~ editor'.dirty
            BY <1>5, <3>2
          <4> QED
            BY <4>1 DEF WillSave
        <3> QED
          BY <3>1, <3>2
      <2> QED
        BY <1>2, <2>2, <2>3, <2>4 DEF FilesInv
    <1> QED
      BY <1>3, <1>4, <1>5 DEF ReloadFromDisk

LEMMA ExpireKeeps ==
    ASSUME FilesAssumption, FilesInv, NEW i \in DOMAIN windows, Expire(i)
    PROVE  FilesInv'
    <1>1. /\ DOMAIN windows = 1 .. Len(windows) /\ Len(windows) \in Nat
          /\ windows \in Seq(0 .. Window) /\ Len(windows) <= MaxSaves
          /\ MaxSaves \in Nat /\ Window \in Nat /\ Latency \in Nat /\ Latency < Window
      BY FileFacts DEF FilesInv, FilesTypeOK
    <1>2. windows[i] = 0 /\ windows' = RemoveAt(windows, i) /\ writing' = FALSE
      BY DEF Expire
    <1>3. /\ windows' \in Seq(0 .. Window) /\ Len(windows') = Len(windows) - 1
          /\ \A j \in 1 .. Len(windows) :
                j # i => \E k \in 1 .. Len(windows) - 1 : windows'[k] = windows[j]
      <2> DEFINE S == 0 .. Window
      <2>1. i \in 1 .. Len(windows) /\ windows \in Seq(S)
        BY <1>1
      <2> HIDE DEF S
      <2>2. /\ RemoveAt(windows, i) \in Seq(S)
            /\ Len(RemoveAt(windows, i)) = Len(windows) - 1
            /\ \A j \in 1 .. Len(windows) :
                  j # i => \E k \in 1 .. Len(windows) - 1 : RemoveAt(windows, i)[k] = windows[j]
        BY <2>1, Removed
      <2> USE DEF S
      <2> QED
        BY <1>2, <2>2
    <1>4. DOMAIN windows' = 1 .. Len(windows) - 1 /\ Len(windows') <= MaxSaves
      BY <1>1, <1>3, LenProperties
    <1>5. FilesTypeOK'
      BY <1>2, <1>3, <1>4 DEF Expire, FilesInv, FilesTypeOK
    <1>6. ASSUME NEW n \in notices, n.by = "us"
          PROVE  \E k \in DOMAIN windows' : windows'[k] >= n.left + (Window - Latency)
      <2>1. PICK j \in DOMAIN windows : windows[j] >= n.left + (Window - Latency)
        BY <1>6 DEF FilesInv, Covered
      <2>2. n.left \in Nat
        BY FileFacts DEF FilesInv
      <2>3. j # i
        BY <1>1, <1>2, <2>1, <2>2
      <2> QED
        BY <1>1, <1>3, <1>4, <2>1, <2>3
    <1>7. Covered'
      BY <1>6 DEF Expire, Covered
    <1> QED
      BY <1>5, <1>7 DEF Expire, FilesInv, Different, Watching, WillSave

LEMMA PassKeeps ==
    ASSUME FilesAssumption, FilesInv, Pass
    PROVE  FilesInv'
    <1>1. /\ DOMAIN windows = 1 .. Len(windows) /\ Len(windows) \in Nat
          /\ \A i \in 1 .. Len(windows) : windows[i] \in 0 .. Window
          /\ \A n \in notices : n.by \in {"us", "other"} /\ n.left \in 0 .. Latency
          /\ MaxSaves \in Nat /\ Window \in Nat /\ Latency \in Nat /\ SaveDelay \in Nat
      BY FileFacts DEF FilesInv, FilesTypeOK
    <1>2. /\ \A i \in 1 .. Len(windows) : windows[i] > 0
          /\ \A n \in notices : n.left > 0
          /\ windows' = [i \in 1 .. Len(windows) |-> windows[i] - 1]
          /\ notices' = {[n EXCEPT !.left = @ - 1] : n \in notices}
      BY <1>1 DEF Pass
    <1>3. /\ windows' \in Seq(0 .. Window) /\ Len(windows') = Len(windows)
          /\ DOMAIN windows' = 1 .. Len(windows)
      BY <1>1, <1>2
    <1>4. ASSUME NEW n \in notices
          PROVE  /\ [n EXCEPT !.left = @ - 1].by = n.by /\ [n EXCEPT !.left = @ - 1].gone = n.gone
                 /\ [n EXCEPT !.left = @ - 1].left = n.left - 1
                 /\ [n EXCEPT !.left = @ - 1] \in [by : {"us", "other"}, gone : BOOLEAN, left : 0 .. Latency]
      <2>1. n \in [by : {"us", "other"}, gone : BOOLEAN, left : 0 .. Latency]
        BY DEF FilesInv, FilesTypeOK
      <2>2. n.left - 1 \in 0 .. Latency /\ n.by \in {"us", "other"}
        BY <1>1, <1>2
      <2>3. [n EXCEPT !.left = @ - 1] = [by |-> n.by, gone |-> n.gone, left |-> n.left - 1]
        BY <2>1
      <2> QED
        BY <2>1, <2>2, <2>3
    <1>5. saveIn' \in Stopped .. SaveDelay /\ (saveIn # Stopped => saveIn' # Stopped)
      BY <1>1 DEF Pass, FilesInv, FilesTypeOK, Stopped
    <1>6. FilesTypeOK'
      BY <1>2, <1>3, <1>4, <1>5 DEF Pass, FilesInv, FilesTypeOK
    <1>7. ASSUME NEW m \in notices', m.by = "us"
          PROVE  \E i \in DOMAIN windows' : windows'[i] >= m.left + (Window - Latency)
      <2>1. PICK n \in notices : m = [n EXCEPT !.left = @ - 1]
        BY <1>2
      <2>2. n.by = "us" /\ m.left = n.left - 1 /\ n.left \in Nat
        BY <1>1, <1>4, <1>7, <2>1
      <2>3. PICK i \in DOMAIN windows : windows[i] >= n.left + (Window - Latency)
        BY <2>2 DEF FilesInv, Covered
      <2>4. windows'[i] = windows[i] - 1 /\ windows[i] \in Nat
        BY <1>1, <1>2, <2>3
      <2>5. windows'[i] >= m.left + (Window - Latency)
        BY <1>1, <2>2, <2>3, <2>4
      <2> QED
        BY <1>1, <1>3, <2>3, <2>5
    <1>8. Covered'
      BY <1>7 DEF Covered
    <1>9. Different'
      <2>1. ASSUME NEW n \in notices, n.by = "other" PROVE \E m \in notices' : m.by = "other"
        <3> DEFINE m == [n EXCEPT !.left = @ - 1]
        <3>1. m \in notices'
          BY <1>2
        <3>2. m.by = "other"
          BY <1>4, <2>1
        <3> HIDE DEF m
        <3> QED
          BY <3>1, <3>2
      <2> QED
        BY <2>1 DEF Pass, FilesInv, Different
    <1>10. WillSave'
      BY <1>5 DEF Pass, FilesInv, WillSave
    <1>11. Watching'
      <2>1. ASSUME NEW m \in notices', m.gone PROVE m.by = "other"
        <3>1. PICK n \in notices : m = [n EXCEPT !.left = @ - 1]
          BY <1>2
        <3> QED
          BY <1>4, <2>1, <3>1 DEF FilesInv, Watching
      <2>2. notices' # {} => notices # {}
        BY <1>2
      <2> QED
        BY <2>1, <2>2 DEF Pass, FilesInv, Watching
    <1> QED
      BY <1>6, <1>8, <1>9, <1>10, <1>11 DEF FilesInv

LEMMA FilesInitial == ASSUME FilesAssumption, FilesInit PROVE FilesInv
    <1>1. editor = [text |-> disk, dirty |-> FALSE] /\ disk \in Texts /\ notices = {} /\ windows = <<>>
      BY DEF FilesInit
    <1>2. editor.text = disk /\ ~ editor.dirty /\ editor \in [text : Texts \cup {Absent}, dirty : BOOLEAN]
      BY <1>1
    <1>3. saveIn \in Stopped .. SaveDelay /\ windows \in Seq(0 .. Window) /\ Len(windows) <= MaxSaves
      BY <1>1 DEF FilesInit, FilesAssumption, Stopped
    <1>4. FilesTypeOK
      BY <1>1, <1>2, <1>3 DEF FilesInit, FilesTypeOK
    <1> QED
      BY <1>1, <1>2, <1>4 DEF FilesInv, Covered, Different, Watching, WillSave

LEMMA FilesInductive ==
    ASSUME FilesAssumption
    PROVE  FilesInv /\ [FilesNext]_fileVars => FilesInv'
    <1> SUFFICES ASSUME FilesInv, [FilesNext]_fileVars PROVE FilesInv'
      OBVIOUS
    <1>1. editor.text \in Texts \cup {Absent} /\ editor.dirty \in BOOLEAN
      BY FileFacts DEF FilesInv
    <1>2. ASSUME NEW text \in Texts, Type(text) PROVE FilesInv'
      BY <1>2, TypeKeeps
    <1>3. ASSUME NEW text \in Texts, SetFileContent(text) PROVE FilesInv'
      BY <1>3, FlushKeeps DEF SetFileContent
    <1>4. ASSUME NEW text \in Texts \cup {Absent}, NEW gone \in BOOLEAN, OtherWrites(text, gone)
          PROVE  FilesInv'
      BY <1>4, OtherKeeps
    <1>5. CASE SaveAll
      BY <1>1, <1>5, FlushKeeps DEF SaveAll
    <1>6. CASE SaveTimer
      BY <1>5, <1>6, <1>1, FlushKeeps DEF SaveTimer, SaveAll
    <1>7. CASE OpenAgain
      BY <1>7, OpenKeeps
    <1>8. ASSUME NEW notice \in notices, ReloadFromDisk(notice) PROVE FilesInv'
      BY <1>8, ReloadKeeps
    <1>9. ASSUME NEW i \in DOMAIN windows, Expire(i) PROVE FilesInv'
      BY <1>9, ExpireKeeps
    <1>10. CASE Pass
      BY <1>10, PassKeeps
    <1>11. CASE UNCHANGED fileVars
      BY <1>11 DEF fileVars, FilesInv, FilesTypeOK, Covered, Different, Watching, WillSave
    <1> QED
      BY <1>2, <1>3, <1>4, <1>5, <1>6, <1>7, <1>8, <1>9, <1>10, <1>11 DEF FilesNext

\* What a report of the watcher may throw away.
LEMMA Discards ==
    ASSUME FilesAssumption, FilesInv
    PROVE  DiscardStep
    <1> SUFFICES ASSUME NEW n \in notices, ReloadFromDisk(n), editor.dirty, ~ editor'.dirty
                 PROVE  \/ \E other \in notices : other.by = "other"
                        \/ windows # <<>> /\ ~ writing
      BY DEF DiscardStep
    <1>1. ~ writing
      BY DEF ReloadFromDisk, Ignored
    <1>2. CASE n.by = "us"
      <2>1. PICK i \in DOMAIN windows : windows[i] >= n.left + (Window - Latency)
        BY <1>2 DEF FilesInv, Covered
      <2>2. DOMAIN windows = 1 .. Len(windows) /\ Len(windows) \in Nat
        BY FileFacts DEF FilesInv
      <2>3. windows # <<>>
        BY <2>1, <2>2
      <2> QED
        BY <1>1, <2>3
    <1>3. CASE n.by = "other"
      BY <1>3
    <1> QED
      BY <1>2, <1>3, FileFacts DEF FilesInv

\* A watch ends only with the file.
LEMMA Watches ==
    ASSUME [FilesNext]_fileVars
    PROVE  WatchStep
    <1> SUFFICES ASSUME watched, ~ watched' PROVE disk' = Absent
      BY DEF WatchStep
    <1>1. ASSUME NEW text, NEW dirty, FlushSaves(text, dirty) PROVE watched' = TRUE
      BY <1>1 DEF FlushSaves, Saved, Refused
    <1>2. ASSUME OpenAgain PROVE disk' = Absent
      <2>1. PICK text : disk' = text /\ watched' = (text # Absent)
        BY <1>2 DEF OpenAgain, Load
      <2> QED
        BY <2>1
    <1>3. ASSUME NEW notice \in notices, ReloadFromDisk(notice) PROVE disk' = Absent
      BY <1>3 DEF ReloadFromDisk
    <1> QED
      BY <1>1, <1>2, <1>3 DEF FilesNext, fileVars, Type, SetFileContent, OtherWrites, SaveAll,
         SaveTimer, Expire, Pass

\* The file, the editor and the timers keep their types, for any texts, delays
\* and number of saves.
THEOREM FilesTypeCorrect == ASSUME FilesAssumption PROVE FilesSpec => []FilesTypeOK
    <1>1. FilesInit => FilesInv
      BY FilesInitial
    <1>2. FilesInv /\ [FilesNext]_fileVars => FilesInv'
      BY FilesInductive
    <1>3. FilesInv => FilesTypeOK
      BY DEF FilesInv
    <1> QED
      BY <1>1, <1>2, <1>3, PTL DEF FilesSpec

\* The watcher's report of the program's own save takes nothing that was typed
\* since, unless another save's single shot ended its protection; what was typed
\* is saved in the end; and the editor shows the file it watches, which it stops
\* only for a file that is gone, but for changes that were taken for a save or
\* could not be read: however the user, the timer, the watcher and other programs
\* that write, replace and remove the file take turns.
THEOREM Editing == ASSUME FilesAssumption PROVE FilesSpec => EditsKept
    <1>1. FilesInit => FilesInv
      BY FilesInitial
    <1>2. FilesInv /\ [FilesNext]_fileVars => FilesInv'
      BY FilesInductive
    <1>3. FilesInv /\ FilesInv' /\ [FilesNext]_fileVars =>
            [DiscardStep /\ WatchStep /\ InStep']_fileVars
      <2>2. FilesInv' => InStep'
        BY DEF FilesInv, InStep, Different, WillSave
      <2> QED
        BY <2>2, Discards, Watches
    <1> QED
      BY <1>1, <1>2, <1>3, PTL DEF FilesSpec, EditsKept

=============================================================================
