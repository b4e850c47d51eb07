--------------------------- MODULE ClockTreeProofs ---------------------------
(***************************************************************************)
(* Whatever configurations the user writes, the RCC stays within the limits *)
(* of the chip at each step of the generated code, and the code ends with   *)
(* the clocks that the dialog showed.                                       *)
(*                                                                         *)
(* The invariant is an annotated program: one assertion for each step that  *)
(* may be next.                                                            *)
(***************************************************************************)
EXTENDS ClockTree, SequenceTheorems, TLAPS

\* The part of ClockSafe that is about numbers, and the part about sources.
Within(r) ==
    /\ Live(r).hclk <= 168 * MHz /\ Live(r).pclk1 <= 42 * MHz /\ Live(r).pclk2 <= 84 * MHz
    /\ r.acr >= FlashLatency(Live(r).hclk)

Powered(r) ==
    /\ r.sw = "hse" \/ (r.pll /\ r.src = "hse") => r.hse
    /\ r.sw = "pll" => r.pll

-----------------------------------------------------------------------------
(* What the steps establish *)

OnPll(c) == c.sysclk = "pll"

\* The PLL has the factors of c.
Tuned(r, c) == r.src = c.src /\ r.m = c.m /\ r.n = c.n /\ 2 * (r.p + 1) = c.p

HseUp == UsesHse(target) => rcc.hse
PllUp == OnPll(target) => rcc.pll /\ Tuned(rcc, target)
Waits == rcc.acr >= FlashLatency(Computed(target).hclk)
AhbSet == Ahb(rcc) = target.ahb
Apb1Set == Apb(rcc.ppre1) = target.apb1
Apb2Set == Apb(rcc.ppre2) = target.apb2
Slow1 == rcc.ppre1 = 7
Slow2 == rcc.ppre2 = 7
Selected == rcc.sw = target.sysclk /\ HseUp /\ PllUp /\ AhbSet

-----------------------------------------------------------------------------
(* What the steps leave to do *)

R0 == <<>>
R1 == <<"UpdateCore">>
R2 == <<"SetLatency", "UpdateCore">>
R3 == <<"Select", "SetLatency", "UpdateCore">>
R4 == <<"WritePrescalers", "Select", "SetLatency", "UpdateCore">>
R5 == <<"RaiseLatency", "WritePrescalers", "Select", "SetLatency", "UpdateCore">>
R6 == <<"StartPll", "RaiseLatency", "WritePrescalers", "Select", "SetLatency", "UpdateCore">>
R7 == <<"WritePll", "StartPll", "RaiseLatency", "WritePrescalers", "Select", "SetLatency",
        "UpdateCore">>
R8 == <<"StopPll", "WritePll", "StartPll", "RaiseLatency", "WritePrescalers", "Select",
        "SetLatency", "UpdateCore">>
RHse5 == <<"StartHse", "RaiseLatency", "WritePrescalers", "Select", "SetLatency", "UpdateCore">>
RHse8 == <<"StartHse", "StopPll", "WritePll", "StartPll", "RaiseLatency", "WritePrescalers",
           "Select", "SetLatency", "UpdateCore">>
RHsi5 == <<"RunHsi", "RaiseLatency", "WritePrescalers", "Select", "SetLatency", "UpdateCore">>
RHsi8 == <<"RunHsi", "StopPll", "WritePll", "StartPll", "RaiseLatency", "WritePrescalers",
           "Select", "SetLatency", "UpdateCore">>
RBoth5 == <<"RunHsi", "StartHse", "RaiseLatency", "WritePrescalers", "Select", "SetLatency",
            "UpdateCore">>
RBoth8 == <<"RunHsi", "StartHse", "StopPll", "WritePll", "StartPll", "RaiseLatency",
            "WritePrescalers", "Select", "SetLatency", "UpdateCore">>

H1 == <<"HalCore">>
H2 == <<"WriteApb2", "HalCore">>
H3 == <<"WriteApb1", "WriteApb2", "HalCore">>
H4 == <<"LowerLatency", "WriteApb1", "WriteApb2", "HalCore">>
H5 == <<"Select", "LowerLatency", "WriteApb1", "WriteApb2", "HalCore">>
H6 == <<"WriteAhb", "Select", "LowerLatency", "WriteApb1", "WriteApb2", "HalCore">>
H7 == <<"SlowApb2", "WriteAhb", "Select", "LowerLatency", "WriteApb1", "WriteApb2", "HalCore">>
H8 == <<"SlowApb1", "SlowApb2", "WriteAhb", "Select", "LowerLatency", "WriteApb1", "WriteApb2",
        "HalCore">>
H9 == <<"RaiseLatency", "SlowApb1", "SlowApb2", "WriteAhb", "Select", "LowerLatency",
        "WriteApb1", "WriteApb2", "HalCore">>
H10 == <<"StartPll", "RaiseLatency", "SlowApb1", "SlowApb2", "WriteAhb", "Select",
         "LowerLatency", "WriteApb1", "WriteApb2", "HalCore">>
H11 == <<"WritePll", "StartPll", "RaiseLatency", "SlowApb1", "SlowApb2", "WriteAhb", "Select",
         "LowerLatency", "WriteApb1", "WriteApb2", "HalCore">>
H12 == <<"StopPll", "WritePll", "StartPll", "RaiseLatency", "SlowApb1", "SlowApb2", "WriteAhb",
         "Select", "LowerLatency", "WriteApb1", "WriteApb2", "HalCore">>
H13 == <<"CheckPll", "StopPll", "WritePll", "StartPll", "RaiseLatency", "SlowApb1", "SlowApb2",
         "WriteAhb", "Select", "LowerLatency", "WriteApb1", "WriteApb2", "HalCore">>
HHse9 == <<"StartHse", "RaiseLatency", "SlowApb1", "SlowApb2", "WriteAhb", "Select",
           "LowerLatency", "WriteApb1", "WriteApb2", "HalCore">>
HHse13 == <<"StartHse", "CheckPll", "StopPll", "WritePll", "StartPll", "RaiseLatency",
            "SlowApb1", "SlowApb2", "WriteAhb", "Select", "LowerLatency", "WriteApb1",
            "WriteApb2", "HalCore">>

\* The code's c: registers leaves r to do, the HAL's h.
Left(r, h) == (code = "registers" /\ todo = r) \/ (code = "hal" /\ todo = h)

-----------------------------------------------------------------------------
(* The assertions, each named for the step that is next *)

AtRunHsi ==
    /\ code = "registers"
    /\ \/ ~ UsesHse(target) /\ ~ OnPll(target) /\ todo = RHsi5
       \/ ~ UsesHse(target) /\ OnPll(target) /\ todo = RHsi8
       \/ UsesHse(target) /\ ~ OnPll(target) /\ todo = RBoth5
       \/ UsesHse(target) /\ OnPll(target) /\ todo = RBoth8

AtStartHse ==
    /\ UsesHse(target)
    /\ code = "registers" => rcc.sw # "pll"
    /\ rcc.sw # "pll" \/ OnPll(target)
    /\ \/ ~ OnPll(target) /\ Left(RHse5, HHse9)
       \/ OnPll(target) /\ Left(RHse8, HHse13)

AtCheckPll == OnPll(target) /\ HseUp /\ code = "hal" /\ todo = H13

AtStopPll == OnPll(target) /\ HseUp /\ rcc.sw # "pll" /\ Left(R8, H12)
AtWritePll == OnPll(target) /\ HseUp /\ rcc.sw # "pll" /\ ~ rcc.pll /\ Left(R7, H11)
AtStartPll ==
    /\ OnPll(target) /\ HseUp /\ rcc.sw # "pll" /\ ~ rcc.pll /\ Tuned(rcc, target)
    /\ Left(R6, H10)

Ready == HseUp /\ PllUp /\ (rcc.sw # "pll" \/ OnPll(target))

AtRaiseLatency == Ready /\ Left(R5, H9)
AtWritePrescalers == Ready /\ Waits /\ code = "registers" /\ todo = R4
AtSlowApb1 == Ready /\ Waits /\ code = "hal" /\ todo = H8
AtSlowApb2 == Ready /\ Waits /\ Slow1 /\ code = "hal" /\ todo = H7
AtWriteAhb == Ready /\ Waits /\ Slow1 /\ Slow2 /\ code = "hal" /\ todo = H6
AtSelect ==
    /\ Ready /\ Waits /\ AhbSet
    /\ \/ Apb1Set /\ Apb2Set /\ code = "registers" /\ todo = R3
       \/ Slow1 /\ Slow2 /\ code = "hal" /\ todo = H5
AtSetLatency == Selected /\ Apb1Set /\ Apb2Set /\ code = "registers" /\ todo = R2
AtUpdateCore == Selected /\ Apb1Set /\ Apb2Set /\ code = "registers" /\ todo = R1
AtLowerLatency == Selected /\ Waits /\ Slow1 /\ Slow2 /\ code = "hal" /\ todo = H4
AtWriteApb1 == Selected /\ Waits /\ Slow1 /\ Slow2 /\ code = "hal" /\ todo = H3
AtWriteApb2 == Selected /\ Waits /\ Apb1Set /\ Slow2 /\ code = "hal" /\ todo = H2
AtHalCore == Selected /\ Apb1Set /\ Apb2Set /\ code = "hal" /\ todo = H1

AtEnd ==
    /\ todo = <<>> /\ ~ failed
    /\ code # "none" =>
          /\ Ok(target) /\ Selected /\ Apb1Set /\ Apb2Set
          /\ rcc.core = IF code = "hal" THEN Computed(target).hclk ELSE Live(rcc).hclk

AtError == todo = <<>> /\ failed /\ rcc.sw = "pll" /\ PllOf(rcc) # PllIn(target)

Running ==
    \/ AtRunHsi \/ AtStartHse \/ AtCheckPll \/ AtStopPll \/ AtWritePll \/ AtStartPll
    \/ AtRaiseLatency \/ AtWritePrescalers \/ AtSelect \/ AtSetLatency \/ AtUpdateCore
    \/ AtSlowApb1 \/ AtSlowApb2 \/ AtWriteAhb \/ AtLowerLatency \/ AtWriteApb1 \/ AtWriteApb2
    \/ AtHalCore

CInv ==
    /\ ClockTypeOK /\ Within(rcc) /\ Powered(rcc)
    /\ \/ ~ failed /\ Ok(target) /\ Running
       \/ AtEnd
       \/ AtError

-----------------------------------------------------------------------------
(* Arithmetic *)

\* Integer division by a number of which all but one copy is removed.
LEMMA Quotient ==
    ASSUME NEW a \in Int, NEW d \in Nat \ {0}
    PROVE  a \div d \in Int /\ a % d \in 0 .. d - 1 /\ a = (a \div d) * d + (a % d)
    OBVIOUS

\* A quotient is the largest number whose product fits.
LEMMA QuotientFits ==
    ASSUME NEW a \in Int, NEW d \in Nat \ {0}, NEW q \in Int, q * d <= a
    PROVE  q <= a \div d
    <1> DEFINE e == a \div d
    <1>1. e \in Int /\ a < e * d + d
      BY Quotient
    <1> HIDE DEF e
    <1>2. SUFFICES ASSUME q >= e + 1 PROVE FALSE
      BY <1>1 DEF e
    <1>3. \A x \in Int : x >= 0 => x * d >= 0
      OBVIOUS
    <1>4. (q - (e + 1)) * d >= 0
      BY <1>1, <1>2, <1>3
    <1>5. (q - (e + 1)) * d = q * d - e * d - d
      BY <1>1
    <1> QED
      BY <1>1, <1>4, <1>5

\* Division keeps the order.
LEMMA QuotientMonotone ==
    ASSUME NEW a \in Int, NEW b \in Int, a <= b, NEW d \in Nat \ {0}
    PROVE  a \div d <= b \div d
    <1> DEFINE q == a \div d
    <1>1. q \in Int /\ q * d <= a
      BY Quotient
    <1> HIDE DEF q
    <1>2. q * d \in Int /\ q * d <= b
      BY <1>1
    <1>3. q <= b \div d
      BY <1>1, <1>2, QuotientFits
    <1> QED
      BY <1>3 DEF q

\* The quotient of a natural number is one, and not larger.
LEMMA QuotientNat ==
    ASSUME NEW a \in Nat, NEW d \in Nat \ {0}
    PROVE  a \div d \in 0 .. a
    <1> DEFINE q == a \div d
    <1>1. q \in Int /\ q * d <= a /\ a < q * d + d
      BY Quotient
    <1>2. 0 <= q
      BY QuotientFits
    <1> HIDE DEF q
    <1>3. q * d >= q
      BY <1>1, <1>2
    <1> QED
      BY <1>1, <1>2, <1>3 DEF q

\* Two numbers that differ by at most n have quotients that differ by at most
\* one more than n's.
LEMMA QuotientSum ==
    ASSUME NEW a \in Nat, NEW x \in Nat, NEW n \in Nat, x <= n, NEW d \in Nat \ {0}
    PROVE  (a + x) \div d - a \div d \in 0 .. n \div d + 1
    <1> DEFINE q == a \div d
               e == n \div d
               f == (a + x) \div d
    <1>1. q \in Int /\ a < q * d + d /\ e \in Int /\ n < e * d + d
      BY Quotient
    <1>2. f \in Int /\ f * d <= a + x
      BY Quotient
    <1>3. q <= f
      BY QuotientMonotone
    <1> HIDE DEF q, e, f
    <1>4. f * d < (q + e + 2) * d
      BY <1>1, <1>2
    <1>5. f < q + e + 2
      <2>1. SUFFICES ASSUME f >= q + e + 2 PROVE FALSE
        BY <1>1, <1>2
      <2>2. \A y \in Int : y >= 0 => y * d >= 0
        OBVIOUS
      <2>3. (f - (q + e + 2)) * d >= 0
        BY <1>1, <1>2, <2>1, <2>2
      <2>4. (f - (q + e + 2)) * d = f * d - (q + e + 2) * d
        BY <1>1, <1>2
      <2> QED
        BY <1>1, <1>2, <1>4, <2>3, <2>4
    <1> QED
      BY <1>1, <1>2, <1>3, <1>5 DEF q, e, f

\* What is lost by dividing before multiplying.
LEMMA Loss ==
    ASSUME NEW a \in Nat, NEW n \in Nat, NEW m \in Nat \ {0}
    PROVE  \E x \in 0 .. n : MulDiv(a, n, m) = (a \div m) * n + x /\ (a % m = 0 => x = 0)
    <1> DEFINE r == a % m
               x == (r * n) \div m
    <1>1. r \in 0 .. m - 1
      BY Quotient
    <1> HIDE DEF r
    <1>2. r * n \in Nat /\ r * n <= m * n
      BY <1>1
    <1>3. x <= (m * n) \div m /\ x \in Nat
      BY <1>2, QuotientMonotone, QuotientNat
    <1>4. (m * n) \div m = n
      <2>1. (m * n) \div m >= n
        BY QuotientFits
      <2>2. (m * n) \div m <= n
        <3> DEFINE e == (m * n) \div m
        <3>1. m * n \in Int
          OBVIOUS
        <3>2. e \in Int /\ e * m <= m * n
          BY <3>1, Quotient
        <3> HIDE DEF e
        <3>3. SUFFICES ASSUME e >= n + 1 PROVE FALSE
          BY <3>2 DEF e
        <3>4. \A y \in Int : y >= 0 => y * m >= 0
          OBVIOUS
        <3>5. (e - (n + 1)) * m >= 0
          BY <3>2, <3>3, <3>4
        <3>6. (e - (n + 1)) * m = e * m - m * n - m
          BY <3>2
        <3> QED
          BY <3>2, <3>5, <3>6
      <2> QED
        BY <2>1, <2>2, Quotient
    <1>5. r = 0 => x = 0
      OBVIOUS
    <1>6. MulDiv(a, n, m) = (a \div m) * n + x
      BY DEF MulDiv, r
    <1>7. a % m = 0 => x = 0
      BY <1>5 DEF r
    <1> HIDE DEF x
    <1>8. x \in 0 .. n
      BY <1>3, <1>4
    <1> QED
      BY <1>6, <1>7, <1>8

-----------------------------------------------------------------------------
(* The tables *)

\* The bits written for an AHB divider are those that Rcc decodes to it.
LEMMA AhbRoundTrip ==
    ASSUME NEW div \in {AhbDivs[i] : i \in 1 .. 9}
    PROVE  /\ HpreBits(div) \in {0} \cup 8 .. 15
           /\ \A r : r.hpre = HpreBits(div) => Ahb(r) = div
    <1>1. CASE div = 1
      BY <1>1 DEF HpreBits, Ahb
    <1>2. CASE div # 1
      <2>1. PICK i \in 2 .. 9 : AhbDivs[i] = div
        BY <1>2 DEF AhbDivs
      <2> DEFINE j == CHOOSE k \in 2 .. 9 : AhbDivs[k] = div
      <2>2. j \in 2 .. 9 /\ AhbDivs[j] = div
        BY <2>1
      <2>3. HpreBits(div) = 6 + j
        BY <1>2 DEF HpreBits
      <2> HIDE DEF j
      <2>4. \A k \in 2 .. 9 : <<2, 4, 8, 16, 64, 128, 256, 512>>[k - 1] = AhbDivs[k]
        BY DEF AhbDivs
      <2>5. ASSUME NEW r, r.hpre = 6 + j PROVE Ahb(r) = div
        <3>1. r.hpre \in 8 .. 15 /\ r.hpre - 7 = j - 1
          BY <2>2, <2>5
        <3> QED
          BY <2>2, <2>4, <3>1 DEF Ahb
      <2> QED
        BY <2>2, <2>3, <2>5
    <1> QED
      BY <1>1, <1>2

\* The same for the dividers of the APBs.
LEMMA ApbRoundTrip ==
    ASSUME NEW div \in ApbDivs
    PROVE  PpreBits(div) \in {0} \cup 4 .. 7 /\ Apb(PpreBits(div)) = div
    BY DEF ApbDivs, PpreBits, Apb

\* Every divider is a positive number.
LEMMA AhbType ==
    ASSUME NEW r \in Registers
    PROVE  Ahb(r) \in Nat \ {0}
    <1>1. \A k \in 1 .. 8 : <<2, 4, 8, 16, 64, 128, 256, 512>>[k] \in Nat \ {0}
      OBVIOUS
    <1>2. r.hpre < 8 \/ r.hpre - 7 \in 1 .. 8
      BY DEF Registers
    <1> QED
      BY <1>1, <1>2 DEF Ahb

LEMMA ApbType ==
    ASSUME NEW bits \in {0} \cup 4 .. 7
    PROVE  Apb(bits) \in {1, 2, 4, 8, 16} /\ (bits = 7 => Apb(bits) = 16)
    BY DEF Apb

-----------------------------------------------------------------------------
(* Frequencies *)

\* Each clock of a tree is at most the one that it comes from.
LEMMA TreeClocks ==
    ASSUME NEW s, NEW ahb, NEW apb1, NEW apb2, NEW t, t = Tree(s, ahb, apb1, apb2)
    PROVE  /\ t.sysclk = s /\ t.hclk = s \div ahb
           /\ t.pclk1 = t.hclk \div apb1 /\ t.pclk2 = t.hclk \div apb2
    BY DEF Tree

LEMMA TreeBounds ==
    ASSUME NEW s \in Nat, NEW h, NEW ahb \in Nat \ {0}, h = s \div ahb,
           NEW apb1 \in Nat \ {0}, NEW apb2 \in Nat \ {0}
    PROVE  h \in 0 .. s /\ h \div apb1 \in 0 .. h /\ h \div apb2 \in 0 .. h
    <1>1. h \in 0 .. s
      BY QuotientNat
    <1>2. h \div apb1 \in 0 .. h /\ h \div apb2 \in 0 .. h
      BY <1>1, QuotientNat
    <1> QED
      BY <1>1, <1>2

\* The sources.
LEMMA Sources ==
    ASSUME NEW source
    PROVE  SourceHz(source) \in Nat /\ 1 <= SourceHz(source) /\ SourceHz(source) <= 16 * MHz
    BY DEF SourceHz, HseHz, HsiHz, MHz

LEMMA LatencyMonotone ==
    ASSUME NEW a \in Int, NEW b \in Int, a <= b
    PROVE  FlashLatency(a) \in Int /\ FlashLatency(a) <= FlashLatency(b)
    <1>1. (a - 1) \div (30 * MHz) <= (b - 1) \div (30 * MHz)
      BY QuotientMonotone DEF MHz
    <1> QED
      BY <1>1, Quotient DEF FlashLatency, MHz

LEMMA Latencies ==
    ASSUME NEW h \in Int
    PROVE  /\ h <= 168 * MHz => FlashLatency(h) <= 5
           /\ h <= 16 * MHz => FlashLatency(h) <= 0
           /\ h >= 1 => FlashLatency(h) >= 0
    BY DEF FlashLatency, MHz

\* The parts of Ok.
LEMMA OkParts ==
    ASSUME NEW c \in Configurations, Ok(c)
    PROVE  /\ c.ahb \in {AhbDivs[i] : i \in 1 .. 9} /\ c.apb1 \in ApbDivs /\ c.apb2 \in ApbDivs
           /\ Computed(c).pclk1 <= 42 * MHz /\ Computed(c).pclk2 <= 84 * MHz
           /\ OnPll(c) => /\ c.m \in 2 .. 63 /\ c.n \in 50 .. 432 /\ c.p \in {2, 4, 6, 8}
                         /\ c.q \in 2 .. 15 /\ VcoOut(c) \div c.p <= 168 * MHz
                         /\ VcoOut(c) \in Int /\ VcoOut(c) >= 100 * MHz
    <1>1. MHz \in Nat
      BY DEF MHz
    <1> QED
      BY <1>1 DEF Ok, OnPll

\* The numbers that the dialog computes.
LEMMA ComputedBounds ==
    ASSUME NEW c \in Configurations, Ok(c)
    PROVE  /\ c.ahb \in Nat \ {0} /\ c.apb1 \in Nat \ {0} /\ c.apb2 \in Nat \ {0}
           /\ Computed(c).sysclk \in Nat /\ Computed(c).sysclk <= 168 * MHz
           /\ Computed(c).sysclk =
                 IF OnPll(c) THEN VcoOut(c) \div c.p ELSE SourceHz(c.sysclk)
           /\ Computed(c).hclk = Computed(c).sysclk \div c.ahb
           /\ Computed(c).hclk \in Nat /\ Computed(c).hclk <= 168 * MHz
           /\ Computed(c).pclk1 = Computed(c).hclk \div c.apb1
           /\ Computed(c).pclk2 = Computed(c).hclk \div c.apb2
           /\ Computed(c).pclk1 \in Nat /\ Computed(c).pclk2 \in Nat
    <1> DEFINE s == IF OnPll(c) THEN VcoOut(c) \div c.p ELSE SourceHz(c.sysclk)
    <1>1. c.ahb \in Nat \ {0} /\ c.apb1 \in Nat \ {0} /\ c.apb2 \in Nat \ {0}
      BY OkParts DEF AhbDivs, ApbDivs
    <1>2. s \in Nat /\ s <= 168 * MHz
      <2>1. CASE OnPll(c)
        <3>1. c.m \in Nat \ {0} /\ c.n \in Nat /\ c.p \in Nat \ {0}
          BY OkParts, <2>1
        <3>2. VcoOut(c) \in Nat
          <4> DEFINE a == SourceHz(c.src)
          <4>1. a \in Nat
            BY Sources
          <4> HIDE DEF a
          <4>2. PICK x \in 0 .. c.n : MulDiv(a, c.n, c.m) = (a \div c.m) * c.n + x
            BY <3>1, <4>1, Loss
          <4>3. a \div c.m \in Nat
            BY <3>1, <4>1, QuotientNat
          <4>4. (a \div c.m) * c.n + x \in Nat
            BY <3>1, <4>2, <4>3
          <4> QED
            BY <4>2, <4>4 DEF VcoOut, a
        <3>3. VcoOut(c) \div c.p \in Nat
          BY <3>1, <3>2, QuotientNat
        <3> QED
          BY <2>1, <3>3, OkParts
      <2>2. CASE ~ OnPll(c)
        <3>1. 16 * MHz <= 168 * MHz
          BY DEF MHz
        <3> QED
          BY <2>2, <3>1, Sources DEF MHz
      <2> QED
        BY <2>1, <2>2
    <1>3. Computed(c) = Tree(s, c.ahb, c.apb1, c.apb2)
      BY DEF Computed, OnPll
    <1> HIDE DEF s
    <1>4. /\ Computed(c).sysclk = s /\ Computed(c).hclk = s \div c.ahb
          /\ Computed(c).hclk \in 0 .. s
          /\ Computed(c).pclk1 = Computed(c).hclk \div c.apb1
          /\ Computed(c).pclk1 \in 0 .. Computed(c).hclk
          /\ Computed(c).pclk2 = Computed(c).hclk \div c.apb2
          /\ Computed(c).pclk2 \in 0 .. Computed(c).hclk
      <2> DEFINE t == Computed(c)
      <2>1. t = Tree(s, c.ahb, c.apb1, c.apb2)
        BY <1>3
      <2> HIDE DEF t
      <2>2. /\ t.sysclk = s /\ t.hclk = s \div c.ahb /\ t.hclk \in 0 .. s
            /\ t.pclk1 = t.hclk \div c.apb1 /\ t.pclk1 \in 0 .. t.hclk
            /\ t.pclk2 = t.hclk \div c.apb2 /\ t.pclk2 \in 0 .. t.hclk
        <3>1. /\ t.sysclk = s /\ t.hclk = s \div c.ahb
              /\ t.pclk1 = t.hclk \div c.apb1 /\ t.pclk2 = t.hclk \div c.apb2
          BY <2>1, TreeClocks
        <3> DEFINE h == t.hclk
        <3>2. h = s \div c.ahb
          BY <3>1
        <3> HIDE DEF h
        <3>3. h \in 0 .. s /\ h \div c.apb1 \in 0 .. h /\ h \div c.apb2 \in 0 .. h
          BY <1>1, <1>2, <3>2, TreeBounds
        <3> QED
          BY <3>1, <3>3 DEF h
      <2> QED
        BY <2>2 DEF t
    <1>5. Computed(c).hclk \in Nat /\ Computed(c).hclk <= s
      BY <1>2, <1>4
    <1>6. Computed(c).pclk1 \in Nat /\ Computed(c).pclk2 \in Nat
      BY <1>4, <1>5
    <1>7. Computed(c).hclk <= 168 * MHz
      BY <1>2, <1>5 DEF MHz
    <1> QED
      BY <1>1, <1>2, <1>4, <1>5, <1>6, <1>7 DEF s

\* The processor's clock is never 0, and a configuration needs at most 5 wait
\* states.
LEMMA TargetLatency ==
    ASSUME NEW c \in Configurations, Ok(c)
    PROVE  FlashLatency(Computed(c).hclk) \in 0 .. 7
    <1> DEFINE s == Computed(c).sysclk
               h == Computed(c).hclk
    <1>1. s \in Nat /\ h \in Nat /\ h <= 168 * MHz /\ h = s \div c.ahb
      BY ComputedBounds
    <1>2. c.ahb \in Nat \ {0} /\ c.ahb <= 512
      BY OkParts DEF AhbDivs
    <1>3. s >= 8 * MHz
      <2>1. CASE OnPll(c)
        <3> DEFINE v == VcoOut(c)
        <3>1. v >= 100 * MHz /\ c.p \in {2, 4, 6, 8} /\ s = v \div c.p
          BY <2>1, ComputedBounds, OkParts
        <3> HIDE DEF v, s
        <3>2. s >= 8 * MHz
          <4>1. v \in Int /\ c.p \in Nat \ {0} /\ MHz \in Nat
            BY <2>1, <3>1, OkParts DEF v, MHz
          <4>2. (8 * MHz) * c.p <= v
            BY <3>1, <4>1
          <4> QED
            BY <3>1, <4>1, <4>2, QuotientFits
        <3> QED
          BY <3>2
      <2>2. CASE ~ OnPll(c)
        BY <2>2, ComputedBounds DEF SourceHz, HseHz, HsiHz, MHz
      <2> QED
        BY <2>1, <2>2
    <1> HIDE DEF s, h
    <1>4. h >= 1
      <2>1. 1 * c.ahb <= s
        BY <1>1, <1>2, <1>3 DEF MHz
      <2> QED
        BY <1>1, <1>2, <2>1, QuotientFits
    <1>5. FlashLatency(h) \in Int /\ FlashLatency(h) <= 5 /\ FlashLatency(h) >= 0
      BY <1>1, <1>4, Latencies, LatencyMonotone
    <1> QED
      BY <1>5 DEF h

\* The clocks of the emulator.
LEMMA LiveTree ==
    ASSUME NEW r \in Registers, Sysclk(r) \in Nat
    PROVE  /\ Live(r).sysclk = Sysclk(r)
           /\ Live(r).hclk = Sysclk(r) \div Ahb(r) /\ Live(r).hclk \in 0 .. Sysclk(r)
           /\ Live(r).pclk1 = Live(r).hclk \div Apb(r.ppre1) /\ Live(r).pclk1 \in 0 .. Live(r).hclk
           /\ Live(r).pclk2 = Live(r).hclk \div Apb(r.ppre2) /\ Live(r).pclk2 \in 0 .. Live(r).hclk
    <1>1. r.ppre1 \in {0} \cup 4 .. 7 /\ r.ppre2 \in {0} \cup 4 .. 7
      BY DEF Registers
    <1>2. Apb(r.ppre1) \in Nat \ {0} /\ Apb(r.ppre2) \in Nat \ {0}
      BY <1>1, ApbType
    <1>3. Ahb(r) \in Nat \ {0}
      BY AhbType
    <1> DEFINE t == Live(r)
               s == Sysclk(r)
               ahb == Ahb(r)
               apb1 == Apb(r.ppre1)
               apb2 == Apb(r.ppre2)
    <1>4. t = Tree(s, ahb, apb1, apb2)
      BY DEF Live
    <1> HIDE DEF t, s, ahb, apb1, apb2
    <1>5. s \in Nat /\ ahb \in Nat \ {0} /\ apb1 \in Nat \ {0} /\ apb2 \in Nat \ {0}
      BY <1>2, <1>3 DEF s, ahb, apb1, apb2
    <1>6. /\ t.sysclk = s /\ t.hclk = s \div ahb /\ t.hclk \in 0 .. s
          /\ t.pclk1 = t.hclk \div apb1 /\ t.pclk1 \in 0 .. t.hclk
          /\ t.pclk2 = t.hclk \div apb2 /\ t.pclk2 \in 0 .. t.hclk
      <2>1. /\ t.sysclk = s /\ t.hclk = s \div ahb
            /\ t.pclk1 = t.hclk \div apb1 /\ t.pclk2 = t.hclk \div apb2
        BY <1>4, TreeClocks
      <2> DEFINE h == t.hclk
      <2>2. h = s \div ahb
        BY <2>1
      <2> HIDE DEF h
      <2>3. h \in 0 .. s /\ h \div apb1 \in 0 .. h /\ h \div apb2 \in 0 .. h
        BY <1>5, <2>2, TreeBounds
      <2> QED
        BY <2>1, <2>3 DEF h
    <1> QED
      BY <1>6 DEF t, s, ahb, apb1, apb2

\* The system clock that Rcc computes is a number.
LEMMA SysclkType ==
    ASSUME NEW r \in Registers
    PROVE  Sysclk(r) \in Nat /\ (r.sw # "pll" => Sysclk(r) <= 16 * MHz)
    <1>1. CASE r.sw # "pll"
      BY <1>1, Sources DEF Sysclk
    <1>2. CASE r.sw = "pll"
      <2> DEFINE a == SourceHz(r.src)
                 d == 2 * (r.p + 1)
      <2>1. a \in Nat
        BY Sources
      <2>2. r.m \in Nat \ {0} /\ r.n \in Nat /\ d \in Nat \ {0}
        BY DEF Registers
      <2> HIDE DEF a, d
      <2>3. a \div r.m \in Nat
        BY <2>1, <2>2, QuotientNat
      <2>4. (a \div r.m) * r.n \in Nat
        BY <2>2, <2>3
      <2>5. ((a \div r.m) * r.n) \div d \in Nat
        BY <2>2, <2>4, QuotientNat
      <2> QED
        BY <1>2, <2>5 DEF Sysclk, a, d
    <1> QED
      BY <1>1, <1>2

\* With its source selected and its PLL set, the emulator has the system
\* clock of the dialog, up to the rounding; the HAL computes it exactly.
LEMMA Reached ==
    ASSUME NEW c \in Configurations, Ok(c), NEW r \in Registers,
           r.sw = c.sysclk, OnPll(c) => Tuned(r, c)
    PROVE  /\ Computed(c).sysclk - Sysclk(r) \in 0 .. Rounding(c)
           /\ HalSysclk(r) = Computed(c).sysclk
    <1>1. CASE ~ OnPll(c)
      <2>1. Computed(c).sysclk = SourceHz(r.sw) /\ Sysclk(r) = SourceHz(r.sw)
              /\ HalSysclk(r) = SourceHz(r.sw) /\ Rounding(c) = 0
        BY <1>1, ComputedBounds DEF OnPll, Sysclk, HalSysclk, Rounding
      <2> QED
        BY <2>1, Sources
    <1>2. CASE OnPll(c)
      <2> DEFINE a == SourceHz(c.src)
                 b == (a \div c.m) * c.n
      <2>1. c.m \in Nat \ {0} /\ c.n \in Nat /\ c.p \in Nat \ {0}
        BY OkParts, <1>2
      <2>2. a \in Nat
        BY Sources
      <2>3. /\ r.src = c.src /\ r.m = c.m /\ r.n = c.n /\ 2 * (r.p + 1) = c.p
            /\ r.sw = "pll" /\ c.sysclk = "pll"
        BY <1>2 DEF Tuned, OnPll
      <2>4. /\ Sysclk(r) = b \div c.p
            /\ HalSysclk(r) = MulDiv(a, c.n, c.m) \div c.p
            /\ Computed(c).sysclk = MulDiv(a, c.n, c.m) \div c.p
            /\ Rounding(c) = IF a % c.m # 0 THEN c.n \div c.p + 1 ELSE 0
        BY <1>2, <2>3, ComputedBounds DEF Sysclk, HalSysclk, VcoOut, Rounding
      <2> HIDE DEF a
      <2>5. a \div c.m \in Nat
        BY <2>1, <2>2, QuotientNat
      <2>6. b \in Nat
        BY <2>1, <2>5
      <2>7. PICK x \in 0 .. c.n : MulDiv(a, c.n, c.m) = b + x /\ (a % c.m = 0 => x = 0)
        BY <2>1, <2>2, Loss
      <2> HIDE DEF b
      <2>8. CASE a % c.m # 0
        <3>1. x \in Nat /\ x <= c.n
          BY <2>1, <2>7
        <3>2. (b + x) \div c.p - b \div c.p \in 0 .. c.n \div c.p + 1
          BY <2>1, <2>6, <3>1, QuotientSum
        <3> QED
          BY <2>4, <2>7, <2>8, <3>2
      <2>9. CASE a % c.m = 0
        <3>1. MulDiv(a, c.n, c.m) = b
          BY <2>6, <2>7, <2>9
        <3>2. b \div c.p \in Nat
          BY <2>1, <2>6, QuotientNat
        <3> QED
          BY <2>4, <2>9, <3>1, <3>2
      <2> QED
        BY <2>4, <2>8, <2>9
    <1> QED
      BY <1>1, <1>2

-----------------------------------------------------------------------------
(* The limits *)

\* Without the PLL nothing can be too fast.
LEMMA SlowWithin ==
    ASSUME NEW r \in Registers, r.sw # "pll"
    PROVE  Within(r)
    <1> DEFINE h == Live(r).hclk
    <1>1. Sysclk(r) \in Nat /\ Sysclk(r) <= 16 * MHz
      BY SysclkType
    <1>2. /\ h \in 0 .. Sysclk(r) /\ Live(r).pclk1 \in 0 .. h /\ Live(r).pclk2 \in 0 .. h
      BY <1>1, LiveTree
    <1> HIDE DEF h
    <1>3. h \in Int /\ h <= 16 * MHz
      BY <1>1, <1>2 DEF MHz
    <1>4. r.acr \in Nat
      BY DEF Registers
    <1>5. r.acr >= FlashLatency(h)
      BY <1>3, <1>4, Latencies, LatencyMonotone
    <1>6. h <= 168 * MHz /\ Live(r).pclk1 <= 42 * MHz /\ Live(r).pclk2 <= 84 * MHz
      BY <1>2, <1>3 DEF MHz
    <1> QED
      BY <1>5, <1>6 DEF Within, h

\* Nor is it at the speed of a configuration that the dialog has accepted,
\* with the dividers of the APBs as there or at their largest.
LEMMA FastWithin ==
    ASSUME NEW c \in Configurations, Ok(c), NEW r \in Registers,
           r.sw = c.sysclk, OnPll(c) => Tuned(r, c), Ahb(r) = c.ahb,
           r.acr >= FlashLatency(Computed(c).hclk),
           Apb(r.ppre1) = c.apb1 \/ r.ppre1 = 7,
           Apb(r.ppre2) = c.apb2 \/ r.ppre2 = 7
    PROVE  Within(r)
    <1> DEFINE h == Live(r).hclk
               k == Computed(c).hclk
               s == Sysclk(r)
               t == Computed(c).sysclk
    <1>1. s \in Nat /\ t \in Nat /\ k \in Nat /\ k <= 168 * MHz /\ k = t \div c.ahb
      BY SysclkType, ComputedBounds
    <1>2. c.ahb \in Nat \ {0} /\ c.apb1 \in Nat \ {0} /\ c.apb2 \in Nat \ {0}
      BY ComputedBounds
    <1>3. /\ h = s \div c.ahb /\ h \in 0 .. s
          /\ Live(r).pclk1 = h \div Apb(r.ppre1) /\ Live(r).pclk2 = h \div Apb(r.ppre2)
      BY <1>1, LiveTree
    <1>4. s <= t
      <2>1. t - s >= 0
        <3>1. t - s \in 0 .. Rounding(c)
          BY Reached
        <3> QED
          BY <3>1
      <2> QED
        BY <1>1, <2>1
    <1>5. /\ Computed(c).pclk1 = k \div c.apb1 /\ Computed(c).pclk1 <= 42 * MHz
          /\ Computed(c).pclk2 = k \div c.apb2 /\ Computed(c).pclk2 <= 84 * MHz
      BY ComputedBounds, OkParts
    <1>6. r.acr \in Nat /\ r.acr >= FlashLatency(k)
      BY DEF Registers
    <1> HIDE DEF h, k, s, t
    <1>7. h \in Nat /\ h <= k
      BY <1>1, <1>2, <1>3, <1>4, QuotientMonotone
    <1>8. h <= 168 * MHz
      BY <1>1, <1>7 DEF MHz
    <1>9. r.acr >= FlashLatency(h)
      <2>1. FlashLatency(h) \in Int /\ FlashLatency(h) <= FlashLatency(k) /\ FlashLatency(k) \in Int
        BY <1>1, <1>7, LatencyMonotone
      <2> QED
        BY <1>6, <2>1
    <1>10. ASSUME NEW bits, bits = 7 PROVE h \div Apb(bits) <= 42 * MHz
      BY <1>7, <1>8, <1>10 DEF Apb, MHz
    <1>11. h \div c.apb1 <= k \div c.apb1 /\ h \div c.apb1 \in Nat /\ k \div c.apb1 \in Nat
      BY <1>1, <1>2, <1>7, QuotientMonotone, QuotientNat
    <1>12. h \div c.apb2 <= k \div c.apb2 /\ h \div c.apb2 \in Nat /\ k \div c.apb2 \in Nat
      BY <1>1, <1>2, <1>7, QuotientMonotone, QuotientNat
    <1>13. h \div Apb(r.ppre1) <= 42 * MHz
      BY <1>5, <1>10, <1>11 DEF MHz
    <1>14. h \div Apb(r.ppre2) <= 84 * MHz
      <2>1. CASE r.ppre2 = 7
        <3>1. h \div Apb(r.ppre2) \in Nat
          BY <1>7, <2>1, QuotientNat DEF Apb
        <3> QED
          BY <1>10, <2>1, <3>1 DEF MHz
      <2>2. CASE Apb(r.ppre2) = c.apb2
        BY <1>5, <1>12, <2>2 DEF MHz
      <2> QED
        BY <2>1, <2>2
    <1> QED
      BY <1>3, <1>8, <1>9, <1>13, <1>14 DEF Within, h

\* A step that leaves the AHB clock alone, and lowers neither the wait states
\* nor a divider of an APB, stays within the limits.
LEMMA StaysWithin ==
    ASSUME NEW r \in Registers, NEW q \in Registers, Within(r),
           Sysclk(q) = Sysclk(r), Ahb(q) = Ahb(r), q.acr >= r.acr,
           q.ppre1 = r.ppre1 \/ q.ppre1 = 7, q.ppre2 = r.ppre2 \/ q.ppre2 = 7
    PROVE  Within(q)
    <1> DEFINE h == Live(r).hclk
    <1>1. Sysclk(r) \in Nat /\ Sysclk(q) \in Nat
      BY SysclkType
    <1>2. /\ h = Sysclk(r) \div Ahb(r) /\ h \in 0 .. Sysclk(r)
          /\ Live(r).pclk1 = h \div Apb(r.ppre1) /\ Live(r).pclk2 = h \div Apb(r.ppre2)
      BY <1>1, LiveTree
    <1>3. /\ Live(q).hclk = h
          /\ Live(q).pclk1 = h \div Apb(q.ppre1) /\ Live(q).pclk2 = h \div Apb(q.ppre2)
      BY <1>1, <1>2, LiveTree
    <1>4. /\ h <= 168 * MHz /\ Live(r).pclk1 <= 42 * MHz /\ Live(r).pclk2 <= 84 * MHz
          /\ r.acr >= FlashLatency(h)
      BY DEF Within
    <1> HIDE DEF h
    <1>5. h \in Nat
      BY <1>1, <1>2
    <1>6. q.acr >= FlashLatency(h)
      <2>1. FlashLatency(h) \in Int
        BY <1>5, LatencyMonotone
      <2> QED
        BY <1>4, <2>1 DEF Registers
    <1>7. ASSUME NEW bits, bits = 7
          PROVE  h \div Apb(bits) <= 42 * MHz /\ h \div Apb(bits) <= 84 * MHz
      BY <1>4, <1>5, <1>7 DEF Apb, MHz
    <1> QED
      BY <1>2, <1>3, <1>4, <1>6, <1>7 DEF Within

-----------------------------------------------------------------------------
(* The steps *)

LEMMA SetHse ==
    ASSUME NEW r \in Registers, NEW on \in BOOLEAN
    PROVE  [r EXCEPT !.hse = on] \in Registers
    BY DEF Registers

LEMMA SetPll ==
    ASSUME NEW r \in Registers, NEW on \in BOOLEAN
    PROVE  [r EXCEPT !.pll = on] \in Registers
    BY DEF Registers

\* What the steps that write flags do.
LEMMA Flags ==
    /\ After["StartHse"] = [rcc EXCEPT !.hse = TRUE]
    /\ After["StopPll"] = [rcc EXCEPT !.pll = FALSE]
    /\ After["StartPll"] = [rcc EXCEPT !.pll = TRUE]
    <1>1. After["StartHse"] = [rcc EXCEPT !.hse = TRUE]
      BY Z3 DEF After
    <1>2. After["StopPll"] = [rcc EXCEPT !.pll = FALSE]
      BY Z3 DEF After
    <1>3. After["StartPll"] = [rcc EXCEPT !.pll = TRUE]
      BY Z3 DEF After
    <1> QED
      BY <1>1, <1>2, <1>3, Zenon

\* The HSI, which always runs, is selected.
LEMMA StepRunHsi ==
    ASSUME ClockTypeOK, Within(rcc), Powered(rcc), ~ failed, Ok(target), AtRunHsi, Step
    PROVE  /\ ClockTypeOK' /\ Within(rcc') /\ Powered(rcc') /\ ~ failed' /\ Ok(target')
           /\ (AtStartHse \/ AtStopPll \/ AtRaiseLatency)'
    <1>1. /\ todo # <<>> /\ Head(todo) = "RunHsi" /\ todo' = Tail(todo)
          /\ UNCHANGED <<target, code, failed>>
      BY DEF Step, AtRunHsi, RHsi5, RHsi8, RBoth5, RBoth8
    <1>2. rcc' = [rcc EXCEPT !.sw = "hsi"]
      BY <1>1 DEF Step, After
    <1>3. rcc \in Registers /\ target \in Configurations
      BY DEF ClockTypeOK
    <1>4. /\ rcc'.hse = rcc.hse /\ rcc'.pll = rcc.pll /\ rcc'.src = rcc.src
          /\ rcc'.m = rcc.m /\ rcc'.n = rcc.n /\ rcc'.p = rcc.p /\ rcc'.q = rcc.q
          /\ rcc'.sw = "hsi" /\ rcc'.hpre = rcc.hpre /\ rcc'.ppre1 = rcc.ppre1
          /\ rcc'.ppre2 = rcc.ppre2 /\ rcc'.acr = rcc.acr /\ rcc'.core = rcc.core
      BY <1>2, <1>3 DEF Registers
    <1>5. rcc' \in Registers
      BY <1>2, <1>3 DEF Registers
    <1>6. ClockTypeOK'
      BY <1>1, <1>3, <1>5 DEF ClockTypeOK
    <1>7. Within(rcc')
      <2>1. rcc'.sw # "pll"
        BY <1>4 DEF Registers
      <2> QED
        BY <1>5, <2>1, SlowWithin
    <1>8. Powered(rcc')
      BY <1>4 DEF Powered
    <1>9. (AtStartHse \/ AtStopPll \/ AtRaiseLatency)'
      <2>1. CASE todo = RHsi5
        <3>1. AtRaiseLatency'
          BY <1>1, <1>4, <2>1 DEF AtRunHsi, AtRaiseLatency, Ready, HseUp, PllUp, Left, OnPll,
             UsesHse,
                                  RHsi5, RHsi8, RBoth5, RBoth8, R5
        <3> QED
          BY <3>1
      <2>2. CASE todo = RHsi8
        <3>1. AtStopPll'
          BY <1>1, <1>4, <2>2 DEF AtRunHsi, AtStopPll, HseUp, Left, OnPll, UsesHse,
                                  RHsi5, RHsi8, RBoth5, RBoth8, R8
        <3> QED
          BY <3>1
      <2>3. CASE todo = RBoth5 \/ todo = RBoth8
        <3>1. /\ todo = RBoth5 => todo' = RHse5
              /\ todo = RBoth8 => todo' = RHse8
          <4>1. Tail(RBoth5) = RHse5 /\ Tail(RBoth8) = RHse8
            BY DEF RBoth5, RBoth8, RHse5, RHse8
          <4> QED
            BY <1>1, <4>1
        <3>2. /\ code = "registers" /\ UsesHse(target)
              /\ (~ OnPll(target) /\ todo = RBoth5) \/ (OnPll(target) /\ todo = RBoth8)
          BY <2>3 DEF AtRunHsi, RHsi5, RHsi8, RBoth5, RBoth8
        <3>3. /\ code' = "registers" /\ UsesHse(target') /\ rcc'.sw # "pll"
              /\ (~ OnPll(target') /\ todo' = RHse5) \/ (OnPll(target') /\ todo' = RHse8)
          BY <1>1, <1>4, <3>1, <3>2
        <3>4. AtStartHse'
          BY <3>3 DEF AtStartHse, Left
        <3> QED
          BY <3>4
      <2> QED
        BY <2>1, <2>2, <2>3 DEF AtRunHsi
    <1> QED
      BY <1>1, <1>6, <1>7, <1>8, <1>9

\* The HSE is started.
LEMMA StepStartHse ==
    ASSUME ClockTypeOK, Within(rcc), Powered(rcc), ~ failed, Ok(target), AtStartHse, Step
    PROVE  /\ ClockTypeOK' /\ Within(rcc') /\ Powered(rcc') /\ ~ failed' /\ Ok(target')
           /\ (AtCheckPll \/ AtStopPll \/ AtRaiseLatency)'
    <1>1. /\ todo # <<>> /\ Head(todo) = "StartHse" /\ todo' = Tail(todo)
          /\ UNCHANGED <<target, code, failed>>
      BY DEF Step, AtStartHse, Left, RHse5, RHse8, HHse9, HHse13
    <1>2. rcc' = [rcc EXCEPT !.hse = TRUE]
      BY <1>1, Flags DEF Step
    <1>3. rcc \in Registers /\ target \in Configurations
      BY DEF ClockTypeOK
    <1>4. /\ rcc'.hse = TRUE /\ rcc'.pll = rcc.pll /\ rcc'.src = rcc.src
          /\ rcc'.m = rcc.m /\ rcc'.n = rcc.n /\ rcc'.p = rcc.p /\ rcc'.q = rcc.q
          /\ rcc'.sw = rcc.sw /\ rcc'.hpre = rcc.hpre /\ rcc'.ppre1 = rcc.ppre1
          /\ rcc'.ppre2 = rcc.ppre2 /\ rcc'.acr = rcc.acr /\ rcc'.core = rcc.core
      BY <1>2, <1>3 DEF Registers
    <1>5. rcc' \in Registers
      BY <1>2, <1>3, SetHse
    <1>6. ClockTypeOK'
      BY <1>1, <1>3, <1>5 DEF ClockTypeOK
    <1>7. Within(rcc')
      <2>1. Sysclk(rcc') = Sysclk(rcc) /\ Ahb(rcc') = Ahb(rcc)
        BY <1>4 DEF Sysclk, Ahb
      <2> QED
        BY <1>3, <1>4, <1>5, <2>1, StaysWithin DEF Registers
    <1>8. Powered(rcc')
      BY <1>4 DEF Powered
    <1>9. (AtCheckPll \/ AtStopPll \/ AtRaiseLatency)'
      <2>1. CASE ~ OnPll(target)
        <3>1. Left(RHse5, HHse9)
          BY <2>1 DEF AtStartHse
        <3>2. Left(R5, H9)'
          <4>1. Tail(RHse5) = R5 /\ Tail(HHse9) = H9
            BY DEF RHse5, HHse9, R5, H9
          <4> QED
            BY <1>1, <3>1, <4>1 DEF Left
        <3>3. Ready'
          BY <1>1, <1>4, <2>1 DEF AtStartHse, Ready, HseUp, PllUp, OnPll
        <3> QED
          BY <3>2, <3>3 DEF AtRaiseLatency
      <2>2. CASE OnPll(target) /\ code = "registers"
        <3>1. todo' = R8
          <4>1. Tail(RHse8) = R8
            BY DEF RHse8, R8
          <4> QED
            BY <1>1, <2>2, <4>1 DEF AtStartHse, Left
        <3>2. HseUp' /\ rcc'.sw # "pll" /\ OnPll(target)'
          BY <1>1, <1>4, <2>2 DEF AtStartHse, HseUp
        <3> QED
          BY <1>1, <2>2, <3>1, <3>2 DEF AtStopPll, Left
      <2>3. CASE OnPll(target) /\ code = "hal"
        <3>1. todo' = H13
          <4>1. Tail(HHse13) = H13
            BY DEF HHse13, H13
          <4> QED
            BY <1>1, <2>3, <4>1 DEF AtStartHse, Left
        <3>2. HseUp' /\ OnPll(target)'
          BY <1>1, <1>4, <2>3 DEF AtStartHse, HseUp
        <3> QED
          BY <1>1, <2>3, <3>1, <3>2 DEF AtCheckPll
      <2> QED
        BY <2>1, <2>2, <2>3 DEF AtStartHse, Left
    <1> QED
      BY <1>1, <1>6, <1>7, <1>8, <1>9

\* The PLL, which is not in use, is stopped.
LEMMA StepStopPll ==
    ASSUME ClockTypeOK, Within(rcc), Powered(rcc), ~ failed, Ok(target), AtStopPll, Step
    PROVE  ClockTypeOK' /\ Within(rcc') /\ Powered(rcc') /\ ~ failed' /\ Ok(target') /\ AtWritePll'
    <1>1. /\ todo # <<>> /\ Head(todo) = "StopPll" /\ todo' = Tail(todo)
          /\ UNCHANGED <<target, code, failed>>
      BY DEF Step, AtStopPll, Left, R8, H12
    <1>2. rcc' = [rcc EXCEPT !.pll = FALSE]
      BY <1>1, Flags DEF Step
    <1>3. rcc \in Registers /\ target \in Configurations
      BY DEF ClockTypeOK
    <1>4. /\ rcc'.hse = rcc.hse /\ rcc'.pll = FALSE /\ rcc'.src = rcc.src
          /\ rcc'.m = rcc.m /\ rcc'.n = rcc.n /\ rcc'.p = rcc.p /\ rcc'.q = rcc.q
          /\ rcc'.sw = rcc.sw /\ rcc'.hpre = rcc.hpre /\ rcc'.ppre1 = rcc.ppre1
          /\ rcc'.ppre2 = rcc.ppre2 /\ rcc'.acr = rcc.acr /\ rcc'.core = rcc.core
      BY <1>2, <1>3 DEF Registers
    <1>5. rcc' \in Registers
      BY <1>2, <1>3, SetPll
    <1>6. ClockTypeOK'
      BY <1>1, <1>3, <1>5 DEF ClockTypeOK
    <1>7. Within(rcc')
      <2>1. rcc'.sw # "pll"
        BY <1>4 DEF AtStopPll
      <2> QED
        BY <1>5, <2>1, SlowWithin
    <1>8. Powered(rcc')
      BY <1>4 DEF Powered, AtStopPll
    <1>9. AtWritePll'
      <2>1. Left(R7, H11)'
        <3>1. Tail(R8) = R7 /\ Tail(H12) = H11
          BY DEF R8, R7, H12, H11
        <3> QED
          BY <1>1, <3>1 DEF AtStopPll, Left
      <2>2. (OnPll(target) /\ HseUp /\ rcc.sw # "pll" /\ ~ rcc.pll)'
        BY <1>1, <1>3, <1>4 DEF AtStopPll, HseUp
      <2> QED
        BY <2>1, <2>2 DEF AtWritePll
    <1> QED
      BY <1>1, <1>6, <1>7, <1>8, <1>9

\* The PLL, which is off, is set.
LEMMA StepWritePll ==
    ASSUME ClockTypeOK, Within(rcc), Powered(rcc), ~ failed, Ok(target), AtWritePll, Step
    PROVE  ClockTypeOK' /\ Within(rcc') /\ Powered(rcc') /\ ~ failed' /\ Ok(target') /\ AtStartPll'
    <1>1. /\ todo # <<>> /\ Head(todo) = "WritePll" /\ todo' = Tail(todo)
          /\ UNCHANGED <<target, code, failed>>
      BY DEF Step, AtWritePll, Left, R7, H11
    <1>2. rcc' = [rcc EXCEPT !.src = target.src, !.m = target.m, !.n = target.n,
                             !.p = target.p \div 2 - 1, !.q = target.q]
      BY <1>1 DEF Step, After
    <1>3. rcc \in Registers /\ target \in Configurations
      BY DEF ClockTypeOK
    <1>p. /\ target.src \in {"hsi", "hse"} /\ target.m \in 2 .. 63 /\ target.n \in 50 .. 432
          /\ target.q \in 2 .. 15 /\ target.p \div 2 - 1 \in 0 .. 3
          /\ 2 * ((target.p \div 2 - 1) + 1) = target.p
      <2>1. target.p \in {2, 4, 6, 8} /\ target.m \in 2 .. 63 /\ target.n \in 50 .. 432 /\ target.q \in 2 .. 15
        BY <1>3, OkParts DEF AtWritePll
      <2> QED
        BY <1>3, <2>1 DEF Configurations
    <1>4. /\ rcc'.hse = rcc.hse /\ rcc'.pll = rcc.pll /\ rcc'.src = target.src
          /\ rcc'.m = target.m /\ rcc'.n = target.n /\ rcc'.p = target.p \div 2 - 1
          /\ rcc'.q = target.q /\ rcc'.sw = rcc.sw /\ rcc'.hpre = rcc.hpre
          /\ rcc'.ppre1 = rcc.ppre1 /\ rcc'.ppre2 = rcc.ppre2 /\ rcc'.acr = rcc.acr
          /\ rcc'.core = rcc.core
      BY <1>2, <1>3 DEF Registers
    <1>5. rcc' \in Registers
      <2> DEFINE r1 == [rcc EXCEPT !.src = target.src]
                 r2 == [r1 EXCEPT !.m = target.m]
                 r3 == [r2 EXCEPT !.n = target.n]
                 r4 == [r3 EXCEPT !.p = target.p \div 2 - 1]
                 r5 == [r4 EXCEPT !.q = target.q]
      <2>1. rcc' = r5
        BY <1>2
      <2> HIDE DEF r1, r2, r3, r4, r5
      <2>2. r1 \in Registers
        BY <1>3, <1>p DEF Registers, r1
      <2>3. r2 \in Registers
        BY <1>3, <1>p, <2>2 DEF Registers, r2
      <2>4. r3 \in Registers
        BY <1>3, <1>p, <2>3 DEF Registers, r3
      <2>5. r4 \in Registers
        BY <1>3, <1>p, <2>4 DEF Registers, r4
      <2>6. r5 \in Registers
        BY <1>3, <1>p, <2>5 DEF Registers, r5
      <2> QED
        BY <2>1, <2>6
    <1>6. ClockTypeOK'
      BY <1>1, <1>3, <1>5 DEF ClockTypeOK
    <1>7. Within(rcc')
      <2>1. rcc'.sw # "pll"
        BY <1>4 DEF AtWritePll
      <2> QED
        BY <1>5, <2>1, SlowWithin
    <1>8. Powered(rcc')
      BY <1>4 DEF Powered, AtWritePll
    <1>9. AtStartPll'
      <2>1. Left(R6, H10)'
        <3>1. Tail(R7) = R6 /\ Tail(H11) = H10
          BY DEF R7, R6, H11, H10
        <3> QED
          BY <1>1, <3>1 DEF AtWritePll, Left
      <2>2. (OnPll(target) /\ HseUp /\ rcc.sw # "pll" /\ ~ rcc.pll /\ Tuned(rcc, target))'
        BY <1>1, <1>3, <1>4, <1>p DEF AtWritePll, HseUp, Tuned
      <2> QED
        BY <2>1, <2>2 DEF AtStartPll
    <1> QED
      BY <1>1, <1>6, <1>7, <1>8, <1>9

\* The PLL is started; its source runs.
LEMMA StepStartPll ==
    ASSUME ClockTypeOK, Within(rcc), Powered(rcc), ~ failed, Ok(target), AtStartPll, Step
    PROVE  ClockTypeOK' /\ Within(rcc') /\ Powered(rcc') /\ ~ failed' /\ Ok(target') /\ AtRaiseLatency'
    <1>1. /\ todo # <<>> /\ Head(todo) = "StartPll" /\ todo' = Tail(todo)
          /\ UNCHANGED <<target, code, failed>>
      BY DEF Step, AtStartPll, Left, R6, H10
    <1>2. rcc' = [rcc EXCEPT !.pll = TRUE]
      BY <1>1, Flags DEF Step
    <1>3. rcc \in Registers /\ target \in Configurations
      BY DEF ClockTypeOK
    <1>4. /\ rcc'.hse = rcc.hse /\ rcc'.pll = TRUE /\ rcc'.src = rcc.src
          /\ rcc'.m = rcc.m /\ rcc'.n = rcc.n /\ rcc'.p = rcc.p /\ rcc'.q = rcc.q
          /\ rcc'.sw = rcc.sw /\ rcc'.hpre = rcc.hpre /\ rcc'.ppre1 = rcc.ppre1
          /\ rcc'.ppre2 = rcc.ppre2 /\ rcc'.acr = rcc.acr /\ rcc'.core = rcc.core
      BY <1>2, <1>3 DEF Registers
    <1>5. rcc' \in Registers
      BY <1>2, <1>3, SetPll
    <1>6. ClockTypeOK'
      BY <1>1, <1>3, <1>5 DEF ClockTypeOK
    <1>7. Within(rcc')
      <2>1. rcc'.sw # "pll"
        BY <1>4 DEF AtStartPll
      <2> QED
        BY <1>5, <2>1, SlowWithin
    <1>8. Powered(rcc')
      BY <1>4 DEF Powered, AtStartPll, HseUp, UsesHse, OnPll, Tuned
    <1>9. AtRaiseLatency'
      <2>1. Left(R5, H9)'
        <3>1. Tail(R6) = R5 /\ Tail(H10) = H9
          BY DEF R6, R5, H10, H9
        <3> QED
          BY <1>1, <3>1 DEF AtStartPll, Left
      <2>2. (Ready)'
        BY <1>1, <1>3, <1>4 DEF AtStartPll, Ready, HseUp, PllUp, Tuned
      <2> QED
        BY <2>1, <2>2 DEF AtRaiseLatency
    <1> QED
      BY <1>1, <1>6, <1>7, <1>8, <1>9

\* The wait states are enough for the target from here on.
LEMMA StepRaiseLatency ==
    ASSUME ClockTypeOK, Within(rcc), Powered(rcc), ~ failed, Ok(target), AtRaiseLatency, Step
    PROVE  /\ ClockTypeOK' /\ Within(rcc') /\ Powered(rcc') /\ ~ failed' /\ Ok(target')
           /\ (AtWritePrescalers \/ AtSlowApb1)'
    <1>1. /\ todo # <<>> /\ Head(todo) = "RaiseLatency" /\ todo' = Tail(todo)
          /\ UNCHANGED <<target, code, failed>>
      BY DEF Step, AtRaiseLatency, Left, R5, H9
    <1>2. rcc' = [rcc EXCEPT !.acr = IF @ < FlashLatency(Computed(target).hclk)
                                     THEN FlashLatency(Computed(target).hclk)
                                     ELSE @]
      BY <1>1 DEF Step, After
    <1>3. rcc \in Registers /\ target \in Configurations
      BY DEF ClockTypeOK
    <1>l. target \in Configurations /\ FlashLatency(Computed(target).hclk) \in 0 .. 7
      BY <1>3, TargetLatency
    <1>4. /\ rcc'.hse = rcc.hse /\ rcc'.pll = rcc.pll /\ rcc'.src = rcc.src
          /\ rcc'.m = rcc.m /\ rcc'.n = rcc.n /\ rcc'.p = rcc.p /\ rcc'.q = rcc.q
          /\ rcc'.sw = rcc.sw /\ rcc'.hpre = rcc.hpre /\ rcc'.ppre1 = rcc.ppre1
          /\ rcc'.ppre2 = rcc.ppre2
          /\ rcc'.acr = IF rcc.acr < FlashLatency(Computed(target).hclk)
                        THEN FlashLatency(Computed(target).hclk)
                        ELSE rcc.acr
          /\ rcc'.core = rcc.core
      BY <1>2, <1>3 DEF Registers
    <1>5. rcc' \in Registers
      BY <1>2, <1>3, <1>l DEF Registers
    <1>6. ClockTypeOK'
      BY <1>1, <1>3, <1>5 DEF ClockTypeOK
    <1>7. Within(rcc')
      <2>1. Sysclk(rcc') = Sysclk(rcc) /\ Ahb(rcc') = Ahb(rcc)
        BY <1>4 DEF Sysclk, Ahb
      <2> QED
        BY <1>3, <1>4, <1>5, <1>l, <2>1, StaysWithin DEF Registers
    <1>8. Powered(rcc')
      BY <1>4 DEF Powered
    <1>9. (AtWritePrescalers \/ AtSlowApb1)'
      <2>1. Ready' /\ Waits'
        BY <1>1, <1>3, <1>4, <1>l DEF AtRaiseLatency, Ready, Waits, HseUp, PllUp, OnPll,
           UsesHse, Tuned, Registers
      <2>2. CASE code = "registers"
        <3>1. Tail(R5) = R4
          BY DEF R5, R4
        <3>2. todo' = R4
          BY <1>1, <2>2, <3>1 DEF AtRaiseLatency, Left
        <3> QED
          BY <1>1, <2>1, <2>2, <3>2 DEF AtWritePrescalers
      <2>3. CASE code = "hal"
        <3>1. Tail(H9) = H8
          BY DEF H9, H8
        <3>2. todo' = H8
          BY <1>1, <2>3, <3>1 DEF AtRaiseLatency, Left
        <3> QED
          BY <1>1, <2>1, <2>3, <3>2 DEF AtSlowApb1
      <2> QED
        BY <2>2, <2>3 DEF AtRaiseLatency, Left
    <1> QED
      BY <1>1, <1>6, <1>7, <1>8, <1>9

\* APB1 is slowed.
LEMMA StepSlowApb1 ==
    ASSUME ClockTypeOK, Within(rcc), Powered(rcc), ~ failed, Ok(target), AtSlowApb1, Step
    PROVE  ClockTypeOK' /\ Within(rcc') /\ Powered(rcc') /\ ~ failed' /\ Ok(target') /\ AtSlowApb2'
    <1>1. /\ todo # <<>> /\ Head(todo) = "SlowApb1" /\ todo' = Tail(todo)
          /\ UNCHANGED <<target, code, failed>>
      BY DEF Step, AtSlowApb1, H8
    <1>2. rcc' = [rcc EXCEPT !.ppre1 = 7]
      BY <1>1 DEF Step, After
    <1>3. rcc \in Registers /\ target \in Configurations
      BY DEF ClockTypeOK
    <1>4. /\ rcc'.hse = rcc.hse /\ rcc'.pll = rcc.pll /\ rcc'.src = rcc.src
          /\ rcc'.m = rcc.m /\ rcc'.n = rcc.n /\ rcc'.p = rcc.p /\ rcc'.q = rcc.q
          /\ rcc'.sw = rcc.sw /\ rcc'.hpre = rcc.hpre /\ rcc'.ppre1 = 7
          /\ rcc'.ppre2 = rcc.ppre2 /\ rcc'.acr = rcc.acr /\ rcc'.core = rcc.core
      BY <1>2, <1>3 DEF Registers
    <1>5. rcc' \in Registers
      BY <1>2, <1>3 DEF Registers
    <1>6. ClockTypeOK'
      BY <1>1, <1>3, <1>5 DEF ClockTypeOK
    <1>7. Within(rcc')
      <2>1. Sysclk(rcc') = Sysclk(rcc) /\ Ahb(rcc') = Ahb(rcc)
        BY <1>4 DEF Sysclk, Ahb
      <2> QED
        BY <1>3, <1>4, <1>5, <2>1, StaysWithin DEF Registers
    <1>8. Powered(rcc')
      BY <1>4 DEF Powered
    <1>9. AtSlowApb2'
      <2>1. Ready' /\ Waits'
        BY <1>1, <1>4 DEF AtSlowApb1, Ready, Waits, HseUp, PllUp, OnPll, UsesHse, Tuned
      <2> QED
        BY <1>1, <1>4, <2>1 DEF AtSlowApb1, AtSlowApb2, Slow1, H7, H8
    <1> QED
      BY <1>1, <1>6, <1>7, <1>8, <1>9

\* APB2 is slowed.
LEMMA StepSlowApb2 ==
    ASSUME ClockTypeOK, Within(rcc), Powered(rcc), ~ failed, Ok(target), AtSlowApb2, Step
    PROVE  ClockTypeOK' /\ Within(rcc') /\ Powered(rcc') /\ ~ failed' /\ Ok(target') /\ AtWriteAhb'
    <1>1. /\ todo # <<>> /\ Head(todo) = "SlowApb2" /\ todo' = Tail(todo)
          /\ UNCHANGED <<target, code, failed>>
      BY DEF Step, AtSlowApb2, H7
    <1>2. rcc' = [rcc EXCEPT !.ppre2 = 7]
      BY <1>1 DEF Step, After
    <1>3. rcc \in Registers /\ target \in Configurations
      BY DEF ClockTypeOK
    <1>4. /\ rcc'.hse = rcc.hse /\ rcc'.pll = rcc.pll /\ rcc'.src = rcc.src
          /\ rcc'.m = rcc.m /\ rcc'.n = rcc.n /\ rcc'.p = rcc.p /\ rcc'.q = rcc.q
          /\ rcc'.sw = rcc.sw /\ rcc'.hpre = rcc.hpre /\ rcc'.ppre1 = rcc.ppre1
          /\ rcc'.ppre2 = 7 /\ rcc'.acr = rcc.acr /\ rcc'.core = rcc.core
      BY <1>2, <1>3 DEF Registers
    <1>5. rcc' \in Registers
      BY <1>2, <1>3 DEF Registers
    <1>6. ClockTypeOK'
      BY <1>1, <1>3, <1>5 DEF ClockTypeOK
    <1>7. Within(rcc')
      <2>1. Sysclk(rcc') = Sysclk(rcc) /\ Ahb(rcc') = Ahb(rcc)
        BY <1>4 DEF Sysclk, Ahb
      <2> QED
        BY <1>3, <1>4, <1>5, <2>1, StaysWithin DEF Registers
    <1>8. Powered(rcc')
      BY <1>4 DEF Powered
    <1>9. AtWriteAhb'
      <2>1. Ready' /\ Waits'
        BY <1>1, <1>4 DEF AtSlowApb2, Ready, Waits, HseUp, PllUp, OnPll, UsesHse, Tuned
      <2> QED
        BY <1>1, <1>4, <2>1 DEF AtSlowApb2, AtWriteAhb, Slow1, Slow2, H6, H7
    <1> QED
      BY <1>1, <1>6, <1>7, <1>8, <1>9

\* The divider of the AHB is set.
LEMMA StepWriteAhb ==
    ASSUME ClockTypeOK, Within(rcc), Powered(rcc), ~ failed, Ok(target), AtWriteAhb, Step
    PROVE  ClockTypeOK' /\ Within(rcc') /\ Powered(rcc') /\ ~ failed' /\ Ok(target') /\ AtSelect'
    <1>1. /\ todo # <<>> /\ Head(todo) = "WriteAhb" /\ todo' = Tail(todo)
          /\ UNCHANGED <<target, code, failed>>
      BY DEF Step, AtWriteAhb, H6
    <1>2. rcc' = [rcc EXCEPT !.hpre = HpreBits(target.ahb)]
      BY <1>1 DEF Step, After
    <1>3. rcc \in Registers /\ target \in Configurations
      BY DEF ClockTypeOK
    <1>h. /\ HpreBits(target.ahb) \in {0} \cup 8 .. 15
          /\ \A r : r.hpre = HpreBits(target.ahb) => Ahb(r) = target.ahb
      BY <1>3, OkParts, AhbRoundTrip
    <1>4. /\ rcc'.hse = rcc.hse /\ rcc'.pll = rcc.pll /\ rcc'.src = rcc.src
          /\ rcc'.m = rcc.m /\ rcc'.n = rcc.n /\ rcc'.p = rcc.p /\ rcc'.q = rcc.q
          /\ rcc'.sw = rcc.sw /\ rcc'.hpre = HpreBits(target.ahb)
          /\ rcc'.ppre1 = rcc.ppre1 /\ rcc'.ppre2 = rcc.ppre2 /\ rcc'.acr = rcc.acr
          /\ rcc'.core = rcc.core
      BY <1>2, <1>3 DEF Registers
    <1>i. Ahb(rcc') = target.ahb
      BY <1>4, <1>h
    <1>5. rcc' \in Registers
      BY <1>2, <1>3, <1>h DEF Registers
    <1>6. ClockTypeOK'
      BY <1>1, <1>3, <1>5 DEF ClockTypeOK
    <1>7. Within(rcc')
      <2>1. CASE rcc.sw # "pll"
        BY <1>4, <1>5, <2>1, SlowWithin
      <2>2. CASE rcc.sw = "pll"
        <3>1. rcc'.sw = target.sysclk /\ (OnPll(target) => Tuned(rcc', target))
          BY <1>4, <2>2 DEF AtWriteAhb, Ready, PllUp, OnPll, Tuned
        <3>2. rcc'.acr >= FlashLatency(Computed(target).hclk)
          BY <1>4 DEF AtWriteAhb, Waits
        <3>3. rcc'.ppre1 = 7 /\ rcc'.ppre2 = 7
          BY <1>4, <1>i DEF AtWriteAhb, Slow1, Slow2
        <3> QED
          BY <1>3, <1>5, <1>i, <3>1, <3>2, <3>3, FastWithin
      <2> QED
        BY <2>1, <2>2
    <1>8. Powered(rcc')
      BY <1>4 DEF Powered
    <1>9. AtSelect'
      <2>1. Ready' /\ Waits'
        BY <1>1, <1>4 DEF AtWriteAhb, Ready, Waits, HseUp, PllUp, OnPll, UsesHse, Tuned
      <2> QED
        BY <1>1, <1>4, <1>i, <2>1 DEF AtWriteAhb, AtSelect, AhbSet, Slow1, Slow2, H5, H6
    <1> QED
      BY <1>1, <1>6, <1>7, <1>8, <1>9

\* All dividers are set.
LEMMA StepWritePrescalers ==
    ASSUME ClockTypeOK, Within(rcc), Powered(rcc), ~ failed, Ok(target), AtWritePrescalers, Step
    PROVE  ClockTypeOK' /\ Within(rcc') /\ Powered(rcc') /\ ~ failed' /\ Ok(target') /\ AtSelect'
    <1>1. /\ todo # <<>> /\ Head(todo) = "WritePrescalers" /\ todo' = Tail(todo)
          /\ UNCHANGED <<target, code, failed>>
      BY DEF Step, AtWritePrescalers, R4
    <1>2. rcc' = [rcc EXCEPT !.hpre = HpreBits(target.ahb), !.ppre1 = PpreBits(target.apb1),
                             !.ppre2 = PpreBits(target.apb2)]
      BY <1>1 DEF Step, After
    <1>3. rcc \in Registers /\ target \in Configurations
      BY DEF ClockTypeOK
    <1>h. /\ HpreBits(target.ahb) \in {0} \cup 8 .. 15
          /\ \A r : r.hpre = HpreBits(target.ahb) => Ahb(r) = target.ahb
      BY <1>3, OkParts, AhbRoundTrip
    <1>b1. PpreBits(target.apb1) \in {0} \cup 4 .. 7 /\ Apb(PpreBits(target.apb1)) = target.apb1
      BY <1>3, OkParts, ApbRoundTrip
    <1>b2. PpreBits(target.apb2) \in {0} \cup 4 .. 7 /\ Apb(PpreBits(target.apb2)) = target.apb2
      BY <1>3, OkParts, ApbRoundTrip
    <1>4. /\ rcc'.hse = rcc.hse /\ rcc'.pll = rcc.pll /\ rcc'.src = rcc.src
          /\ rcc'.m = rcc.m /\ rcc'.n = rcc.n /\ rcc'.p = rcc.p /\ rcc'.q = rcc.q
          /\ rcc'.sw = rcc.sw /\ rcc'.hpre = HpreBits(target.ahb)
          /\ rcc'.ppre1 = PpreBits(target.apb1) /\ rcc'.ppre2 = PpreBits(target.apb2)
          /\ rcc'.acr = rcc.acr /\ rcc'.core = rcc.core
      BY <1>2, <1>3 DEF Registers
    <1>i. Ahb(rcc') = target.ahb
      BY <1>4, <1>h
    <1>5. rcc' \in Registers
      <2> DEFINE r1 == [rcc EXCEPT !.hpre = HpreBits(target.ahb)]
                 r2 == [r1 EXCEPT !.ppre1 = PpreBits(target.apb1)]
                 r3 == [r2 EXCEPT !.ppre2 = PpreBits(target.apb2)]
      <2>1. rcc' = r3
        BY <1>2
      <2> HIDE DEF r1, r2, r3
      <2>2. r1 \in Registers
        BY <1>3, <1>h, <1>b1, <1>b2 DEF Registers, r1
      <2>3. r2 \in Registers
        BY <1>3, <1>h, <1>b1, <1>b2, <2>2 DEF Registers, r2
      <2>4. r3 \in Registers
        BY <1>3, <1>h, <1>b1, <1>b2, <2>3 DEF Registers, r3
      <2> QED
        BY <2>1, <2>4
    <1>6. ClockTypeOK'
      BY <1>1, <1>3, <1>5 DEF ClockTypeOK
    <1>7. Within(rcc')
      <2>1. CASE rcc.sw # "pll"
        BY <1>4, <1>5, <2>1, SlowWithin
      <2>2. CASE rcc.sw = "pll"
        <3>1. rcc'.sw = target.sysclk /\ (OnPll(target) => Tuned(rcc', target))
          BY <1>4, <2>2 DEF AtWritePrescalers, Ready, PllUp, OnPll, Tuned
        <3>2. rcc'.acr >= FlashLatency(Computed(target).hclk)
          BY <1>4 DEF AtWritePrescalers, Waits
        <3>3. Apb(rcc'.ppre1) = target.apb1 /\ Apb(rcc'.ppre2) = target.apb2
          BY <1>4, <1>i, <1>b1, <1>b2 DEF AtWritePrescalers, Slow1, Slow2
        <3> QED
          BY <1>3, <1>5, <1>i, <1>b1, <1>b2, <3>1, <3>2, <3>3, FastWithin
      <2> QED
        BY <2>1, <2>2
    <1>8. Powered(rcc')
      BY <1>4 DEF Powered
    <1>9. AtSelect'
      <2>1. Ready' /\ Waits'
        BY <1>1, <1>4 DEF AtWritePrescalers, Ready, Waits, HseUp, PllUp, OnPll, UsesHse, Tuned
      <2> QED
        BY <1>1, <1>4, <1>i, <1>b1, <1>b2, <2>1 DEF AtWritePrescalers, AtSelect, AhbSet,
           Apb1Set, Apb2Set, R3, R4
    <1> QED
      BY <1>1, <1>6, <1>7, <1>8, <1>9

\* The source of the target is selected.
LEMMA StepSelect ==
    ASSUME ClockTypeOK, Within(rcc), Powered(rcc), ~ failed, Ok(target), AtSelect, Step
    PROVE  /\ ClockTypeOK' /\ Within(rcc') /\ Powered(rcc') /\ ~ failed' /\ Ok(target')
           /\ (AtSetLatency \/ AtLowerLatency)'
    <1>1. /\ todo # <<>> /\ Head(todo) = "Select" /\ todo' = Tail(todo)
          /\ UNCHANGED <<target, code, failed>>
      BY DEF Step, AtSelect, R3, H5
    <1>2. rcc' = [rcc EXCEPT !.sw = target.sysclk]
      BY <1>1 DEF Step, After
    <1>3. rcc \in Registers /\ target \in Configurations
      BY DEF ClockTypeOK
    <1>l. target \in Configurations /\ FlashLatency(Computed(target).hclk) \in 0 .. 7
      BY <1>3, TargetLatency
    <1>c. target.sysclk \in {"hsi", "hse", "pll"}
      BY <1>3 DEF Configurations
    <1>4. /\ rcc'.hse = rcc.hse /\ rcc'.pll = rcc.pll /\ rcc'.src = rcc.src
          /\ rcc'.m = rcc.m /\ rcc'.n = rcc.n /\ rcc'.p = rcc.p /\ rcc'.q = rcc.q
          /\ rcc'.sw = target.sysclk /\ rcc'.hpre = rcc.hpre /\ rcc'.ppre1 = rcc.ppre1
          /\ rcc'.ppre2 = rcc.ppre2 /\ rcc'.acr = rcc.acr /\ rcc'.core = rcc.core
      BY <1>2, <1>3 DEF Registers
    <1>5. rcc' \in Registers
      BY <1>2, <1>3, <1>c DEF Registers
    <1>6. ClockTypeOK'
      BY <1>1, <1>3, <1>5 DEF ClockTypeOK
    <1>7. Within(rcc')
      <2>1. rcc'.sw = target.sysclk /\ (OnPll(target) => Tuned(rcc', target))
        BY <1>4 DEF AtSelect, Ready, Selected, PllUp, OnPll, Tuned
      <2>2. rcc'.acr >= FlashLatency(Computed(target).hclk)
        BY <1>3, <1>4, <1>l DEF AtSelect, Waits, Registers
      <2>3. Ahb(rcc') = target.ahb
        BY <1>4 DEF AtSelect, Selected, AhbSet, Ahb
      <2>4. /\ Apb(rcc'.ppre1) = target.apb1 \/ rcc'.ppre1 = 7
            /\ Apb(rcc'.ppre2) = target.apb2 \/ rcc'.ppre2 = 7
        BY <1>4 DEF AtSelect, Apb1Set, Apb2Set, Slow1, Slow2
      <2> QED
        BY <1>3, <1>5, <2>1, <2>2, <2>3, <2>4, FastWithin
    <1>8. Powered(rcc')
      BY <1>4 DEF Powered, AtSelect, Ready, HseUp, PllUp, OnPll, UsesHse, Tuned
    <1>9. (AtSetLatency \/ AtLowerLatency)'
      <2>1. Selected' /\ Waits'
        BY <1>1, <1>4 DEF AtSelect, Selected, Waits, Ready, HseUp, PllUp, OnPll, UsesHse, Tuned,
           AhbSet, Ahb
      <2>2. CASE code = "registers"
        <3>1. Tail(R3) = R2
          BY DEF R3, R2
        <3>2. todo' = R2 /\ Apb1Set' /\ Apb2Set'
          BY <1>1, <1>4, <2>2, <3>1 DEF AtSelect, Apb1Set, Apb2Set
        <3> QED
          BY <1>1, <2>1, <2>2, <3>2 DEF AtSetLatency
      <2>3. CASE code = "hal"
        <3>1. Tail(H5) = H4
          BY DEF H5, H4
        <3>2. todo' = H4 /\ Slow1' /\ Slow2'
          BY <1>1, <1>4, <2>3, <3>1 DEF AtSelect, Slow1, Slow2
        <3> QED
          BY <1>1, <2>1, <2>3, <3>2 DEF AtLowerLatency
      <2> QED
        BY <2>2, <2>3 DEF AtSelect
    <1> QED
      BY <1>1, <1>6, <1>7, <1>8, <1>9

\* The wait states are those of the target.
LEMMA StepSetLatency ==
    ASSUME ClockTypeOK, Within(rcc), Powered(rcc), ~ failed, Ok(target), AtSetLatency, Step
    PROVE  ClockTypeOK' /\ Within(rcc') /\ Powered(rcc') /\ ~ failed' /\ Ok(target') /\ AtUpdateCore'
    <1>1. /\ todo # <<>> /\ Head(todo) = "SetLatency" /\ todo' = Tail(todo)
          /\ UNCHANGED <<target, code, failed>>
      BY DEF Step, AtSetLatency, R2
    <1>2. rcc' = [rcc EXCEPT !.acr = FlashLatency(Computed(target).hclk)]
      BY <1>1 DEF Step, After
    <1>3. rcc \in Registers /\ target \in Configurations
      BY DEF ClockTypeOK
    <1>l. target \in Configurations /\ FlashLatency(Computed(target).hclk) \in 0 .. 7
      BY <1>3, TargetLatency
    <1>4. /\ rcc'.hse = rcc.hse /\ rcc'.pll = rcc.pll /\ rcc'.src = rcc.src
          /\ rcc'.m = rcc.m /\ rcc'.n = rcc.n /\ rcc'.p = rcc.p /\ rcc'.q = rcc.q
          /\ rcc'.sw = rcc.sw /\ rcc'.hpre = rcc.hpre /\ rcc'.ppre1 = rcc.ppre1
          /\ rcc'.ppre2 = rcc.ppre2 /\ rcc'.acr = FlashLatency(Computed(target).hclk)
          /\ rcc'.core = rcc.core
      BY <1>2, <1>3 DEF Registers
    <1>5. rcc' \in Registers
      BY <1>2, <1>3, <1>l DEF Registers
    <1>6. ClockTypeOK'
      BY <1>1, <1>3, <1>5 DEF ClockTypeOK
    <1>7. Within(rcc')
      <2>1. rcc'.sw = target.sysclk /\ (OnPll(target) => Tuned(rcc', target))
        BY <1>4 DEF AtSetLatency, Ready, Selected, PllUp, OnPll, Tuned
      <2>2. rcc'.acr >= FlashLatency(Computed(target).hclk)
        BY <1>3, <1>4, <1>l DEF AtSetLatency, Waits, Registers
      <2>3. Ahb(rcc') = target.ahb
        BY <1>4 DEF AtSetLatency, Selected, AhbSet, Ahb
      <2>4. /\ Apb(rcc'.ppre1) = target.apb1 \/ rcc'.ppre1 = 7
            /\ Apb(rcc'.ppre2) = target.apb2 \/ rcc'.ppre2 = 7
        BY <1>4 DEF AtSetLatency, Apb1Set, Apb2Set, Slow1, Slow2
      <2> QED
        BY <1>3, <1>5, <2>1, <2>2, <2>3, <2>4, FastWithin
    <1>8. Powered(rcc')
      BY <1>4 DEF Powered
    <1>9. AtUpdateCore'
      <2>1. Selected'
        BY <1>1, <1>4 DEF AtSetLatency, Selected, HseUp, PllUp, OnPll, UsesHse, Tuned, AhbSet, Ahb
      <2> QED
        BY <1>1, <1>4, <2>1 DEF AtSetLatency, AtUpdateCore, Apb1Set, Apb2Set, R1, R2
    <1> QED
      BY <1>1, <1>6, <1>7, <1>8, <1>9

\* The wait states are lowered to those of the target.
LEMMA StepLowerLatency ==
    ASSUME ClockTypeOK, Within(rcc), Powered(rcc), ~ failed, Ok(target), AtLowerLatency, Step
    PROVE  ClockTypeOK' /\ Within(rcc') /\ Powered(rcc') /\ ~ failed' /\ Ok(target') /\ AtWriteApb1'
    <1>1. /\ todo # <<>> /\ Head(todo) = "LowerLatency" /\ todo' = Tail(todo)
          /\ UNCHANGED <<target, code, failed>>
      BY DEF Step, AtLowerLatency, H4
    <1>2. rcc' = [rcc EXCEPT !.acr = IF @ > FlashLatency(Computed(target).hclk)
                                     THEN FlashLatency(Computed(target).hclk)
                                     ELSE @]
      BY <1>1 DEF Step, After
    <1>3. rcc \in Registers /\ target \in Configurations
      BY DEF ClockTypeOK
    <1>l. target \in Configurations /\ FlashLatency(Computed(target).hclk) \in 0 .. 7
      BY <1>3, TargetLatency
    <1>4. /\ rcc'.hse = rcc.hse /\ rcc'.pll = rcc.pll /\ rcc'.src = rcc.src
          /\ rcc'.m = rcc.m /\ rcc'.n = rcc.n /\ rcc'.p = rcc.p /\ rcc'.q = rcc.q
          /\ rcc'.sw = rcc.sw /\ rcc'.hpre = rcc.hpre /\ rcc'.ppre1 = rcc.ppre1
          /\ rcc'.ppre2 = rcc.ppre2
          /\ rcc'.acr = IF rcc.acr > FlashLatency(Computed(target).hclk)
                        THEN FlashLatency(Computed(target).hclk)
                        ELSE rcc.acr
          /\ rcc'.core = rcc.core
      BY <1>2, <1>3 DEF Registers
    <1>5. rcc' \in Registers
      BY <1>2, <1>3, <1>l DEF Registers
    <1>6. ClockTypeOK'
      BY <1>1, <1>3, <1>5 DEF ClockTypeOK
    <1>7. Within(rcc')
      <2>1. rcc'.sw = target.sysclk /\ (OnPll(target) => Tuned(rcc', target))
        BY <1>4 DEF AtLowerLatency, Ready, Selected, PllUp, OnPll, Tuned
      <2>2. rcc'.acr >= FlashLatency(Computed(target).hclk)
        BY <1>3, <1>4, <1>l DEF AtLowerLatency, Waits, Registers
      <2>3. Ahb(rcc') = target.ahb
        BY <1>4 DEF AtLowerLatency, Selected, AhbSet, Ahb
      <2>4. /\ Apb(rcc'.ppre1) = target.apb1 \/ rcc'.ppre1 = 7
            /\ Apb(rcc'.ppre2) = target.apb2 \/ rcc'.ppre2 = 7
        BY <1>4 DEF AtLowerLatency, Apb1Set, Apb2Set, Slow1, Slow2
      <2> QED
        BY <1>3, <1>5, <2>1, <2>2, <2>3, <2>4, FastWithin
    <1>8. Powered(rcc')
      BY <1>4 DEF Powered
    <1>9. AtWriteApb1'
      <2>1. Selected'
        BY <1>1, <1>4 DEF AtLowerLatency, Selected, HseUp, PllUp, OnPll, UsesHse, Tuned, AhbSet, Ahb
      <2>2. Waits'
        BY <1>1, <1>3, <1>4, <1>l DEF AtLowerLatency, Waits, Registers
      <2> QED
        BY <1>1, <1>4, <2>1, <2>2 DEF AtLowerLatency, AtWriteApb1, Slow1, Slow2, H3, H4
    <1> QED
      BY <1>1, <1>6, <1>7, <1>8, <1>9

\* The divider of APB1 is set.
LEMMA StepWriteApb1 ==
    ASSUME ClockTypeOK, Within(rcc), Powered(rcc), ~ failed, Ok(target), AtWriteApb1, Step
    PROVE  ClockTypeOK' /\ Within(rcc') /\ Powered(rcc') /\ ~ failed' /\ Ok(target') /\ AtWriteApb2'
    <1>1. /\ todo # <<>> /\ Head(todo) = "WriteApb1" /\ todo' = Tail(todo)
          /\ UNCHANGED <<target, code, failed>>
      BY DEF Step, AtWriteApb1, H3
    <1>2. rcc' = [rcc EXCEPT !.ppre1 = PpreBits(target.apb1)]
      BY <1>1 DEF Step, After
    <1>3. rcc \in Registers /\ target \in Configurations
      BY DEF ClockTypeOK
    <1>b1. PpreBits(target.apb1) \in {0} \cup 4 .. 7 /\ Apb(PpreBits(target.apb1)) = target.apb1
      BY <1>3, OkParts, ApbRoundTrip
    <1>4. /\ rcc'.hse = rcc.hse /\ rcc'.pll = rcc.pll /\ rcc'.src = rcc.src
          /\ rcc'.m = rcc.m /\ rcc'.n = rcc.n /\ rcc'.p = rcc.p /\ rcc'.q = rcc.q
          /\ rcc'.sw = rcc.sw /\ rcc'.hpre = rcc.hpre
          /\ rcc'.ppre1 = PpreBits(target.apb1) /\ rcc'.ppre2 = rcc.ppre2
          /\ rcc'.acr = rcc.acr /\ rcc'.core = rcc.core
      BY <1>2, <1>3 DEF Registers
    <1>5. rcc' \in Registers
      BY <1>2, <1>3, <1>b1 DEF Registers
    <1>6. ClockTypeOK'
      BY <1>1, <1>3, <1>5 DEF ClockTypeOK
    <1>7. Within(rcc')
      <2>1. rcc'.sw = target.sysclk /\ (OnPll(target) => Tuned(rcc', target))
        BY <1>4 DEF AtWriteApb1, Ready, Selected, PllUp, OnPll, Tuned
      <2>2. rcc'.acr >= FlashLatency(Computed(target).hclk)
        BY <1>3, <1>4 DEF AtWriteApb1, Waits, Registers
      <2>3. Ahb(rcc') = target.ahb
        BY <1>4 DEF AtWriteApb1, Selected, AhbSet, Ahb
      <2>4. /\ Apb(rcc'.ppre1) = target.apb1 \/ rcc'.ppre1 = 7
            /\ Apb(rcc'.ppre2) = target.apb2 \/ rcc'.ppre2 = 7
        BY <1>4, <1>b1 DEF AtWriteApb1, Apb1Set, Apb2Set, Slow1, Slow2
      <2> QED
        BY <1>3, <1>5, <2>1, <2>2, <2>3, <2>4, FastWithin
    <1>8. Powered(rcc')
      BY <1>4 DEF Powered
    <1>9. AtWriteApb2'
      <2>1. Selected'
        BY <1>1, <1>4 DEF AtWriteApb1, Selected, HseUp, PllUp, OnPll, UsesHse, Tuned, AhbSet, Ahb
      <2>2. Waits'
        BY <1>1, <1>4 DEF AtWriteApb1, Waits
      <2> QED
        BY <1>1, <1>4, <1>b1, <2>1, <2>2 DEF AtWriteApb1, AtWriteApb2, Slow1, Slow2, Apb1Set,
           Apb2Set, H2, H3
    <1> QED
      BY <1>1, <1>6, <1>7, <1>8, <1>9

\* The divider of APB2 is set.
LEMMA StepWriteApb2 ==
    ASSUME ClockTypeOK, Within(rcc), Powered(rcc), ~ failed, Ok(target), AtWriteApb2, Step
    PROVE  ClockTypeOK' /\ Within(rcc') /\ Powered(rcc') /\ ~ failed' /\ Ok(target') /\ AtHalCore'
    <1>1. /\ todo # <<>> /\ Head(todo) = "WriteApb2" /\ todo' = Tail(todo)
          /\ UNCHANGED <<target, code, failed>>
      BY DEF Step, AtWriteApb2, H2
    <1>2. rcc' = [rcc EXCEPT !.ppre2 = PpreBits(target.apb2)]
      BY <1>1 DEF Step, After
    <1>3. rcc \in Registers /\ target \in Configurations
      BY DEF ClockTypeOK
    <1>b2. PpreBits(target.apb2) \in {0} \cup 4 .. 7 /\ Apb(PpreBits(target.apb2)) = target.apb2
      BY <1>3, OkParts, ApbRoundTrip
    <1>4. /\ rcc'.hse = rcc.hse /\ rcc'.pll = rcc.pll /\ rcc'.src = rcc.src
          /\ rcc'.m = rcc.m /\ rcc'.n = rcc.n /\ rcc'.p = rcc.p /\ rcc'.q = rcc.q
          /\ rcc'.sw = rcc.sw /\ rcc'.hpre = rcc.hpre /\ rcc'.ppre1 = rcc.ppre1
          /\ rcc'.ppre2 = PpreBits(target.apb2) /\ rcc'.acr = rcc.acr
          /\ rcc'.core = rcc.core
      BY <1>2, <1>3 DEF Registers
    <1>5. rcc' \in Registers
      BY <1>2, <1>3, <1>b2 DEF Registers
    <1>6. ClockTypeOK'
      BY <1>1, <1>3, <1>5 DEF ClockTypeOK
    <1>7. Within(rcc')
      <2>1. rcc'.sw = target.sysclk /\ (OnPll(target) => Tuned(rcc', target))
        BY <1>4 DEF AtWriteApb2, Ready, Selected, PllUp, OnPll, Tuned
      <2>2. rcc'.acr >= FlashLatency(Computed(target).hclk)
        BY <1>3, <1>4 DEF AtWriteApb2, Waits, Registers
      <2>3. Ahb(rcc') = target.ahb
        BY <1>4 DEF AtWriteApb2, Selected, AhbSet, Ahb
      <2>4. /\ Apb(rcc'.ppre1) = target.apb1 \/ rcc'.ppre1 = 7
            /\ Apb(rcc'.ppre2) = target.apb2 \/ rcc'.ppre2 = 7
        BY <1>4, <1>b2 DEF AtWriteApb2, Apb1Set, Apb2Set, Slow1, Slow2
      <2> QED
        BY <1>3, <1>5, <2>1, <2>2, <2>3, <2>4, FastWithin
    <1>8. Powered(rcc')
      BY <1>4 DEF Powered
    <1>9. AtHalCore'
      <2>1. Selected'
        BY <1>1, <1>4 DEF AtWriteApb2, Selected, HseUp, PllUp, OnPll, UsesHse, Tuned, AhbSet, Ahb
      <2>2. Waits'
        BY <1>1, <1>4 DEF AtWriteApb2, Waits
      <2> QED
        BY <1>1, <1>4, <1>b2, <2>1, <2>2 DEF AtWriteApb2, AtHalCore, Slow1, Slow2, Apb1Set,
           Apb2Set, H1, H2
    <1> QED
      BY <1>1, <1>6, <1>7, <1>8, <1>9

\* SystemCoreClock is set.
LEMMA StepUpdateCore ==
    ASSUME ClockTypeOK, Within(rcc), Powered(rcc), ~ failed, Ok(target), AtUpdateCore, Step
    PROVE  ClockTypeOK' /\ Within(rcc') /\ Powered(rcc') /\ ~ failed' /\ Ok(target') /\ AtEnd'
    <1>1. /\ todo # <<>> /\ Head(todo) = "UpdateCore" /\ todo' = Tail(todo)
          /\ UNCHANGED <<target, code, failed>>
      BY DEF Step, AtUpdateCore, R1
    <1>2. rcc' = [rcc EXCEPT !.core = Sysclk(rcc) \div Ahb(rcc)]
      BY <1>1 DEF Step, After
    <1>3. rcc \in Registers /\ target \in Configurations
      BY DEF ClockTypeOK
    <1>k. Sysclk(rcc) \div Ahb(rcc) \in Nat
      <2>1. Sysclk(rcc) \in Nat
        BY <1>3, SysclkType
      <2>2. Ahb(rcc) \in Nat \ {0}
        BY <1>3, AhbType
      <2> QED
        BY <2>1, <2>2, QuotientNat
    <1>4. /\ rcc'.hse = rcc.hse /\ rcc'.pll = rcc.pll /\ rcc'.src = rcc.src
          /\ rcc'.m = rcc.m /\ rcc'.n = rcc.n /\ rcc'.p = rcc.p /\ rcc'.q = rcc.q
          /\ rcc'.sw = rcc.sw /\ rcc'.hpre = rcc.hpre /\ rcc'.ppre1 = rcc.ppre1
          /\ rcc'.ppre2 = rcc.ppre2 /\ rcc'.acr = rcc.acr
          /\ rcc'.core = Sysclk(rcc) \div Ahb(rcc)
      BY <1>2, <1>3 DEF Registers
    <1>5. rcc' \in Registers
      BY <1>2, <1>3, <1>k DEF Registers
    <1>6. ClockTypeOK'
      BY <1>1, <1>3, <1>5 DEF ClockTypeOK
    <1>7. Within(rcc')
      <2>1. Sysclk(rcc') = Sysclk(rcc) /\ Ahb(rcc') = Ahb(rcc)
        BY <1>4 DEF Sysclk, Ahb
      <2> QED
        BY <1>3, <1>4, <1>5, <2>1, StaysWithin DEF Registers
    <1>8. Powered(rcc')
      BY <1>4 DEF Powered
    <1>9. AtEnd'
      <2>1. Selected'
        BY <1>1, <1>4 DEF AtUpdateCore, Selected, HseUp, PllUp, OnPll, UsesHse, Tuned, AhbSet, Ahb
      <2>2. Live(rcc') = Live(rcc)
        BY <1>4 DEF Live, Sysclk, Ahb
      <2>3. rcc'.core = IF code = "hal" THEN Computed(target).hclk ELSE Live(rcc').hclk
        BY <1>3, <1>4, <2>2, LiveTree, SysclkType DEF AtUpdateCore
      <2>4. AtEnd'
        BY <1>1, <1>4, <2>1, <2>3 DEF AtUpdateCore, AtEnd, Apb1Set, Apb2Set, R1
      <2> QED
        BY <2>4
    <1> QED
      BY <1>1, <1>6, <1>7, <1>8, <1>9

\* The HAL sets SystemCoreClock, without the rounding of Rcc.
LEMMA StepHalCore ==
    ASSUME ClockTypeOK, Within(rcc), Powered(rcc), ~ failed, Ok(target), AtHalCore, Step
    PROVE  ClockTypeOK' /\ Within(rcc') /\ Powered(rcc') /\ ~ failed' /\ Ok(target') /\ AtEnd'
    <1>1. /\ todo # <<>> /\ Head(todo) = "HalCore" /\ todo' = Tail(todo)
          /\ UNCHANGED <<target, code, failed>>
      BY DEF Step, AtHalCore, H1
    <1>2. rcc' = [rcc EXCEPT !.core = HalSysclk(rcc) \div Ahb(rcc)]
      BY <1>1 DEF Step, After
    <1>3. rcc \in Registers /\ target \in Configurations
      BY DEF ClockTypeOK
    <1>k. HalSysclk(rcc) \div Ahb(rcc) \in Nat
      <2>1. HalSysclk(rcc) \in Nat
        BY <1>3, Reached, ComputedBounds DEF AtHalCore, Selected, PllUp
      <2>2. Ahb(rcc) \in Nat \ {0}
        BY <1>3, AhbType
      <2> QED
        BY <2>1, <2>2, QuotientNat
    <1>4. /\ rcc'.hse = rcc.hse /\ rcc'.pll = rcc.pll /\ rcc'.src = rcc.src
          /\ rcc'.m = rcc.m /\ rcc'.n = rcc.n /\ rcc'.p = rcc.p /\ rcc'.q = rcc.q
          /\ rcc'.sw = rcc.sw /\ rcc'.hpre = rcc.hpre /\ rcc'.ppre1 = rcc.ppre1
          /\ rcc'.ppre2 = rcc.ppre2 /\ rcc'.acr = rcc.acr
          /\ rcc'.core = HalSysclk(rcc) \div Ahb(rcc)
      BY <1>2, <1>3 DEF Registers
    <1>5. rcc' \in Registers
      BY <1>2, <1>3, <1>k DEF Registers
    <1>6. ClockTypeOK'
      BY <1>1, <1>3, <1>5 DEF ClockTypeOK
    <1>7. Within(rcc')
      <2>1. Sysclk(rcc') = Sysclk(rcc) /\ Ahb(rcc') = Ahb(rcc)
        BY <1>4 DEF Sysclk, Ahb
      <2> QED
        BY <1>3, <1>4, <1>5, <2>1, StaysWithin DEF Registers
    <1>8. Powered(rcc')
      BY <1>4 DEF Powered
    <1>9. AtEnd'
      <2>1. Selected'
        BY <1>1, <1>4 DEF AtHalCore, Selected, HseUp, PllUp, OnPll, UsesHse, Tuned, AhbSet, Ahb
      <2>2. Live(rcc') = Live(rcc)
        BY <1>4 DEF Live, Sysclk, Ahb
      <2>3. rcc'.core = IF code = "hal" THEN Computed(target).hclk ELSE Live(rcc').hclk
        <3>1. HalSysclk(rcc) = Computed(target).sysclk
          BY <1>3, Reached DEF AtHalCore, Selected, PllUp
        <3> QED
          BY <1>3, <1>4, <3>1, ComputedBounds DEF AtHalCore, Selected, AhbSet
      <2>4. AtEnd'
        BY <1>1, <1>4, <2>1, <2>3 DEF AtHalCore, AtEnd, Apb1Set, Apb2Set, H1
      <2> QED
        BY <2>4
    <1> QED
      BY <1>1, <1>6, <1>7, <1>8, <1>9

-----------------------------------------------------------------------------
(* The programs *)

StepNames ==
    {"RunHsi", "StartHse", "CheckPll", "StopPll", "WritePll", "StartPll", "RaiseLatency",
     "LowerLatency", "SetLatency", "SlowApb1", "SlowApb2", "WriteAhb", "WriteApb1", "WriteApb2",
     "WritePrescalers", "Select", "UpdateCore", "HalCore"}

\* A sequence is the concatenation of two if its elements are theirs.
LEMMA Joined ==
    ASSUME NEW S, NEW s \in Seq(S), NEW t \in Seq(S), NEW u \in Seq(S),
           Len(u) = Len(s) + Len(t),
           \A i \in 1 .. Len(u) : u[i] = IF i <= Len(s) THEN s[i] ELSE t[i - Len(s)]
    PROVE  s \o t = u
    <1>1. /\ s \o t \in Seq(S) /\ Len(s \o t) = Len(s) + Len(t)
          /\ \A i \in 1 .. Len(s) + Len(t) :
                (s \o t)[i] = IF i <= Len(s) THEN s[i] ELSE t[i - Len(s)]
      BY ConcatProperties
    <1>2. \A i \in 1 .. Len(u) : (s \o t)[i] = u[i]
      BY <1>1
    <1> QED
      BY <1>1, <1>2, SeqEqual

\* The code for the registers.
LEMMA RegisterPrograms ==
    ASSUME NEW c
    PROVE  RegisterCode(c) =
              IF UsesHse(c) THEN IF OnPll(c) THEN RBoth8 ELSE RBoth5
              ELSE IF OnPll(c) THEN RHsi8 ELSE RHsi5
    <1> DEFINE hsi == <<"RunHsi">>
               hse == <<"StartHse">>
               both == <<"RunHsi", "StartHse">>
               pll == <<"StopPll", "WritePll", "StartPll">>
               hsiPll == <<"RunHsi", "StopPll", "WritePll", "StartPll">>
               bothPll == <<"RunHsi", "StartHse", "StopPll", "WritePll", "StartPll">>
    <1>1. /\ hsi \in Seq(StepNames) /\ hse \in Seq(StepNames) /\ both \in Seq(StepNames)
          /\ pll \in Seq(StepNames) /\ hsiPll \in Seq(StepNames) /\ bothPll \in Seq(StepNames)
          /\ R5 \in Seq(StepNames) /\ RHsi5 \in Seq(StepNames) /\ RHsi8 \in Seq(StepNames)
          /\ RBoth5 \in Seq(StepNames) /\ RBoth8 \in Seq(StepNames)
      BY DEF StepNames, R5, RHsi5, RHsi8, RBoth5, RBoth8
    <1>2. hsi \o hse = both
      <2>1. /\ Len(both) = Len(hsi) + Len(hse)
            /\ \A i \in 1 .. Len(both) : both[i] = IF i <= Len(hsi) THEN hsi[i] ELSE hse[i - Len(hsi)]
        OBVIOUS
      <2> HIDE DEF hsi, hse, both
      <2> QED
        BY <1>1, <2>1, Joined
    <1>3. hsi \o pll = hsiPll
      <2>1. /\ Len(hsiPll) = Len(hsi) + Len(pll)
            /\ \A i \in 1 .. Len(hsiPll) :
                  hsiPll[i] = IF i <= Len(hsi) THEN hsi[i] ELSE pll[i - Len(hsi)]
        OBVIOUS
      <2> HIDE DEF hsi, pll, hsiPll
      <2> QED
        BY <1>1, <2>1, Joined
    <1>4. both \o pll = bothPll
      <2>1. /\ Len(bothPll) = Len(both) + Len(pll)
            /\ \A i \in 1 .. Len(bothPll) :
                  bothPll[i] = IF i <= Len(both) THEN both[i] ELSE pll[i - Len(both)]
        OBVIOUS
      <2> HIDE DEF both, pll, bothPll
      <2> QED
        BY <1>1, <2>1, Joined
    <1>5. hsi \o R5 = RHsi5
      <2>1. /\ Len(RHsi5) = Len(hsi) + Len(R5)
            /\ \A i \in 1 .. Len(RHsi5) : RHsi5[i] = IF i <= Len(hsi) THEN hsi[i] ELSE R5[i - Len(hsi)]
        BY DEF RHsi5, R5
      <2> HIDE DEF hsi
      <2> QED
        BY <1>1, <2>1, Joined
    <1>6. both \o R5 = RBoth5
      <2>1. /\ Len(RBoth5) = Len(both) + Len(R5)
            /\ \A i \in 1 .. Len(RBoth5) :
                  RBoth5[i] = IF i <= Len(both) THEN both[i] ELSE R5[i - Len(both)]
        BY DEF RBoth5, R5
      <2> HIDE DEF both
      <2> QED
        BY <1>1, <2>1, Joined
    <1>7. hsiPll \o R5 = RHsi8
      <2>1. /\ Len(RHsi8) = Len(hsiPll) + Len(R5)
            /\ \A i \in 1 .. Len(RHsi8) :
                  RHsi8[i] = IF i <= Len(hsiPll) THEN hsiPll[i] ELSE R5[i - Len(hsiPll)]
        BY DEF RHsi8, R5
      <2> HIDE DEF hsiPll
      <2> QED
        BY <1>1, <2>1, Joined
    <1>8. bothPll \o R5 = RBoth8
      <2>1. /\ Len(RBoth8) = Len(bothPll) + Len(R5)
            /\ \A i \in 1 .. Len(RBoth8) :
                  RBoth8[i] = IF i <= Len(bothPll) THEN bothPll[i] ELSE R5[i - Len(bothPll)]
        BY DEF RBoth8, R5
      <2> HIDE DEF bothPll
      <2> QED
        BY <1>1, <2>1, Joined
    <1>9. RegisterCode(c) =
            ((hsi \o (IF UsesHse(c) THEN hse ELSE <<>>)) \o (IF OnPll(c) THEN pll ELSE <<>>)) \o R5
      BY DEF RegisterCode, When, OnPll, R5
    <1> HIDE DEF hsi, hse, both, pll, hsiPll, bothPll
    <1>10. hsi \o <<>> = hsi /\ both \o <<>> = both
      BY <1>1, ConcatEmptySeq
    <1>11. CASE UsesHse(c) /\ OnPll(c)
      BY <1>2, <1>4, <1>8, <1>9, <1>11
    <1>12. CASE UsesHse(c) /\ ~ OnPll(c)
      BY <1>2, <1>6, <1>9, <1>10, <1>12
    <1>13. CASE ~ UsesHse(c) /\ OnPll(c)
      BY <1>3, <1>7, <1>9, <1>10, <1>13
    <1>14. CASE ~ UsesHse(c) /\ ~ OnPll(c)
      BY <1>5, <1>9, <1>10, <1>14
    <1> QED
      BY <1>11, <1>12, <1>13, <1>14

\* The code for the HAL.
LEMMA HalPrograms ==
    ASSUME NEW c
    PROVE  HalCode(c) =
              IF UsesHse(c) THEN IF OnPll(c) THEN HHse13 ELSE HHse9
              ELSE IF OnPll(c) THEN H13 ELSE H9
    <1> DEFINE hse == <<"StartHse">>
               pll == <<"CheckPll", "StopPll", "WritePll", "StartPll">>
               hsePll == <<"StartHse", "CheckPll", "StopPll", "WritePll", "StartPll">>
    <1>1. /\ hse \in Seq(StepNames) /\ pll \in Seq(StepNames) /\ hsePll \in Seq(StepNames)
          /\ H9 \in Seq(StepNames) /\ H13 \in Seq(StepNames)
          /\ HHse9 \in Seq(StepNames) /\ HHse13 \in Seq(StepNames)
      BY DEF StepNames, H9, H13, HHse9, HHse13
    <1>2. hse \o pll = hsePll
      <2>1. /\ Len(hsePll) = Len(hse) + Len(pll)
            /\ \A i \in 1 .. Len(hsePll) :
                  hsePll[i] = IF i <= Len(hse) THEN hse[i] ELSE pll[i - Len(hse)]
        OBVIOUS
      <2> HIDE DEF hse, pll, hsePll
      <2> QED
        BY <1>1, <2>1, Joined
    <1>3. hse \o H9 = HHse9
      <2>1. /\ Len(HHse9) = Len(hse) + Len(H9)
            /\ \A i \in 1 .. Len(HHse9) : HHse9[i] = IF i <= Len(hse) THEN hse[i] ELSE H9[i - Len(hse)]
        BY DEF HHse9, H9
      <2> HIDE DEF hse
      <2> QED
        BY <1>1, <2>1, Joined
    <1>4. pll \o H9 = H13
      <2>1. /\ Len(H13) = Len(pll) + Len(H9)
            /\ \A i \in 1 .. Len(H13) : H13[i] = IF i <= Len(pll) THEN pll[i] ELSE H9[i - Len(pll)]
        BY DEF H13, H9
      <2> HIDE DEF pll
      <2> QED
        BY <1>1, <2>1, Joined
    <1>5. hsePll \o H9 = HHse13
      <2>1. /\ Len(HHse13) = Len(hsePll) + Len(H9)
            /\ \A i \in 1 .. Len(HHse13) :
                  HHse13[i] = IF i <= Len(hsePll) THEN hsePll[i] ELSE H9[i - Len(hsePll)]
        BY DEF HHse13, H9
      <2> HIDE DEF hsePll
      <2> QED
        BY <1>1, <2>1, Joined
    <1>6. HalCode(c) = ((IF UsesHse(c) THEN hse ELSE <<>>) \o (IF OnPll(c) THEN pll ELSE <<>>)) \o H9
      BY DEF HalCode, When, OnPll, H9
    <1> HIDE DEF hse, pll, hsePll
    <1>7. hse \o <<>> = hse /\ <<>> \o pll = pll /\ <<>> \o <<>> = <<>> /\ <<>> \o H9 = H9
      BY <1>1, ConcatEmptySeq, EmptySeq
    <1>8. CASE UsesHse(c) /\ OnPll(c)
      BY <1>2, <1>5, <1>6, <1>8
    <1>9. CASE UsesHse(c) /\ ~ OnPll(c)
      BY <1>3, <1>6, <1>7, <1>9
    <1>10. CASE ~ UsesHse(c) /\ OnPll(c)
      BY <1>4, <1>6, <1>7, <1>10
    <1>11. CASE ~ UsesHse(c) /\ ~ OnPll(c)
      BY <1>6, <1>7, <1>11
    <1> QED
      BY <1>8, <1>9, <1>10, <1>11

\* What CheckPll leaves when the PLL may be kept.
LEMMA KeptProgram == SubSeq(H13, 5, Len(H13)) = H9
    <1> DEFINE u == SubSeq(H13, 5, 13)
    <1>1. Len(H13) = 13 /\ Len(H9) = 9 /\ H9 \in Seq(StepNames)
      BY DEF H13, H9, StepNames
    <1>2. \A i \in 5 .. 13 : H13[i] \in StepNames
      BY DEF H13, StepNames
    <1>3. u \in Seq(StepNames) /\ Len(u) = 9 /\ \A i \in 1 .. 9 : u[i] = H13[5 + i - 1]
      BY <1>2, SubSeqProperties
    <1> HIDE DEF u
    <1>4. \A i \in 1 .. 9 : u[i] = H9[i]
      BY <1>3 DEF H13, H9
    <1>5. u = H9
      BY <1>1, <1>3, <1>4, SeqEqual
    <1> QED
      BY <1>1, <1>5 DEF u

-----------------------------------------------------------------------------
(* The theorems *)

\* The assertion of a step holds only where that step is next.
LEMMA Heads ==
    ASSUME Running
    PROVE  /\ todo # <<>>
           /\ Head(todo) = "CheckPll" => AtCheckPll
           /\ AtCheckPll => Head(todo) = "CheckPll"
           /\ Head(todo) = "WritePll" => AtWritePll
    <1>1. AtRunHsi => todo # <<>> /\ Head(todo) = "RunHsi"
      BY DEF AtRunHsi, RHsi5, RHsi8, RBoth5, RBoth8
    <1>2. AtStartHse => todo # <<>> /\ Head(todo) = "StartHse"
      BY DEF AtStartHse, Left, RHse5, RHse8, HHse9, HHse13
    <1>3. AtCheckPll => todo # <<>> /\ Head(todo) = "CheckPll"
      BY DEF AtCheckPll, H13
    <1>4. AtStopPll => todo # <<>> /\ Head(todo) = "StopPll"
      BY DEF AtStopPll, Left, R8, H12
    <1>5. AtWritePll => todo # <<>> /\ Head(todo) = "WritePll"
      BY DEF AtWritePll, Left, R7, H11
    <1>6. AtStartPll => todo # <<>> /\ Head(todo) = "StartPll"
      BY DEF AtStartPll, Left, R6, H10
    <1>7. AtRaiseLatency => todo # <<>> /\ Head(todo) = "RaiseLatency"
      BY DEF AtRaiseLatency, Left, R5, H9
    <1>8. AtWritePrescalers => todo # <<>> /\ Head(todo) = "WritePrescalers"
      BY DEF AtWritePrescalers, R4
    <1>9. AtSelect => todo # <<>> /\ Head(todo) = "Select"
      BY DEF AtSelect, R3, H5
    <1>10. AtSetLatency => todo # <<>> /\ Head(todo) = "SetLatency"
      BY DEF AtSetLatency, R2
    <1>11. AtUpdateCore => todo # <<>> /\ Head(todo) = "UpdateCore"
      BY DEF AtUpdateCore, R1
    <1>12. AtSlowApb1 => todo # <<>> /\ Head(todo) = "SlowApb1"
      BY DEF AtSlowApb1, H8
    <1>13. AtSlowApb2 => todo # <<>> /\ Head(todo) = "SlowApb2"
      BY DEF AtSlowApb2, H7
    <1>14. AtWriteAhb => todo # <<>> /\ Head(todo) = "WriteAhb"
      BY DEF AtWriteAhb, H6
    <1>15. AtLowerLatency => todo # <<>> /\ Head(todo) = "LowerLatency"
      BY DEF AtLowerLatency, H4
    <1>16. AtWriteApb1 => todo # <<>> /\ Head(todo) = "WriteApb1"
      BY DEF AtWriteApb1, H3
    <1>17. AtWriteApb2 => todo # <<>> /\ Head(todo) = "WriteApb2"
      BY DEF AtWriteApb2, H2
    <1>18. AtHalCore => todo # <<>> /\ Head(todo) = "HalCore"
      BY DEF AtHalCore, H1
    <1> QED
      BY <1>1, <1>2, <1>3, <1>4, <1>5, <1>6, <1>7, <1>8, <1>9, <1>10, <1>11, <1>12, <1>13,
         <1>14, <1>15, <1>16, <1>17, <1>18 DEF Running

\* A step of the code leads from one assertion to the next.
LEMMA StepPreserves ==
    ASSUME CInv, Step
    PROVE  CInv'
    <1>1. ~ failed /\ Ok(target) /\ Running /\ ~ AtCheckPll
      BY Heads DEF CInv, Step, AtEnd, AtError
    <1>2. ClockTypeOK /\ Within(rcc) /\ Powered(rcc)
      BY DEF CInv
    <1> DEFINE Good == ClockTypeOK' /\ Within(rcc') /\ Powered(rcc') /\ ~ failed' /\ Ok(target')
                       /\ (Running' \/ AtEnd')
    <1>3. AtRunHsi => Good
      BY <1>1, <1>2, StepRunHsi DEF Running
    <1>4. AtStartHse => Good
      BY <1>1, <1>2, StepStartHse DEF Running
    <1>5. AtStopPll => Good
      BY <1>1, <1>2, StepStopPll DEF Running
    <1>6. AtWritePll => Good
      BY <1>1, <1>2, StepWritePll DEF Running
    <1>7. AtStartPll => Good
      BY <1>1, <1>2, StepStartPll DEF Running
    <1>8. AtRaiseLatency => Good
      BY <1>1, <1>2, StepRaiseLatency DEF Running
    <1>9. AtWritePrescalers => Good
      BY <1>1, <1>2, StepWritePrescalers DEF Running
    <1>10. AtSelect => Good
      BY <1>1, <1>2, StepSelect DEF Running
    <1>11. AtSetLatency => Good
      BY <1>1, <1>2, StepSetLatency DEF Running
    <1>12. AtUpdateCore => Good
      BY <1>1, <1>2, StepUpdateCore DEF Running
    <1>13. AtSlowApb1 => Good
      BY <1>1, <1>2, StepSlowApb1 DEF Running
    <1>14. AtSlowApb2 => Good
      BY <1>1, <1>2, StepSlowApb2 DEF Running
    <1>15. AtWriteAhb => Good
      BY <1>1, <1>2, StepWriteAhb DEF Running
    <1>16. AtLowerLatency => Good
      BY <1>1, <1>2, StepLowerLatency DEF Running
    <1>17. AtWriteApb1 => Good
      BY <1>1, <1>2, StepWriteApb1 DEF Running
    <1>18. AtWriteApb2 => Good
      BY <1>1, <1>2, StepWriteApb2 DEF Running
    <1>19. AtHalCore => Good
      BY <1>1, <1>2, StepHalCore DEF Running
    <1>20. Good
      BY <1>1, <1>3, <1>4, <1>5, <1>6, <1>7, <1>8, <1>9, <1>10, <1>11, <1>12, <1>13, <1>14,
         <1>15, <1>16, <1>17, <1>18, <1>19 DEF Running
    <1> QED
      BY <1>20 DEF CInv

\* HAL_RCC_OscConfig at the PLL: it goes on, keeps the PLL that it finds, or
\* gives up.
LEMMA CheckPreserves ==
    ASSUME CInv, CheckPll
    PROVE  CInv'
    <1>1. ~ failed /\ Ok(target) /\ AtCheckPll
      BY Heads DEF CInv, CheckPll, AtEnd, AtError
    <1>2. ClockTypeOK /\ Within(rcc) /\ Powered(rcc) /\ UNCHANGED <<rcc, target, code>>
      BY DEF CInv, CheckPll
    <1>3. failed' \in BOOLEAN
      BY <1>1, <1>2 DEF CheckPll, ClockTypeOK
    <1>4. ClockTypeOK' /\ Within(rcc') /\ Powered(rcc') /\ Ok(target')
      BY <1>1, <1>2, <1>3 DEF ClockTypeOK
    <1>5. OnPll(target') /\ HseUp' /\ code' = "hal" /\ code = "hal" /\ todo = H13
      BY <1>1, <1>2 DEF AtCheckPll, HseUp
    <1>6. CASE rcc.sw # "pll" /\ todo' = Tail(todo) /\ UNCHANGED failed
      <2>1. todo' = H12
        BY <1>5, <1>6 DEF H12, H13
      <2>2. AtStopPll'
        BY <1>2, <1>5, <1>6, <2>1 DEF AtStopPll, Left
      <2> QED
        BY <1>1, <1>4, <1>6, <2>2 DEF CInv, Running
    <1>7. CASE /\ rcc.sw = "pll" /\ PllOf(rcc) = PllIn(target)
               /\ todo' = SubSeq(todo, 5, Len(todo)) /\ UNCHANGED failed
      <2>1. todo' = H9
        BY <1>5, <1>7, KeptProgram
      <2>2. PllUp'
        <3>1. Tuned(rcc, target)
          BY <1>7 DEF PllOf, PllIn, Tuned
        <3>2. rcc.pll
          BY <1>2, <1>7 DEF Powered
        <3> QED
          BY <1>2, <3>1, <3>2 DEF PllUp
      <2>3. AtRaiseLatency'
        BY <1>5, <2>1, <2>2 DEF AtRaiseLatency, Ready, Left
      <2> QED
        BY <1>1, <1>4, <1>7, <2>3 DEF CInv, Running
    <1>8. CASE rcc.sw = "pll" /\ PllOf(rcc) # PllIn(target) /\ todo' = <<>> /\ failed' = TRUE
      BY <1>2, <1>4, <1>8 DEF CInv, AtError
    <1> QED
      BY <1>6, <1>7, <1>8 DEF CheckPll

\* What "From Emulator" reads is a configuration of the dialog.
LEMMA FromRegistersType ==
    ASSUME NEW r \in Registers
    PROVE  FromRegisters(r) \in Configurations
    <1>1. Ahb(r) \in Nat
      BY AhbType
    <1>2. Apb(r.ppre1) \in Nat /\ Apb(r.ppre2) \in Nat
      BY ApbType DEF Registers
    <1> QED
      BY <1>1, <1>2 DEF FromRegisters, Registers, Configurations

\* The code starts where the clocks are within their limits, whatever it is
\* to set.
LEMMA BeginPreserves ==
    ASSUME ClockAssumption, CInv, NEW c \in Settings \cup {FromRegisters(rcc)},
           NEW kind \in {"hal", "registers"}, BeginCode(c, kind)
    PROVE  CInv'
    <1>1. ClockTypeOK /\ Within(rcc) /\ Powered(rcc) /\ rcc' = rcc /\ failed' = failed /\ ~ failed
      BY DEF CInv, BeginCode
    <1>2. c \in Configurations /\ Ok(c) /\ target' = c /\ code' = kind
      BY <1>1, FromRegistersType DEF ClockAssumption, BeginCode, ClockTypeOK
    <1>3. ClockTypeOK' /\ Within(rcc') /\ Powered(rcc') /\ ~ failed' /\ Ok(target')
      BY <1>1, <1>2 DEF ClockTypeOK
    <1>4. CASE kind = "registers"
      <2>1. todo' = RegisterCode(c) /\ code' = "registers"
        BY <1>2, <1>4 DEF BeginCode
      <2>2. AtRunHsi'
        BY <1>2, <2>1, RegisterPrograms DEF AtRunHsi
      <2> QED
        BY <1>3, <2>2 DEF CInv, Running
    <1>5. CASE kind = "hal"
      <2>1. todo' = HalCode(c) /\ code' = "hal" /\ (rcc'.sw # "pll" \/ OnPll(c))
        BY <1>1, <1>2, <1>5 DEF BeginCode, OnPll
      <2>2. CASE UsesHse(c)
        <3>1. Left(RHse5, HHse9)' \/ OnPll(c)
          BY <2>1, <2>2, HalPrograms DEF Left
        <3>2. Left(RHse8, HHse13)' \/ ~ OnPll(c)
          BY <2>1, <2>2, HalPrograms DEF Left
        <3>3. AtStartHse'
          BY <1>2, <2>1, <2>2, <3>1, <3>2 DEF AtStartHse
        <3> QED
          BY <1>3, <3>3 DEF CInv, Running
      <2>3. CASE ~ UsesHse(c) /\ OnPll(c)
        <3>1. AtCheckPll'
          BY <1>2, <2>1, <2>3, HalPrograms DEF AtCheckPll, HseUp
        <3> QED
          BY <1>3, <3>1 DEF CInv, Running
      <2>4. CASE ~ UsesHse(c) /\ ~ OnPll(c)
        <3>1. Left(R5, H9)'
          BY <2>1, <2>4, HalPrograms DEF Left
        <3>2. AtRaiseLatency'
          BY <1>2, <2>1, <2>4, <3>1 DEF AtRaiseLatency, Ready, HseUp, PllUp
        <3> QED
          BY <1>3, <3>2 DEF CInv, Running
      <2> QED
        BY <2>2, <2>3, <2>4
    <1> QED
      BY <1>4, <1>5

\* The reset leaves the chip on the HSI.
LEMMA ResetSafe == Reset \in Registers /\ Within(Reset) /\ Powered(Reset)
    <1>1. Reset \in Registers
      BY DEF Reset, Registers, HsiHz, MHz
    <1>2. Within(Reset)
      BY <1>1, SlowWithin DEF Reset
    <1>3. Powered(Reset)
      BY DEF Reset, Powered
    <1> QED
      BY <1>1, <1>2, <1>3

LEMMA Initially ==
    ASSUME ClockInit
    PROVE  CInv
    <1>1. rcc \in Registers /\ Within(rcc) /\ Powered(rcc)
      BY ResetSafe DEF ClockInit
    <1>2. target \in Configurations
      BY ResetSafe, FromRegistersType DEF ClockInit
    <1>3. ClockTypeOK
      BY <1>1, <1>2 DEF ClockInit, ClockTypeOK
    <1> QED
      BY <1>1, <1>3 DEF ClockInit, CInv, AtEnd

LEMMA Inductive ==
    ASSUME ClockAssumption, CInv, [ClockNext]_clockVars
    PROVE  CInv'
    <1>1. CASE \E c \in Settings \cup {FromRegisters(rcc)}, kind \in {"hal", "registers"} : BeginCode(c, kind)
      BY <1>1, BeginPreserves
    <1>2. CASE Step
      BY <1>2, StepPreserves
    <1>3. CASE CheckPll
      BY <1>3, CheckPreserves
    <1>4. CASE ResetClocks
      <2>1. rcc' \in Registers /\ Within(rcc') /\ Powered(rcc')
        BY <1>4, ResetSafe DEF ResetClocks
      <2>2. ClockTypeOK'
        BY <1>4, <2>1 DEF ResetClocks, ClockTypeOK, CInv
      <2> QED
        BY <1>4, <2>1, <2>2 DEF ResetClocks, CInv, AtEnd
    <1>5. CASE UNCHANGED clockVars
      BY <1>5 DEF clockVars, CInv, ClockTypeOK, Running, AtEnd, AtError, Left, Ready, Selected,
         HseUp, PllUp,
                  Waits, AhbSet, Apb1Set, Apb2Set, Slow1, Slow2,
                  AtRunHsi, AtStartHse, AtCheckPll, AtStopPll, AtWritePll, AtStartPll,
                  AtRaiseLatency, AtWritePrescalers, AtSelect, AtSetLatency, AtUpdateCore,
                  AtSlowApb1, AtSlowApb2, AtWriteAhb, AtLowerLatency, AtWriteApb1, AtWriteApb2,
                  AtHalCore
    <1> QED
      BY <1>1, <1>2, <1>3, <1>4, <1>5 DEF ClockNext

\* At each step of the code the chip is within its limits.
LEMMA Safe ==
    ASSUME CInv
    PROVE  ClockSafe
    <1>1. ASSUME todo # <<>>, Head(todo) = "WritePll" PROVE ~ rcc.pll
      BY <1>1, Heads DEF CInv, AtEnd, AtError, AtWritePll
    <1> QED
      BY <1>1 DEF CInv, Within, Powered, ClockSafe

\* Where it ends, the clocks are those of the dialog.
LEMMA Ended ==
    ASSUME CInv
    PROVE  Configured
    <1>1. ASSUME todo = <<>>, code # "none", ~ failed
          PROVE  LET dialog == Computed(target) IN
                 /\ dialog.sysclk - Live(rcc).sysclk \in 0 .. Rounding(target)
                 /\ Rounding(target) = 0 => Live(rcc) = dialog
                 /\ Computed(FromRegisters(rcc)) = dialog
                 /\ rcc.core = IF code = "hal" THEN dialog.hclk ELSE Live(rcc).hclk
      <2>1. rcc \in Registers /\ target \in Configurations /\ AtEnd
        BY <1>1, Heads DEF CInv, ClockTypeOK, AtError
      <2>2. /\ Ok(target) /\ rcc.sw = target.sysclk /\ (OnPll(target) => Tuned(rcc, target))
            /\ Ahb(rcc) = target.ahb /\ Apb(rcc.ppre1) = target.apb1 /\ Apb(rcc.ppre2) = target.apb2
            /\ rcc.core = IF code = "hal" THEN Computed(target).hclk ELSE Live(rcc).hclk
        BY <1>1, <2>1 DEF AtEnd, Selected, PllUp, AhbSet, Apb1Set, Apb2Set
      <2>3. Computed(target).sysclk - Sysclk(rcc) \in 0 .. Rounding(target)
        BY <2>1, <2>2, Reached
      <2>4. Sysclk(rcc) \in Nat /\ Computed(target).sysclk \in Nat /\ Live(rcc).sysclk = Sysclk(rcc)
        BY <2>1, <2>2, SysclkType, LiveTree, ComputedBounds
      <2>5. Computed(target) =
              Tree(Computed(target).sysclk, target.ahb, target.apb1, target.apb2)
        BY <2>1, <2>2, ComputedBounds DEF Computed, OnPll
      <2>6. ASSUME Rounding(target) = 0 PROVE Live(rcc) = Computed(target)
        <3>1. Sysclk(rcc) = Computed(target).sysclk
          BY <2>3, <2>4, <2>6
        <3> QED
          BY <2>2, <2>5, <3>1 DEF Live
      <2>7. Computed(FromRegisters(rcc)) = Computed(target)
        <3> DEFINE d == FromRegisters(rcc)
        <3>1. /\ d.sysclk = target.sysclk /\ d.ahb = target.ahb
              /\ d.apb1 = target.apb1 /\ d.apb2 = target.apb2
          BY <2>2 DEF FromRegisters
        <3>2. OnPll(target) => VcoOut(d) = VcoOut(target) /\ d.p = target.p
          BY <2>2 DEF FromRegisters, Tuned, VcoOut
        <3> HIDE DEF d
        <3>3. Computed(d) = Computed(target)
          BY <3>1, <3>2 DEF Computed, OnPll
        <3> QED
          BY <3>3 DEF d
      <2> QED
        BY <2>2, <2>3, <2>4, <2>6, <2>7
    <1>2. failed => rcc.sw = "pll" /\ PllOf(rcc) # PllIn(target)
      BY DEF CInv, AtEnd, AtError
    <1> QED
      BY <1>1, <1>2 DEF Configured

\* The registers, the configuration and the code are always what they should
\* be: nothing that is computed for a register exceeds its field.
THEOREM TypeCorrect ==
    ASSUME ClockAssumption
    PROVE  ClockSpec => []ClockTypeOK
    <1>1. ClockInit => CInv
      BY Initially
    <1>2. CInv /\ [ClockNext]_clockVars => CInv'
      BY Inductive
    <1>3. CInv => ClockTypeOK
      BY DEF CInv
    <1> QED
      BY <1>1, <1>2, <1>3, PTL DEF ClockSpec

\* Whatever configurations are written, for the HAL or for the registers and
\* one after the other, no register write takes the chip out of its limits,
\* and the code ends with the clocks that the dialog showed.
THEOREM Clocks ==
    ASSUME ClockAssumption
    PROVE  ClockSpec => []ClocksRight
    <1>1. ClockInit => CInv
      BY Initially
    <1>2. CInv /\ [ClockNext]_clockVars => CInv'
      BY Inductive
    <1>3. CInv => ClocksRight
      BY Safe, Ended DEF ClocksRight
    <1> QED
      BY <1>1, <1>2, <1>3, PTL DEF ClockSpec

=============================================================================
