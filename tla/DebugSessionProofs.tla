------------------------- MODULE DebugSessionProofs -------------------------
(***************************************************************************)
(* Proofs about DebugSession, for any breakpoints and any bounds on the    *)
(* queues: what the UI shows of the session, and of its breakpoints, is so *)
(* once everything under way has arrived.  The invariants follow a fact    *)
(* along the two pipes: what the UI believes, what the records say that it *)
(* has not read, and what the commands will do that gdb has not executed.  *)
(***************************************************************************)
EXTENDS DebugSession, FiniteSetTheorems, TLAPS

-----------------------------------------------------------------------------
(* Pipes *)

Has(pipe, op) == \E i \in DOMAIN pipe : pipe[i].op = op

\* An a that no b follows.
Ends(pipe, a, b) ==
    \E i \in DOMAIN pipe : pipe[i].op = a /\ \A j \in DOMAIN pipe : j > i => pipe[j].op # b

New(c) == c.op = "frames" /\ c.gen = "new"

\* q is p with more at its end, all from S; frames may have been relabelled.
Extends(p, q, S) ==
    /\ DOMAIN p \subseteq DOMAIN q
    /\ \A i \in DOMAIN p : q[i].op = p[i].op /\ (p[i].op # "frames" => q[i] = p[i])
    /\ \A i \in DOMAIN q \ DOMAIN p : q[i] \in S /\ \A j \in DOMAIN p : i > j

\* ... and c is among it.
Adds(p, q, c) == \E i \in DOMAIN q : q[i] = c /\ \A j \in DOMAIN p : i > j

LEMMA CommandFacts ==
    ASSUME NEW c \in Commands
    PROVE  /\ c.op \in {"connect", "continue", "interrupt", "flush", "insert", "delete", "frames"}
           /\ c.op = "insert" => c.key \in Keys
           /\ c.op = "delete" => c.number \in Numbers
           /\ c.op = "frames" => c \in [op : {"frames"}, gen : {"new", "old"}]
BY DEF Commands, Changes

LEMMA ChangeFacts ==
    /\ Changes \subseteq Commands
    /\ \A c \in Changes : c.op \in {"insert", "delete"}
    /\ \A k \in Keys : [op |-> "insert", key |-> k] \in Changes
    /\ \A n \in Numbers : [op |-> "delete", number |-> n] \in Changes
BY DEF Commands, Changes

LEMMA RecordFacts ==
    ASSUME NEW r \in Records
    PROVE  /\ r.op \in {"running", "stopped", "connected", "refused", "inserted", "frames"}
           /\ r.op = "inserted" => r.key \in Keys /\ r.number \in Numbers \cup {None}
           /\ r.op = "frames" => r \in [op : {"frames"}, gen : {"new", "old"}, data : Shown]
BY DEF Records

LEMMA CommandList ==
    /\ \A op \in {"connect", "continue", "interrupt", "flush"} : [op |-> op] \in Commands
    /\ \A k \in Keys : [op |-> "insert", key |-> k] \in Commands
    /\ \A n \in Numbers : [op |-> "delete", number |-> n] \in Commands
    /\ Refresh \in Commands /\ New(Refresh)
BY DEF Commands, Changes, Refresh, New

LEMMA RecordList ==
    /\ \A op \in {"running", "stopped", "connected", "refused"} : [op |-> op] \in Records
    /\ \A k \in Keys, n \in Numbers \cup {None} :
          [op |-> "inserted", key |-> k, number |-> n] \in Records
    /\ \A g \in {"new", "old"}, d \in Shown : [op |-> "frames", gen |-> g, data |-> d] \in Records
BY DEF Records

LEMMA ExtendsSame == ASSUME NEW p, NEW S PROVE Extends(p, p, S)
BY DEF Extends

LEMMA ExtendsMore ==
    ASSUME NEW p, NEW q, NEW S, NEW U, Extends(p, q, S), S \subseteq U
    PROVE  Extends(p, q, U)
BY DEF Extends

LEMMA CatExtends ==
    ASSUME NEW T, NEW p, NEW m \in Seq(T), NEW e \in Seq(T), NEW S, Extends(p, m, {}),
           \A i \in DOMAIN e : e[i] \in S
    PROVE  /\ m \o e \in Seq(T)
           /\ Extends(p, m \o e, S)
           /\ \A i \in DOMAIN e : Adds(p, m \o e, e[i])
<1> DEFINE q == m \o e
<1>1. /\ q \in Seq(T) /\ DOMAIN p = DOMAIN m
      /\ \A i \in DOMAIN m : i \in DOMAIN q /\ q[i] = m[i]
      /\ \A i \in DOMAIN q : i \in DOMAIN m \/ (i - Len(m) \in DOMAIN e /\ q[i] = e[i - Len(m)])
      /\ \A i \in DOMAIN q \ DOMAIN m : \A j \in DOMAIN m : i > j
      /\ \A i \in DOMAIN e : /\ i + Len(m) \in DOMAIN q /\ q[i + Len(m)] = e[i]
                             /\ \A j \in DOMAIN m : i + Len(m) > j
  <2>1. q \in Seq(T) /\ DOMAIN q = 1 .. Len(m) + Len(e)
    OBVIOUS
  <2>2. DOMAIN p = DOMAIN m
    BY DEF Extends
  <2>3. \A i \in DOMAIN q : q[i] = IF i <= Len(m) THEN m[i] ELSE e[i - Len(m)]
    OBVIOUS
  <2> HIDE DEF q
  <2> QED BY <2>1, <2>2, <2>3
<1> HIDE DEF q
<1>2. Extends(p, q, S)
  BY <1>1 DEF Extends
<1>3. \A i \in DOMAIN e : Adds(p, q, e[i])
  BY <1>1 DEF Adds
<1> QED BY <1>1, <1>2, <1>3 DEF q

LEMMA AppendExtends ==
    ASSUME NEW T, NEW p, NEW m \in Seq(T), NEW e \in T, Extends(p, m, {})
    PROVE  /\ Append(m, e) \in Seq(T)
           /\ Extends(p, Append(m, e), {e})
           /\ Adds(p, Append(m, e), e)
<1>1. <<e>> \in Seq(T) /\ DOMAIN <<e>> = {1} /\ <<e>>[1] = e /\ m \o <<e>> = Append(m, e)
  OBVIOUS
<1>2. /\ m \o <<e>> \in Seq(T) /\ Extends(p, m \o <<e>>, {e})
      /\ \A i \in DOMAIN <<e>> : Adds(p, m \o <<e>>, <<e>>[i])
  BY <1>1, CatExtends
<1> QED BY <1>1, <1>2

LEMMA OutdatedCommands ==
    ASSUME NEW p \in Seq(Commands)
    PROVE  /\ Outdated(p) \in Seq(Commands)
           /\ Extends(p, Outdated(p), {})
           /\ \A i \in DOMAIN Outdated(p) : ~ New(Outdated(p)[i])
<1>1. ASSUME NEW i \in DOMAIN p
      PROVE  /\ Outdated(p)[i] \in Commands /\ Outdated(p)[i].op = p[i].op
             /\ p[i].op # "frames" => Outdated(p)[i] = p[i]
             /\ p[i].op = "frames" => Outdated(p)[i].gen = "old"
  <2>1. p[i] \in Commands
    OBVIOUS
  <2>2. CASE p[i].op = "frames"
    <3>1. p[i] \in [op : {"frames"}, gen : {"new", "old"}]
      BY <2>1, <2>2, CommandFacts
    <3>2. Outdated(p)[i] = [p[i] EXCEPT !.gen = "old"]
      BY <2>2 DEF Outdated
    <3> QED BY <2>2, <3>1, <3>2 DEF Commands
  <2>3. CASE p[i].op # "frames"
    BY <2>1, <2>3 DEF Outdated
  <2> QED BY <2>2, <2>3
<1>2. DOMAIN Outdated(p) = DOMAIN p
  BY DEF Outdated
<1>3. Outdated(p) \in Seq(Commands)
  BY <1>1, <1>2 DEF Outdated
<1> QED BY <1>1, <1>2, <1>3 DEF Extends, New

LEMMA OutdatedRecords ==
    ASSUME NEW p \in Seq(Records)
    PROVE  /\ Outdated(p) \in Seq(Records)
           /\ Extends(p, Outdated(p), {})
<1>1. ASSUME NEW i \in DOMAIN p
      PROVE  /\ Outdated(p)[i] \in Records /\ Outdated(p)[i].op = p[i].op
             /\ p[i].op # "frames" => Outdated(p)[i] = p[i]
  <2>1. p[i] \in Records
    OBVIOUS
  <2>2. CASE p[i].op = "frames"
    <3>1. p[i] \in [op : {"frames"}, gen : {"new", "old"}, data : Shown]
      BY <2>1, <2>2, RecordFacts
    <3>2. Outdated(p)[i] = [p[i] EXCEPT !.gen = "old"]
      BY <2>2 DEF Outdated
    <3> QED BY <2>2, <3>1, <3>2 DEF Records
  <2>3. CASE p[i].op # "frames"
    BY <2>1, <2>3 DEF Outdated
  <2> QED BY <2>2, <2>3
<1>2. DOMAIN Outdated(p) = DOMAIN p
  BY DEF Outdated
<1>3. Outdated(p) \in Seq(Records)
  BY <1>1, <1>2 DEF Outdated
<1> QED BY <1>1, <1>2, <1>3 DEF Extends

LEMMA AgedRecords ==
    ASSUME toUi \in Seq(Records)
    PROVE  AgedPipe \in Seq(Records) /\ Extends(toUi, AgedPipe, {})
<1>1. ASSUME NEW i \in DOMAIN toUi
      PROVE  /\ AgedPipe[i] \in Records /\ AgedPipe[i].op = toUi[i].op
             /\ toUi[i].op # "frames" => AgedPipe[i] = toUi[i]
  <2>1. toUi[i] \in Records
    OBVIOUS
  <2>2. CASE toUi[i].op = "frames"
    <3>1. toUi[i] \in [op : {"frames"}, gen : {"new", "old"}, data : Shown]
      BY <2>1, <2>2, RecordFacts
    <3>2. AgedPipe[i] = [toUi[i] EXCEPT !.data = Aged(@)]
      BY <2>2 DEF AgedPipe
    <3>3. \A d \in Shown : Aged(d) \in Shown
      BY DEF Aged, Shown
    <3> QED BY <2>2, <3>1, <3>2, <3>3 DEF Records
  <2>3. CASE toUi[i].op # "frames"
    BY <2>1, <2>3 DEF AgedPipe
  <2> QED BY <2>2, <2>3
<1>2. DOMAIN AgedPipe = DOMAIN toUi
  BY DEF AgedPipe
<1>3. AgedPipe \in Seq(Records)
  BY <1>1, <1>2 DEF AgedPipe
<1> QED BY <1>1, <1>2, <1>3 DEF Extends

-----------------------------------------------------------------------------
(* The changes that waited for a stop *)

LEMMA SetInduction ==
    ASSUME NEW S, 0 \in S, \A n \in Nat : n \in S => n + 1 \in S
    PROVE  Nat \subseteq S
<1> DEFINE R == OpToRel(<, Nat)
           T == Nat \ S
<1>1. IsWellFoundedOn(R, Nat)
  BY NatLessThanWellFounded
<1>2. \A m, n \in Nat : <<n, m>> \in R <=> n < m
  BY DEF OpToRel
<1> HIDE DEF R
<1>3. SUFFICES ASSUME T # {} PROVE FALSE
  OBVIOUS
<1>4. PICK m \in T : \A n \in T : ~ (<<n, m>> \in R)
  <2>1. T \subseteq Nat
    OBVIOUS
  <2> HIDE DEF T
  <2> QED BY <1>1, <1>3, <2>1, WFMin
<1>5. m \in Nat /\ m \notin S /\ m # 0
  OBVIOUS
<1>6. m - 1 \in Nat /\ m - 1 < m /\ (m - 1) + 1 = m
  BY <1>5
<1>7. m - 1 \notin S
  BY <1>5, <1>6
<1> QED BY <1>2, <1>4, <1>5, <1>6, <1>7

Applies(change) == change.op = "insert" => change.key \in DOMAIN bps

\* e is a change of the first n that applies.
Kept(changes, n, e) == \E j \in 1 .. n : Applies(changes[j]) /\ e = changes[j]

LEMMA ApplicableFacts ==
    ASSUME NEW changes \in Seq(Changes)
    PROVE  /\ Applicable(changes) \in Seq(Commands)
           /\ \A e : (\E i \in DOMAIN Applicable(changes) : Applicable(changes)[i] = e)
                        <=> Kept(changes, Len(changes), e)
<1> DEFINE l == Len(changes)
           Body(g, i) == IF i = 0 THEN <<>>
                         ELSE IF Applies(changes[i]) THEN Append(g[i - 1], changes[i])
                         ELSE g[i - 1]
           Good(g, n) == g = [i \in 0 .. n |-> Body(g, i)]
           S == {n \in Nat : \E g : Good(g, n)}
<1>1. Nat \subseteq S
  <2>1. 0 \in S
    <3>1. Good([i \in 0 .. 0 |-> <<>>], 0)
      OBVIOUS
    <3> QED BY <3>1
  <2>2. ASSUME NEW n \in Nat, n \in S
        PROVE  n + 1 \in S
    <3>1. PICK g : Good(g, n)
      BY <2>2
    <3> DEFINE f == [i \in 0 .. n + 1 |-> IF i <= n THEN g[i] ELSE Body(g, n + 1)]
    <3>2. ASSUME NEW i \in 0 .. n + 1
          PROVE  f[i] = Body(f, i)
      <4>1. CASE i <= n
        <5>1. f[i] = g[i] /\ i \in 0 .. n
          BY <4>1
        <5>3. g[i] = Body(g, i)
          BY <3>1, <5>1
        <5>2. i # 0 => f[i - 1] = g[i - 1]
          BY <4>1
        <5> QED BY <5>1, <5>2, <5>3
      <4>2. CASE ~ (i <= n)
        <5>1. i = n + 1 /\ i # 0 /\ i - 1 = n /\ n \in 0 .. n + 1 /\ n <= n
          BY <4>2
        <5>2. f[i] = Body(g, i) /\ f[i - 1] = g[i - 1]
          BY <5>1
        <5> QED BY <5>2
      <4> QED BY <4>1, <4>2
    <3>3. Good(f, n + 1)
      <4>1. f = [i \in 0 .. n + 1 |-> f[i]]
        OBVIOUS
      <4> HIDE DEF f
      <4>2. [i \in 0 .. n + 1 |-> f[i]] = [i \in 0 .. n + 1 |-> Body(f, i)]
        BY <3>2
      <4> QED BY <4>1, <4>2
    <3> HIDE DEF f, Good
    <3> QED BY <3>3
  <2> HIDE DEF S
  <2> QED BY <2>1, <2>2, SetInduction
<1>2. l \in Nat /\ DOMAIN changes = 1 .. l
  OBVIOUS
<1>3. PICK g : Good(g, l)
  BY <1>1, <1>2
<1> DEFINE K == CHOOSE k : k = [i \in 0 .. l |-> Body(k, i)]
<1>4. \E k : k = [i \in 0 .. l |-> Body(k, i)]
  <2>1. g = [i \in 0 .. l |-> Body(g, i)]
    BY <1>3
  <2> QED BY <2>1
<1>5. Applicable(changes) = K[l]
  BY DEF Applicable, Applies
<1>6. K = [i \in 0 .. l |-> Body(K, i)]
  BY <1>4
<1> HIDE DEF K
<1> DEFINE P == {n \in Nat : n <= l =>
                     /\ K[n] \in Seq(Commands)
                     /\ \A e : (\E i \in DOMAIN K[n] : K[n][i] = e) <=> Kept(changes, n, e)}
<1>7. Nat \subseteq P
  <2>1. 0 \in P
    <3>1. K[0] = <<>>
      BY <1>2, <1>6
    <3>2. \A e : ~ Kept(changes, 0, e)
      BY DEF Kept
    <3>3. <<>> \in Seq(Commands) /\ DOMAIN <<>> = {}
      OBVIOUS
    <3> QED BY <3>1, <3>2, <3>3
  <2>2. ASSUME NEW n \in Nat, n \in P
        PROVE  n + 1 \in P
    <3> SUFFICES ASSUME n + 1 <= l
                 PROVE  /\ K[n + 1] \in Seq(Commands)
                        /\ \A e : (\E i \in DOMAIN K[n + 1] : K[n + 1][i] = e)
                                     <=> Kept(changes, n + 1, e)
      OBVIOUS
    <3>1. /\ n + 1 \in 0 .. l /\ n + 1 # 0 /\ (n + 1) - 1 = n /\ n <= l
          /\ n + 1 \in DOMAIN changes
          /\ \A j : j \in 1 .. n + 1 <=> j \in 1 .. n \/ j = n + 1
      BY <1>2
    <3>2. K[n + 1] = IF Applies(changes[n + 1]) THEN Append(K[n], changes[n + 1]) ELSE K[n]
      BY <1>6, <3>1
    <3>3. K[n] \in Seq(Commands) /\ changes[n + 1] \in Commands
      BY <2>2, <3>1, ChangeFacts
    <3>4. \A e : (\E i \in DOMAIN K[n] : K[n][i] = e) <=> Kept(changes, n, e)
      BY <2>2, <3>1
    <3>5. \A e : Kept(changes, n + 1, e) <=>
                    Kept(changes, n, e) \/ (Applies(changes[n + 1]) /\ e = changes[n + 1])
      BY <3>1 DEF Kept
    <3> DEFINE s == K[n]
               c == changes[n + 1]
               t == Append(s, c)
    <3>6. /\ t \in Seq(Commands)
          /\ \A e : (\E i \in DOMAIN t : t[i] = e) <=> (\E i \in DOMAIN s : s[i] = e) \/ e = c
      <4> HIDE DEF s, c
      <4>1. s \in Seq(Commands) /\ c \in Commands
        BY <3>3 DEF s, c
      <4>2. /\ t \in Seq(Commands) /\ DOMAIN t = DOMAIN s \cup {Len(s) + 1}
            /\ t[Len(s) + 1] = c /\ \A i \in DOMAIN s : t[i] = s[i]
        BY <4>1
      <4> HIDE DEF t
      <4> QED BY <4>2
    <3> HIDE DEF P
    <3> QED BY <3>2, <3>3, <3>4, <3>5, <3>6
  <2> HIDE DEF P
  <2> QED BY <2>1, <2>2, SetInduction
<1> QED BY <1>2, <1>5, <1>7

-----------------------------------------------------------------------------
(* The invariants *)

\* Which process there is, and what there is without one.
ProcessInv ==
    /\ ui.state = "off" <=> gdb.process = "none"
    /\ gdb.process = "none" => toUi = <<>>
    /\ gdb.process # "alive" => toGdb = <<>> /\ gdb.target = "none"
    /\ gdb.target = "none" => DOMAIN table = {}

\* The connection, from the command to the record that the UI reads.
FlagInv ==
    /\ ui.connected => ui.state \in {"stopped", "running"}
    /\ ui.state = "running" => ui.connected
    /\ ui.sent => ui.state \in {"running", "off"}
    /\ ui.connected /\ gdb.process = "alive" => gdb.target # "none"

CommandInv ==
    \A i \in DOMAIN toGdb : toGdb[i].op = "connect" =>
        i = 1 /\ toUi = <<>> /\ gdb.target = "none" /\ ui.state = "starting"

RecordInv ==
    /\ \A i \in DOMAIN toUi :
          /\ toUi[i].op = "connected" =>
                /\ ~ ui.connected
                /\ gdb.process = "alive" => gdb.target # "none"
                /\ \A j \in DOMAIN toUi : j < i => toUi[j].op = "stopped"
          /\ toUi[i].op = "running" =>
                ui.connected \/ \E j \in DOMAIN toUi : j < i /\ toUi[j].op = "connected"
    /\ gdb.target # "none" => ui.connected \/ Has(toUi, "connected")

ConnectInv == FlagInv /\ CommandInv /\ RecordInv

\* What the UI will have heard of the target when it has read everything.
RunInv ==
    /\ gdb.target = "running" =>
          \/ Ends(toUi, "running", "stopped")
          \/ ui.state = "running" /\ ~ Has(toUi, "stopped")
    /\ gdb.target = "halted" =>
          \/ Ends(toUi, "stopped", "running")
          \/ ui.state # "running" /\ ~ Has(toUi, "running")

\* A number is given to one breakpoint, and is deleted when nobody has it.
Free(n) ==
    /\ n < gdb.next
    /\ \A k \in DOMAIN bps : bps[k].number # n
    /\ \A i \in DOMAIN toUi : toUi[i].op = "inserted" => toUi[i].number # n

Answers(i) == toUi[i].op = "inserted" /\ toUi[i].number # None

NumberInv ==
    gdb.process = "alive" =>
        /\ \A n \in DOMAIN table : n < gdb.next
        /\ \A k \in DOMAIN bps : bps[k].number # None =>
              bps[k].number \in DOMAIN table /\ table[bps[k].number] = k
        /\ \A i \in DOMAIN toUi : Answers(i) =>
              /\ toUi[i].number \in DOMAIN table /\ table[toUi[i].number] = toUi[i].key
              /\ \A k \in DOMAIN bps : bps[k].number # toUi[i].number
              /\ \A j \in DOMAIN toUi :
                    Answers(j) /\ toUi[j].number = toUi[i].number => j = i
        /\ \A i \in DOMAIN toGdb : toGdb[i].op = "delete" => Free(toGdb[i].number)
        /\ \A i \in DOMAIN afterStop : afterStop[i].op = "delete" => Free(afterStop[i].number)

\* A breakpoint shown as set has its number, or an insert is under way for it.
Under(pipe, op, k) == \E i \in DOMAIN pipe : pipe[i].op = op /\ pipe[i].key = k

Inserting(k) ==
    Under(toGdb, "insert", k) \/ Under(afterStop, "insert", k) \/ Under(toUi, "inserted", k)

ListInv ==
    gdb.process = "alive" /\ ui.connected =>
        \A k \in DOMAIN bps : bps[k].state = "ok" /\ bps[k].number = None => Inserting(k)

\* The machine has gdb's breakpoints; nothing else sets any during a session.
MachineInv ==
    /\ \A n \in DOMAIN table : table[n] \in mach.bps
    /\ gdb.target # "none" => \A i \in DOMAIN posts : posts[i].call = "reset"

\* The display is up to date, or a refresh that will be is under way.
Fresh ==
    \/ \E i \in DOMAIN toGdb : New(toGdb[i])
    \/ \E i \in DOMAIN toUi :
          /\ New(toUi[i]) /\ toUi[i].data = "current"
          /\ \A j \in DOMAIN toUi : j > i => ~ New(toUi[j])
    \/ ui.shown = "current" /\ \A i \in DOMAIN toUi : ~ New(toUi[i])

Standing ==
    /\ gdb.process = "alive" /\ ui.connected /\ ui.state = "stopped" /\ gdb.target = "halted"
    /\ ~ Has(toUi, "stopped") /\ ~ Has(toGdb, "continue")

ViewInv ==
    /\ Standing /\ gdb.registers = "clean" => Fresh
    /\ gdb.process = "alive" /\ ui.state = "stopped" =>
          \A i \in DOMAIN toGdb : toGdb[i].op = "flush" =>
              \E j \in DOMAIN toGdb : j > i /\ (New(toGdb[j]) \/ toGdb[j].op = "continue")

-----------------------------------------------------------------------------
(* What the steps do to the pipes *)

Keeps(p, q) == \A i \in DOMAIN p : q[i] = p[i]

LEMMA SentFacts ==
    ASSUME TypeOK, NEW commands \in Seq(Commands), NEW S,
           \A i \in DOMAIN commands : commands[i] \in S
    PROVE  /\ Sent(commands) \in Seq(Commands)
           /\ Extends(toGdb, Sent(commands), S) /\ Keeps(toGdb, Sent(commands))
           /\ gdb.process = "alive" =>
                 \A i \in DOMAIN commands : Adds(toGdb, Sent(commands), commands[i])
           /\ gdb.process # "alive" => Sent(commands) = toGdb
<1> USE DEF TypeOK
<1>1. CASE gdb.process = "alive"
  <2>1. Sent(commands) = toGdb \o commands
    BY <1>1 DEF Sent
  <2>2. Keeps(toGdb, toGdb \o commands)
    BY DEF Keeps
  <2>3. /\ toGdb \o commands \in Seq(Commands) /\ Extends(toGdb, toGdb \o commands, S)
        /\ \A i \in DOMAIN commands : Adds(toGdb, toGdb \o commands, commands[i])
    <3>1. Extends(toGdb, toGdb, {})
      BY ExtendsSame
    <3> QED BY <3>1, CatExtends
  <2> QED BY <1>1, <2>1, <2>2, <2>3
<1>2. CASE gdb.process # "alive"
  <2>1. Sent(commands) = toGdb
    BY <1>2 DEF Sent
  <2> QED BY <1>2, <2>1 DEF Extends, Keeps
<1> QED BY <1>1, <1>2

LEMMA SentOne ==
    ASSUME TypeOK, NEW c \in Commands
    PROVE  /\ Sent(<<c>>) \in Seq(Commands)
           /\ Extends(toGdb, Sent(<<c>>), {c}) /\ Keeps(toGdb, Sent(<<c>>))
           /\ gdb.process = "alive" => Adds(toGdb, Sent(<<c>>), c)
           /\ gdb.process # "alive" => Sent(<<c>>) = toGdb
<1>1. <<c>> \in Seq(Commands) /\ DOMAIN <<c>> = {1} /\ <<c>>[1] = c
  OBVIOUS
<1> QED BY <1>1, SentFacts

\* A change of the list of breakpoints is given to gdb, or waits for a stop.
Edit(S) ==
    /\ ui' \in Session /\ ui'.state = ui.state /\ ui'.connected = ui.connected
    /\ ui'.shown = ui.shown
    /\ ui'.sent => \/ ui.sent
                   \/ /\ ui.state # "stopped" /\ ui.connected
                      /\ gdb.process = "alive" => Has(toGdb', "interrupt")
    /\ toGdb' \in Seq(Commands) /\ Keeps(toGdb, toGdb')
    /\ Extends(toGdb, toGdb', S \cup {[op |-> "interrupt"]})
    /\ gdb.process # "alive" => toGdb' = toGdb
    /\ afterStop' \in Seq(Changes) /\ Extends(afterStop, afterStop', S)

LEMMA WhenStoppedFacts ==
    ASSUME TypeOK, NEW c \in Changes, ui.connected, WhenStopped(c)
    PROVE  /\ Edit({c})
           /\ gdb.process = "alive" => Adds(toGdb, toGdb', c) \/ Adds(afterStop, afterStop', c)
<1> USE DEF TypeOK
<1> DEFINE i == [op |-> "interrupt"]
<1>0. i \in Commands /\ c \in Commands
  BY CommandList, ChangeFacts
<1>1. CASE ui.state = "stopped"
  <2>1. toGdb' = Sent(<<c>>) /\ UNCHANGED <<afterStop, ui>>
    BY <1>1 DEF WhenStopped
  <2>2. Extends(toGdb, toGdb', {c} \cup {i})
    <3>1. Extends(toGdb, Sent(<<c>>), {c})
      BY <1>0, SentOne
    <3> QED BY <2>1, <3>1, ExtendsMore
  <2>3. Extends(afterStop, afterStop', {c})
    BY <2>1, ExtendsSame
  <2> QED BY <1>0, <2>1, <2>2, <2>3, SentOne DEF Edit
<1>2. CASE ui.state # "stopped"
  <2>1. /\ afterStop' = Append(afterStop, c) /\ ui' = [ui EXCEPT !.sent = TRUE]
        /\ toGdb' = IF ui.sent THEN toGdb ELSE Sent(<<i>>)
    BY <1>2 DEF WhenStopped
  <2>2. /\ afterStop' \in Seq(Changes) /\ Extends(afterStop, afterStop', {c})
        /\ Adds(afterStop, afterStop', c)
    BY <2>1, AppendExtends, ExtendsSame
  <2>3. /\ ui' \in Session /\ ui'.state = ui.state /\ ui'.connected = ui.connected
        /\ ui'.shown = ui.shown
    BY <2>1 DEF Session
  <2>4. CASE ui.sent
    <3>1. Extends(toGdb, toGdb', {c} \cup {i}) /\ Keeps(toGdb, toGdb')
      BY <2>1, <2>4, ExtendsSame DEF Keeps
    <3> QED BY <2>1, <2>2, <2>3, <2>4, <3>1 DEF Edit
  <2>5. CASE ~ ui.sent
    <3>1. toGdb' = Sent(<<i>>)
      BY <2>1, <2>5
    <3>2. Extends(toGdb, toGdb', {c} \cup {i}) /\ Keeps(toGdb, toGdb') /\ toGdb' \in Seq(Commands)
      BY <1>0, <3>1, SentOne, ExtendsMore
    <3>3. gdb.process = "alive" => Has(toGdb', "interrupt")
      <4>1. gdb.process = "alive" => Adds(toGdb, toGdb', i)
        BY <1>0, <3>1, SentOne
      <4> QED BY <4>1 DEF Adds, Has
    <3>4. gdb.process # "alive" => toGdb' = toGdb
      BY <1>0, <3>1, SentOne
    <3> QED BY <1>2, <2>2, <2>3, <3>2, <3>3, <3>4 DEF Edit
  <2> QED BY <2>4, <2>5
<1> QED BY <1>1, <1>2

LEMMA NoEdit ==
    ASSUME TypeOK, UNCHANGED <<ui, afterStop, toGdb>>, NEW S
    PROVE  Edit(S)
<1>1. Extends(toGdb, toGdb', S \cup {[op |-> "interrupt"]}) /\ Extends(afterStop, afterStop', S)
  BY ExtendsSame
<1> QED BY <1>1 DEF Edit, TypeOK, Keeps

Inserted(k) == [op |-> "insert", key |-> k]
Deleted(k) == [op |-> "delete", number |-> bps[k].number]

LEMMA AddFacts ==
    ASSUME TypeOK, NEW k \in Keys, AddBreakpoint(k)
    PROVE  /\ Edit({Inserted(k)})
           /\ ~ ui.connected => UNCHANGED <<ui, afterStop, toGdb>>
           /\ posts' \in Seq(Calls)
           /\ ui.connected \/ ui.state # "off" => posts' = posts
<1>1. Inserted(k) \in Changes
  BY ChangeFacts DEF Inserted
<1>2. CASE ui.connected
  <2>1. WhenStopped(Inserted(k)) /\ UNCHANGED posts
    BY <1>2 DEF AddBreakpoint, Inserted
  <2> QED BY <1>1, <1>2, <2>1, WhenStoppedFacts DEF TypeOK
<1>3. CASE ~ ui.connected
  <2>1. AddressesChanged(k, DOMAIN bps \cup {k}) /\ UNCHANGED <<ui, afterStop, toGdb>>
    BY <1>3 DEF AddBreakpoint
  <2>2. SetAddresses(DOMAIN bps \cup {k}) \in Calls
    BY DEF SetAddresses, Calls
  <2>3. posts' \in Seq(Calls) /\ (ui.state # "off" => posts' = posts)
    BY <2>1, <2>2 DEF AddressesChanged, TypeOK
  <2> QED BY <1>3, <2>1, <2>3, NoEdit
<1> QED BY <1>2, <1>3

LEMMA RemoveFacts ==
    ASSUME TypeOK, NEW k \in Keys, RemoveBreakpoint(k)
    PROVE  /\ Edit(IF ui.connected /\ bps[k].number # None THEN {Deleted(k)} ELSE {})
           /\ posts' \in Seq(Calls)
           /\ ui.connected \/ ui.state # "off" => posts' = posts
<1>1. CASE ui.connected /\ bps[k].number # None
  <2>1. Deleted(k) \in Changes
    <3>1. bps[k].number \in Numbers
      BY <1>1 DEF RemoveBreakpoint, TypeOK, Breakpoint
    <3> QED BY <3>1, ChangeFacts DEF Deleted
  <2>2. WhenStopped(Deleted(k)) /\ UNCHANGED posts
    BY <1>1 DEF RemoveBreakpoint, Deleted
  <2> QED BY <1>1, <2>1, <2>2, WhenStoppedFacts DEF TypeOK
<1>2. CASE ~ (ui.connected /\ bps[k].number # None)
  <2>1. UNCHANGED <<ui, afterStop, toGdb>>
    BY <1>2 DEF RemoveBreakpoint
  <2>2. SetAddresses(DOMAIN bps \ {k}) \in Calls
    BY DEF SetAddresses, Calls
  <2>3. posts' \in Seq(Calls) /\ (ui.connected \/ ui.state # "off" => posts' = posts)
    <3>1. posts \in Seq(Calls) /\ Append(posts, SetAddresses(DOMAIN bps \ {k})) \in Seq(Calls)
      BY <2>2 DEF TypeOK
    <3> QED BY <3>1 DEF RemoveBreakpoint, AddressesChanged
  <2> QED BY <1>2, <2>1, <2>3, NoEdit
<1> QED BY <1>1, <1>2

\* SetToSeq lists each member of a finite set.
LEMMA ListFacts ==
    ASSUME NEW S, IsFiniteSet(S)
    PROVE  /\ SetToSeq(S) \in Seq(S)
           /\ \A x \in S : \E i \in DOMAIN SetToSeq(S) : SetToSeq(S)[i] = x
<1> DEFINE n == Cardinality(S)
           f == SetToSeq(S)
<1>1. n \in Nat /\ ExistsBijection(1 .. n, S)
  BY FS_CardinalityType
<1>2. \E g \in [1 .. n -> S] : IsInjective(g)
  BY <1>1 DEF ExistsBijection, Bijection, Injection
<1>3. f \in [1 .. n -> S] /\ IsInjective(f)
  BY <1>2 DEF SetToSeq
<1>4. f \in Injection(1 .. n, S)
  BY <1>3 DEF Injection
<1>5. Cardinality(1 .. n) = n
  BY <1>1, FS_Interval
<1>6. f \in Surjection(1 .. n, S)
  <2> HIDE DEF f
  <2> QED BY <1>4, <1>5, FS_Injection
<1>7. f \in Seq(S) /\ DOMAIN f = 1 .. n
  <2> HIDE DEF f, n
  <2> QED BY <1>1, <1>3
<1> QED BY <1>6, <1>7 DEF Surjection

Inserts0 == {Inserted(k) : k \in DOMAIN bps}

LEMMA ConnectedFacts ==
    ASSUME TypeOK, IsFiniteSet(DOMAIN bps), ReadConnected, gdb.process = "alive"
    PROVE  /\ toGdb' \in Seq(Commands)
           /\ Extends(toGdb, toGdb', Inserts0 \cup {Refresh})
           /\ Adds(toGdb, toGdb', Refresh)
           /\ \A k \in DOMAIN bps : Adds(toGdb, toGdb', Inserted(k))
<1> DEFINE o == Outdated(toGdb)
           e == SetToSeq(Inserts0)
           r == <<Refresh>>
<1>1. toGdb' = o \o e \o r
  BY DEF ReadConnected, Inserts0, Inserted
<1>2. IsFiniteSet(Inserts0)
  <2> DEFINE f == [k \in DOMAIN bps |-> Inserted(k)]
  <2>1. f \in Surjection(DOMAIN bps, Inserts0)
    BY DEF Surjection, Inserts0
  <2> HIDE DEF f
  <2> QED BY <2>1, FS_Surjection
<1>3. Inserts0 \subseteq Commands
  BY CommandList DEF Inserts0, Inserted, TypeOK
<1>4. e \in Seq(Commands) /\ \A i \in DOMAIN e : e[i] \in Inserts0
  <2>1. e \in Seq(Inserts0)
    BY <1>2, ListFacts
  <2> HIDE DEF e
  <2> QED BY <1>3, <2>1
<1>5. \A k \in DOMAIN bps : \E i \in DOMAIN e : e[i] = Inserted(k)
  BY <1>2, ListFacts DEF Inserts0
<1>6. o \in Seq(Commands) /\ Extends(toGdb, o, {})
  BY OutdatedCommands DEF TypeOK
<1>7. r \in Seq(Commands) /\ DOMAIN r = {1} /\ r[1] = Refresh
  BY CommandList
<1> HIDE DEF o, e, r
<1> DEFINE t == e \o r
<1>8. /\ t \in Seq(Commands) /\ \A i \in DOMAIN t : t[i] \in Inserts0 \cup {Refresh}
      /\ \E i \in DOMAIN t : t[i] = Refresh
      /\ \A x : (\E i \in DOMAIN e : e[i] = x) => \E i \in DOMAIN t : t[i] = x
  <2>1. Extends(e, e, {}) /\ Keeps(e, t)
    BY <1>4, <1>7 DEF Extends, Keeps
  <2>2. /\ t \in Seq(Commands) /\ Extends(e, t, {Refresh})
        /\ \A i \in DOMAIN r : Adds(e, t, r[i])
    BY <1>4, <1>7, <2>1, CatExtends
  <2> HIDE DEF t
  <2> QED BY <1>4, <1>7, <2>1, <2>2 DEF Extends, Adds, Keeps
<1>9. toGdb' = o \o t
  BY <1>1, <1>4, <1>6, <1>7
<1> HIDE DEF t
<1>10. /\ o \o t \in Seq(Commands) /\ Extends(toGdb, o \o t, Inserts0 \cup {Refresh})
       /\ \A i \in DOMAIN t : Adds(toGdb, o \o t, t[i])
  BY <1>6, <1>8, CatExtends
<1> QED BY <1>5, <1>8, <1>9, <1>10


LEMMA StoppedFacts ==
    ASSUME TypeOK, ReadStopped, gdb.process = "alive"
    PROVE  /\ toGdb' \in Seq(Commands)
           /\ Extends(toGdb, toGdb', {c \in Commands : c.op \in {"insert", "delete"} /\ Kept(afterStop, Len(afterStop), c)}
                                     \cup {[op |-> "continue"], Refresh})
           /\ IF afterStop = <<>> THEN Adds(toGdb, toGdb', Refresh)
              ELSE Adds(toGdb, toGdb', [op |-> "continue"])
           /\ \A c \in Commands : Kept(afterStop, Len(afterStop), c) => Adds(toGdb, toGdb', c)
<1> USE DEF TypeOK
<1> DEFINE o == Outdated(toGdb)
           a == Applicable(afterStop)
           g == [op |-> "continue"]
           K == {c \in Commands : c.op \in {"insert", "delete"} /\ Kept(afterStop, Len(afterStop), c)}
           S == K \cup {g, Refresh}
<1>1. o \in Seq(Commands) /\ Extends(toGdb, o, {})
  BY OutdatedCommands
<1>2. g \in Commands /\ Refresh \in Commands
  BY CommandList
<1>3. CASE afterStop = <<>>
  <2>1. toGdb' = Append(o, Refresh)
    BY <1>3 DEF ReadStopped
  <2>2. \A c : ~ Kept(afterStop, Len(afterStop), c)
    <3>1. Len(afterStop) = 0
      BY <1>3
    <3> QED BY <3>1 DEF Kept
  <2> HIDE DEF o
  <2>3. toGdb' \in Seq(Commands) /\ Extends(toGdb, toGdb', {Refresh}) /\ Adds(toGdb, toGdb', Refresh)
    BY <1>1, <1>2, <2>1, AppendExtends
  <2>4. Extends(toGdb, toGdb', S)
    BY <2>3, ExtendsMore
  <2> QED BY <1>3, <2>2, <2>3, <2>4
<1>4. CASE afterStop # <<>>
  <2>1. toGdb' = o \o (a \o <<g>>)
    BY <1>4 DEF ReadStopped
  <2>2. a \in Seq(Commands) /\ \A e : (\E i \in DOMAIN a : a[i] = e) <=> Kept(afterStop, Len(afterStop), e)
    BY ApplicableFacts
  <2>3. \A i \in DOMAIN a : a[i] \in K
    <3>1. ASSUME NEW e, Kept(afterStop, Len(afterStop), e)
          PROVE  e.op \in {"insert", "delete"}
      <4>1. PICK j \in 1 .. Len(afterStop) : e = afterStop[j]
        BY <3>1 DEF Kept
      <4> QED BY <4>1, ChangeFacts
    <3> HIDE DEF a
    <3> QED BY <2>2, <3>1
  <2> HIDE DEF a, o, K, g
  <2> DEFINE t == Append(a, g)
  <2>4. /\ t \in Seq(Commands) /\ (\E i \in DOMAIN t : t[i] = g)
        /\ \A i \in DOMAIN t : t[i] \in K \cup {g}
        /\ \A e : (\E i \in DOMAIN a : a[i] = e) => \E i \in DOMAIN t : t[i] = e
    <3>1. /\ t \in Seq(Commands) /\ DOMAIN t = DOMAIN a \cup {Len(a) + 1}
          /\ t[Len(a) + 1] = g /\ \A i \in DOMAIN a : t[i] = a[i]
      BY <1>2, <2>2
    <3> HIDE DEF t
    <3> QED BY <2>3, <3>1
  <2>5. toGdb' = o \o t
    <3>1. a \o <<g>> = t
      BY <1>2, <2>2
    <3> QED BY <2>1, <3>1
  <2> HIDE DEF t
  <2>6. /\ toGdb' \in Seq(Commands) /\ Extends(toGdb, toGdb', K \cup {g})
        /\ \A i \in DOMAIN t : Adds(toGdb, toGdb', t[i])
    BY <1>1, <2>4, <2>5, CatExtends
  <2>7. Extends(toGdb, toGdb', S)
    BY <2>6, ExtendsMore
  <2> QED BY <1>4, <2>2, <2>4, <2>6, <2>7 DEF K, g
<1> QED BY <1>3, <1>4

-----------------------------------------------------------------------------
(* Types *)

Typed == TypeOK /\ IsFiniteSet(DOMAIN bps)

LEMMA EmptyTypes == NoBps \in [{} -> Breakpoint] /\ NoBps \in [{} -> Keys] /\ DOMAIN NoBps = {}
BY DEF NoBps

LEMMA NoGdbType ==
    /\ NoGdb \in Gdb
    /\ \A p \in {"alive", "dead"} : [NoGdb EXCEPT !.process = p] \in Gdb
BY DEF NoGdb, Gdb, Numbers

LEMMA OffType == \A s \in {"off", "starting"} : Off \in Session /\ [Off EXCEPT !.state = s] \in Session
BY DEF Off, Session, Shown

LEMMA Initial == Init => Typed
BY EmptyTypes, NoGdbType, FS_EmptySet
   DEF Init, Typed, TypeOK, Session, Shown, Machine

LEMMA StopTyped ==
    ASSUME Typed, Stop
    PROVE  /\ DOMAIN bps' = DOMAIN bps /\ bps' \in [DOMAIN bps' -> Breakpoint]
           /\ afterStop' = <<>> /\ toUi' = <<>> /\ DOMAIN table' = {} /\ table' = NoBps
           /\ \A k \in DOMAIN bps : bps'[k].number = None
BY EmptyTypes DEF Typed, TypeOK, Stop, Breakpoint, Numbers, None

LEMMA StopForGoodTyped ==
    ASSUME Typed, StopForGood
    PROVE  Typed'
<1>1. Stop /\ ui' = Off /\ toGdb' = <<>> /\ gdb' = NoGdb /\ UNCHANGED <<mach, resets>>
      /\ posts' = Append(posts, SetAddresses(DOMAIN bps))
  BY DEF StopForGood
<1>2. SetAddresses(DOMAIN bps) \in Calls
  BY DEF SetAddresses, Calls
<1>3. posts' \in Seq(Calls)
  BY <1>1, <1>2 DEF Typed, TypeOK
<1>4. table' \in [DOMAIN table' -> Keys] /\ DOMAIN table' = {}
  BY <1>1, StopTyped, EmptyTypes
<1>5. ui' \in Session /\ gdb' \in Gdb
  BY <1>1, NoGdbType, OffType
<1>6. /\ DOMAIN bps' = DOMAIN bps /\ bps' \in [DOMAIN bps' -> Breakpoint]
      /\ afterStop' = <<>> /\ toUi' = <<>>
  BY <1>1, StopTyped
<1> QED BY <1>1, <1>3, <1>4, <1>5, <1>6 DEF Typed, TypeOK

LEMMA UserTyped ==
    ASSUME Typed, UserStep
    PROVE  Typed'
<1> USE DEF Typed, TypeOK
<1>1. ASSUME NEW k \in Keys, AddBreakpoint(k)
      PROVE  Typed'
  <2> DEFINE b == [number |-> None, state |-> IF k \in Addresses /\ ~ ui.connected THEN "ok" ELSE "pending"]
  <2>1. b \in Breakpoint
    BY DEF Breakpoint
  <2>2. bps' = With(bps, k, b)
    BY <1>1 DEF AddBreakpoint
  <2> HIDE DEF b
  <2>3. DOMAIN bps' = DOMAIN bps \cup {k} /\ bps' \in [DOMAIN bps' -> Breakpoint]
    BY <2>1, <2>2 DEF With
  <2>4. IsFiniteSet(DOMAIN bps')
    <3>1. IsFiniteSet(DOMAIN bps \cup {k})
      BY FS_AddElement
    <3> QED BY <2>3, <3>1
  <2>5. UNCHANGED <<toUi, gdb, table, mach, resets>>
    BY <1>1 DEF AddBreakpoint
  <2> QED BY <1>1, <2>3, <2>4, <2>5, AddFacts DEF Edit
<1>2. ASSUME NEW k \in Keys, RemoveBreakpoint(k)
      PROVE  Typed'
  <2>1. bps' = [j \in DOMAIN bps \ {k} |-> bps[j]] /\ UNCHANGED <<toUi, gdb, table, mach, resets>>
    BY <1>2 DEF RemoveBreakpoint
  <2>2. DOMAIN bps' = DOMAIN bps \ {k} /\ bps' \in [DOMAIN bps' -> Breakpoint]
    BY <2>1
  <2>3. IsFiniteSet(DOMAIN bps')
    <3>1. IsFiniteSet(DOMAIN bps \ {k})
      BY FS_RemoveElement
    <3> QED BY <2>2, <3>1
  <2> QED BY <1>2, <2>1, <2>2, <2>3, RemoveFacts DEF Edit
<1>3. CASE Resume
  BY <1>3, SentOne, CommandList DEF Resume
<1>4. CASE Pause
  <2>1. ui' \in Session
    BY <1>4 DEF Pause, Session
  <2> QED BY <1>4, <2>1, SentOne, CommandList DEF Pause
<1>5. CASE Reset
  <2>1. [call |-> "reset"] \in Calls
    BY DEF Calls
  <2> QED BY <1>5, <2>1 DEF Reset
<1>6. ASSUME NEW next \in {"off", "starting"}, Load(next)
      PROVE  Typed'
  <2>1. Stop /\ ui' = [Off EXCEPT !.state = next] /\ UNCHANGED <<mach, resets>>
    BY <1>6 DEF Load
  <2>2. toGdb' \in Seq(Commands) /\ gdb' \in Gdb
    <3>1. [op |-> "connect"] \in Commands
      BY CommandList
    <3>2. <<[op |-> "connect"]>> \in Seq(Commands) /\ <<>> \in Seq(Commands)
      BY <3>1
    <3> QED BY <1>6, <3>2, NoGdbType DEF Load
  <2>3. posts' \in Seq(Calls)
    <3>1. [call |-> "load"] \in Calls /\ SetAddresses(DOMAIN bps) \in Calls
      BY DEF Calls, SetAddresses
    <3> QED BY <1>6, <3>1 DEF Load
  <2>4. table' \in [DOMAIN table' -> Keys] /\ DOMAIN table' = {}
    BY <2>1, StopTyped, EmptyTypes
  <2>5. ui' \in Session
    BY <2>1, OffType
  <2>6. /\ DOMAIN bps' = DOMAIN bps /\ bps' \in [DOMAIN bps' -> Breakpoint]
        /\ afterStop' = <<>> /\ toUi' = <<>>
    BY <2>1, StopTyped
  <2> QED BY <2>1, <2>2, <2>3, <2>4, <2>5, <2>6
<1> QED BY <1>1, <1>2, <1>3, <1>4, <1>5, <1>6 DEF UserStep

LEMMA UiTyped ==
    ASSUME Typed, UiStep
    PROVE  Typed'
<1> USE DEF Typed, TypeOK
<1>0. toUi # <<>> => Tail(toUi) \in Seq(Records) /\ Head(toUi) \in Records
                     /\ Outdated(Tail(toUi)) \in Seq(Records)
  <2>1. toUi # <<>> => Tail(toUi) \in Seq(Records) /\ Head(toUi) \in Records
    OBVIOUS
  <2> QED BY <2>1, OutdatedRecords
<1>1. CASE ReadRunning
  <2>1. ui' \in Session
    BY <1>1 DEF ReadRunning, Session
  <2> QED BY <1>0, <1>1, <2>1, OutdatedCommands DEF ReadRunning, Read
<1>2. CASE ReadStopped
  <2>1. ui' \in Session
    BY <1>2 DEF ReadStopped, Session
  <2>2. toGdb' \in Seq(Commands)
    <3>1. CASE gdb.process = "alive"
      BY <1>2, <3>1, StoppedFacts
    <3>2. CASE gdb.process # "alive"
      <4>1. toGdb' = Outdated(toGdb) \o <<>>
        BY <1>2, <3>2 DEF ReadStopped
      <4> QED BY <4>1, OutdatedCommands
    <3> QED BY <3>1, <3>2
  <2> QED BY <1>0, <1>2, <2>1, <2>2 DEF ReadStopped, Read
<1>3. CASE ReadConnected
  <2>1. ui' \in Session
    BY <1>3 DEF ReadConnected, Session
  <2>2. toGdb' \in Seq(Commands)
    BY <1>3, ConnectedFacts DEF ReadConnected
  <2> QED BY <1>0, <1>3, <2>1, <2>2 DEF ReadConnected, Read
<1>4. CASE ReadRefused \/ Timeout
  BY <1>4, StopForGoodTyped DEF ReadRefused, Timeout
<1>5. CASE ReadInserted
  <2> DEFINE r == Head(toUi)
  <2>1. r \in Records /\ r.op = "inserted" /\ toUi' = Tail(toUi) /\ toUi # <<>>
        /\ UNCHANGED <<ui, afterStop, gdb, table, mach, posts, resets>>
    BY <1>0, <1>5 DEF ReadInserted, Read
  <2>2. r.key \in Keys /\ r.number \in Numbers \cup {None}
    BY <2>1, RecordFacts
  <2>3. CASE r.key \in DOMAIN bps
    <3> DEFINE b == IF r.number = None THEN [bps[r.key] EXCEPT !.state = "error"]
                    ELSE [number |-> r.number, state |-> "ok"]
    <3>1. bps' = [bps EXCEPT ![r.key] = b] /\ UNCHANGED toGdb
      BY <1>5, <2>3 DEF ReadInserted
    <3>2. b \in Breakpoint
      BY <2>2, <2>3 DEF Breakpoint
    <3> HIDE DEF b
    <3>3. DOMAIN bps' = DOMAIN bps /\ bps' \in [DOMAIN bps' -> Breakpoint]
      BY <3>1, <3>2
    <3> QED BY <1>0, <2>1, <3>1, <3>3
  <2>4. CASE r.key \notin DOMAIN bps
    <3>1. UNCHANGED bps /\ toGdb' \in Seq(Commands)
      BY <1>5, <2>2, <2>4, CommandList, SentOne DEF ReadInserted
    <3> QED BY <1>0, <2>1, <3>1
  <2> QED BY <2>3, <2>4
<1>6. CASE ReadFrames
  <2>1. Head(toUi) \in Records /\ Head(toUi).op = "frames" /\ toUi # <<>>
    BY <1>0, <1>6 DEF ReadFrames, Read
  <2>2. Head(toUi).data \in Shown
    BY <2>1, RecordFacts
  <2>3. ui' \in Session
    BY <1>6, <2>2 DEF ReadFrames, Session
  <2> QED BY <1>0, <1>6, <2>1, <2>3 DEF ReadFrames
<1>7. CASE Finished
  <2>1. ui' \in Session
    BY <1>7 DEF Finished, Session
  <2> QED BY <1>7, <2>1, NoGdbType DEF Finished
<1>8. CASE TargetReset
  <2>1. toUi' \in Seq(Records)
    BY <1>8, OutdatedRecords DEF TargetReset
  <2>2. toGdb' \in Seq(Commands)
    <3>1. Outdated(toGdb) \o <<[op |-> "flush"], Refresh>> \in Seq(Commands)
      BY OutdatedCommands, CommandList
    <3> QED BY <1>8, <3>1 DEF TargetReset
  <2>3. resets' \in Nat
    BY <1>8 DEF TargetReset
  <2> QED BY <1>8, <2>1, <2>2, <2>3 DEF TargetReset
<1> QED BY <1>1, <1>2, <1>3, <1>4, <1>5, <1>6, <1>7, <1>8 DEF UiStep, ReadRecord

LEMMA GdbTyped ==
    ASSUME Typed, ConnectGdb \/ GdbCommand \/ StopGdb \/ Crash
    PROVE  Typed'
<1> USE DEF Typed, TypeOK
<1>0. toGdb # <<>> => Tail(toGdb) \in Seq(Commands) /\ Head(toGdb) \in Commands
  OBVIOUS
<1>1. CASE ConnectGdb
  <2>1. toGdb' \in Seq(Commands) /\ gdb' \in Gdb
    BY <1>0, <1>1 DEF ConnectGdb, Executes, Gdb
  <2>2. toUi' \in Seq(Records)
    <3>1. \A op \in {"stopped", "connected", "refused"} : [op |-> op] \in Records
      BY RecordList
    <3>2. /\ toUi \o <<[op |-> "stopped"], [op |-> "connected"]>> \in Seq(Records)
          /\ Append(toUi, [op |-> "refused"]) \in Seq(Records)
      BY <3>1
    <3> QED BY <1>1, <3>2 DEF ConnectGdb
  <2> QED BY <1>1, <2>1, <2>2 DEF ConnectGdb
<1>2. CASE ContinueGdb
  <2>1. toGdb' \in Seq(Commands) /\ gdb' \in Gdb /\ mach' \in Machine
    BY <1>0, <1>2 DEF ContinueGdb, Executes, Gdb, Machine
  <2>2. toUi' \in Seq(Records)
    <3>1. [op |-> "running"] \in Records
      BY RecordList
    <3>2. AgedPipe \in Seq(Records)
      BY AgedRecords
    <3>3. Append(AgedPipe, [op |-> "running"]) \in Seq(Records)
      BY <3>1, <3>2
    <3> QED BY <1>2, <3>3 DEF ContinueGdb
  <2>3. ui' \in Session
    BY <1>2 DEF ContinueGdb, AgedView, Aged, Session, Shown
  <2> QED BY <1>2, <2>1, <2>2, <2>3 DEF ContinueGdb
<1>3. CASE InterruptGdb
  BY <1>0, <1>3 DEF InterruptGdb, Executes, Machine
<1>4. CASE InsertGdb
  <2> DEFINE k == Head(toGdb).key
             Answer(n) == toUi' = Append(toUi, [op |-> "inserted", key |-> k, number |-> n])
  <2>1. k \in Keys /\ gdb.next \in Numbers
    BY <1>0, <1>4, CommandFacts DEF InsertGdb, Executes, Gdb
  <2>2. \A n \in Numbers \cup {None} : [op |-> "inserted", key |-> k, number |-> n] \in Records
    BY <2>1, RecordList
  <2>3. toGdb' \in Seq(Commands) /\ UNCHANGED <<ui, bps, afterStop, posts, resets>>
    BY <1>0, <1>4 DEF InsertGdb, Executes
  <2>4. CASE /\ Answer(gdb.next) /\ table' = With(table, gdb.next, k)
             /\ gdb' = [gdb EXCEPT !.next = @ + 1] /\ mach' = [mach EXCEPT !.bps = @ \cup {k}]
    <3>1. toUi' \in Seq(Records)
      BY <2>1, <2>2, <2>4
    <3>2. mach' \in Machine
      BY <2>1, <2>4 DEF Machine
    <3>4. gdb' \in Gdb
      <4>1. gdb.next + 1 \in Numbers
        BY <2>1 DEF Numbers
      <4> QED BY <2>4, <4>1 DEF Gdb
    <3>3. DOMAIN table' \subseteq Numbers /\ table' \in [DOMAIN table' -> Keys]
      BY <2>1, <2>4 DEF With
    <3> QED BY <2>3, <3>1, <3>2, <3>3, <3>4
  <2>5. CASE Answer(None) /\ UNCHANGED <<table, gdb, mach>>
    <3>1. toUi' \in Seq(Records)
      BY <2>2, <2>5
    <3> QED BY <2>3, <2>5, <3>1
  <2> QED BY <1>4, <2>4, <2>5 DEF InsertGdb
<1>5. CASE DeleteGdb
  <2>1. mach' \in Machine /\ DOMAIN table' \subseteq Numbers /\ table' \in [DOMAIN table' -> Keys]
    BY <1>5 DEF DeleteGdb, Machine
  <2> QED BY <1>0, <1>5, <2>1 DEF DeleteGdb, Executes
<1>6. CASE FlushGdb
  BY <1>0, <1>6 DEF FlushGdb, Executes, Gdb
<1>7. CASE FramesGdb
  <2>1. Head(toGdb).gen \in {"new", "old"}
    BY <1>0, <1>7, CommandFacts DEF FramesGdb, Executes
  <2>2. toUi' \in Seq(Records)
    BY <1>7, <2>1, RecordList DEF FramesGdb, Shown
  <2> QED BY <1>0, <1>7, <2>2 DEF FramesGdb, Executes
<1>8. CASE StopGdb
  <2>1. gdb' \in Gdb
    BY <1>8 DEF StopGdb, Gdb
  <2>2. [op |-> "stopped"] \in Records
    BY RecordList
  <2>3. toUi' \in Seq(Records)
    BY <1>8, <2>2 DEF StopGdb
  <2> QED BY <1>8, <2>1, <2>3 DEF StopGdb
<1>9. CASE Crash
  BY <1>9, NoGdbType, EmptyTypes DEF Crash
<1> QED BY <1>1, <1>2, <1>3, <1>4, <1>5, <1>6, <1>7, <1>8, <1>9 DEF GdbCommand

LEMMA WorkerTyped ==
    ASSUME Typed, WorkerStep \/ Hit
    PROVE  Typed'
<1> USE DEF Typed, TypeOK
<1>0. posts # <<>> => Tail(posts) \in Seq(Calls) /\ Head(posts) \in Calls
  OBVIOUS
<1>1. CASE TakeSet
  <2>1. Head(posts).keys \subseteq Keys
    BY <1>0, <1>1 DEF TakeSet, Calls, Keys
  <2> QED BY <1>0, <1>1, <2>1 DEF TakeSet, Machine
<1>2. CASE TakeLoad
  BY <1>0, <1>2 DEF TakeLoad, Machine
<1>3. CASE TakeReset
  <2>1. ui' \in Session
    BY <1>3 DEF TakeReset, AgedView, Aged, Session, Shown
  <2>2. mach' \in Machine
    BY <1>3 DEF TakeReset, Machine
  <2>4. resets' \in Nat
    BY <1>3 DEF TakeReset
  <2>3. gdb' \in Gdb
    BY <1>3 DEF TakeReset, Gdb
  <2> QED BY <1>0, <1>3, <2>1, <2>2, <2>3, <2>4, AgedRecords DEF TakeReset
<1>4. CASE Hit
  BY <1>4 DEF Hit, Machine
<1> QED BY <1>1, <1>2, <1>3, <1>4 DEF WorkerStep

LEMMA TypedInductive ==
    ASSUME Typed, [Next]_vars
    PROVE  Typed'
<1>1. CASE UNCHANGED vars
  BY <1>1 DEF vars, Typed, TypeOK
<1> QED BY <1>1, UserTyped, UiTyped, GdbTyped, WorkerTyped DEF Next


-----------------------------------------------------------------------------
(* Steps that do not touch the state of the session *)

Kin(p, q) == Extends(p, q, {}) /\ (p = <<>> => q = <<>>)

Quietly ==
    /\ ui'.state = ui.state /\ ui'.connected = ui.connected
    /\ ui'.sent => ui.sent \/ /\ ui.state = "running"
                              /\ gdb.process = "alive" => Has(toGdb', "interrupt")
    /\ gdb'.process = gdb.process /\ gdb'.target = gdb.target /\ gdb'.next = gdb.next
    /\ mach'.run = "running" => mach.run = "running"
    /\ Kin(toUi, toUi')
    /\ Extends(toGdb, toGdb', {c \in Commands : c.op # "connect"})
    /\ gdb.process # "alive" => toGdb' = toGdb
    /\ UNCHANGED table

LEMMA EmptyKin ==
    ASSUME NEW T, NEW p \in Seq(T), NEW q \in Seq(T), Extends(p, q, {})
    PROVE  Kin(p, q)
BY DEF Kin, Extends

LEMMA QuietUser ==
    ASSUME Typed, FlagInv, (\E k \in Keys : AddBreakpoint(k) \/ RemoveBreakpoint(k)) \/ Resume \/ Pause \/ Reset
    PROVE  Quietly
<1> USE DEF Typed
<1> DEFINE C == {c \in Commands : c.op # "connect"}
<1>0. /\ [op |-> "interrupt"] \in C /\ [op |-> "continue"] \in C
      /\ Changes \subseteq C
  BY CommandList, ChangeFacts
<1>1. ASSUME NEW k \in Keys, AddBreakpoint(k) \/ RemoveBreakpoint(k)
      PROVE  Quietly
  <2>1. UNCHANGED <<toUi, gdb, table, mach>>
    BY <1>1 DEF AddBreakpoint, RemoveBreakpoint
  <2>2. PICK S \in SUBSET Changes : Edit(S)
    <3>1. Inserted(k) \in Changes
      BY ChangeFacts DEF Inserted
    <3>2. CASE AddBreakpoint(k)
      BY <3>1, <3>2, AddFacts
    <3>3. CASE RemoveBreakpoint(k)
      <4>1. bps[k].number # None => Deleted(k) \in Changes
        BY <3>3, ChangeFacts DEF RemoveBreakpoint, TypeOK, Breakpoint, Deleted
      <4> QED BY <3>3, <4>1, RemoveFacts
    <3> QED BY <1>1, <3>2, <3>3
  <2>3. Extends(toGdb, toGdb', C)
    <3>1. S \cup {[op |-> "interrupt"]} \subseteq C
      BY <1>0
    <3> HIDE DEF C
    <3> QED BY <2>2, <3>1, ExtendsMore DEF Edit
  <2>4. Kin(toUi, toUi')
    BY <2>1, ExtendsSame DEF Kin
  <2> QED BY <2>1, <2>2, <2>3, <2>4 DEF Edit, Quietly, FlagInv
<1>2. ASSUME Resume \/ Pause
      PROVE  Quietly
  <2>1. PICK c \in {[op |-> "interrupt"], [op |-> "continue"]} :
           /\ toGdb' = Sent(<<c>>)
           /\ ui'.sent /\ ~ ui.sent => c.op = "interrupt" /\ ui.state = "running"
    BY <1>2 DEF Resume, Pause
  <2>2. UNCHANGED <<toUi, gdb, table, mach>> /\ ui'.state = ui.state /\ ui'.connected = ui.connected
    BY <1>2 DEF Resume, Pause, TypeOK, Session
  <2>3. c \in Commands /\ {c} \subseteq C
    BY <1>0
  <2> HIDE DEF C
  <2>4. /\ Extends(toGdb, toGdb', {c}) /\ (gdb.process # "alive" => toGdb' = toGdb)
        /\ gdb.process = "alive" => Adds(toGdb, toGdb', c)
    BY <2>1, <2>3, SentOne
  <2>5. Extends(toGdb, toGdb', C)
    BY <2>3, <2>4, ExtendsMore
  <2>6. Kin(toUi, toUi')
    BY <2>2, ExtendsSame DEF Kin
  <2>7. ui'.sent /\ ~ ui.sent /\ gdb.process = "alive" => Has(toGdb', "interrupt")
    BY <2>1, <2>4 DEF Adds, Has
  <2>8. ui.sent \in BOOLEAN /\ ui'.sent \in BOOLEAN
    BY <1>2 DEF Resume, Pause, TypeOK, Session
  <2> QED BY <2>1, <2>2, <2>4, <2>5, <2>6, <2>7, <2>8 DEF Quietly, C
<1>3. CASE Reset
  BY <1>3, ExtendsSame DEF Reset, Quietly, Kin
<1> QED BY <1>1, <1>2, <1>3

LEMMA QuietWorker ==
    ASSUME Typed, WorkerStep \/ Hit
    PROVE  Quietly
<1> USE DEF Typed, TypeOK
<1>1. CASE TakeReset
  <2>1. Kin(toUi, toUi')
    BY <1>1, AgedRecords, EmptyKin DEF TakeReset
  <2>2. ui'.state = ui.state /\ ui'.connected = ui.connected /\ ui'.sent = ui.sent
    BY <1>1 DEF TakeReset, AgedView, Session
  <2>3. gdb'.process = gdb.process /\ gdb'.target = gdb.target /\ gdb'.next = gdb.next
    BY <1>1 DEF TakeReset, Gdb
  <2>4. mach'.run = "stopped"
    BY <1>1 DEF TakeReset, Machine
  <2>5. UNCHANGED <<toGdb, table>>
    BY <1>1 DEF TakeReset
  <2> QED BY <2>1, <2>2, <2>3, <2>4, <2>5, ExtendsSame DEF Quietly
<1>2. CASE TakeSet \/ TakeLoad \/ Hit
  <2>1. UNCHANGED <<ui, toGdb, toUi, gdb, table>>
    BY <1>2 DEF TakeSet, TakeLoad, Hit
  <2>2. mach'.run = "running" => mach.run = "running"
    BY <1>2 DEF TakeSet, TakeLoad, Hit, Machine
  <2> QED BY <2>1, <2>2, ExtendsSame DEF Quietly, Kin
<1> QED BY <1>1, <1>2 DEF WorkerStep

LEMMA ResetFacts ==
    ASSUME Typed, TargetReset, ui.connected /\ ui.state = "stopped", gdb.process = "alive"
    PROVE  /\ Extends(toGdb, toGdb', {[op |-> "flush"], Refresh})
           /\ Adds(toGdb, toGdb', Refresh)
           /\ \A i \in DOMAIN toGdb' : toGdb'[i].op = "flush" => \E j \in DOMAIN toGdb' : j > i /\ New(toGdb'[j])
<1> DEFINE f == [op |-> "flush"]
           o == Outdated(toGdb)
           m == Append(o, f)
<1>1. o \in Seq(Commands) /\ Extends(toGdb, o, {}) /\ f \in Commands /\ Refresh \in Commands /\ New(Refresh)
  BY OutdatedCommands, CommandList DEF Typed, TypeOK
<1>2. toGdb' = o \o <<f, Refresh>>
  BY DEF TargetReset
<1> HIDE DEF o, f
<1> DEFINE t == <<f, Refresh>>
<1>3. /\ t \in Seq(Commands) /\ \A i \in DOMAIN t : t[i] \in {f, Refresh}
      /\ \E i \in DOMAIN t : t[i] = Refresh
  BY <1>1
<1>4. Extends(toGdb, toGdb', {f, Refresh}) /\ Adds(toGdb, toGdb', Refresh)
  <2>1. toGdb' = o \o t
    BY <1>2
  <2> HIDE DEF t
  <2>2. /\ Extends(toGdb, o \o t, {f, Refresh})
        /\ \A i \in DOMAIN t : Adds(toGdb, o \o t, t[i])
    BY <1>1, <1>3, CatExtends
  <2> QED BY <1>3, <2>1, <2>2
<1>5. /\ Len(o) + 2 \in DOMAIN toGdb' /\ toGdb'[Len(o) + 2] = Refresh
      /\ \A i \in DOMAIN toGdb' : i = Len(o) + 2 \/ Len(o) + 2 > i
  BY <1>1, <1>2
<1>6. ~ (Refresh.op = "flush")
  BY DEF Refresh
<1>7. \A i \in DOMAIN toGdb' : toGdb'[i].op = "flush" => \E j \in DOMAIN toGdb' : j > i /\ New(toGdb'[j])
  BY <1>1, <1>5, <1>6
<1> QED BY <1>4, <1>7 DEF f

LEMMA QuietReset ==
    ASSUME Typed, TargetReset
    PROVE  Quietly
<1> USE DEF Typed
<1> DEFINE C == {c \in Commands : c.op # "connect"}
<1>1. UNCHANGED <<ui, gdb, table, mach>>
  BY DEF TargetReset
<1>2. CASE ui.connected /\ ui.state = "stopped"
  <2>1. Kin(toUi, toUi')
    BY <1>2, OutdatedRecords, EmptyKin DEF TargetReset, TypeOK
  <2>2. {[op |-> "flush"], Refresh} \subseteq C
    BY CommandList DEF Refresh
  <2>3. Extends(toGdb, toGdb', C)
    <3> HIDE DEF C
    <3>1. CASE gdb.process = "alive"
      BY <1>2, <2>2, <3>1, ResetFacts, ExtendsMore
    <3>2. CASE gdb.process # "alive"
      BY <1>2, <3>2, ExtendsSame DEF TargetReset
    <3> QED BY <3>1, <3>2
  <2>4. gdb.process # "alive" => toGdb' = toGdb
    BY <1>2 DEF TargetReset
  <2> QED BY <1>1, <2>1, <2>3, <2>4 DEF Quietly
<1>3. CASE ~ (ui.connected /\ ui.state = "stopped")
  <2>1. UNCHANGED <<toUi, toGdb>>
    BY <1>3 DEF TargetReset
  <2> QED BY <1>1, <2>1, ExtendsSame DEF Quietly, Kin
<1> QED BY <1>2, <1>3


-----------------------------------------------------------------------------
(* Reading a pipe *)

\* q is p without its head; frames may have been relabelled.
Shifted(p, q) ==
    /\ 1 \in DOMAIN p
    /\ \A i \in DOMAIN q : /\ i \in Nat \ {0} /\ i + 1 \in DOMAIN p /\ q[i].op = p[i + 1].op
                           /\ p[i + 1].op # "frames" => q[i] = p[i + 1]
    /\ \A i \in DOMAIN p : i # 1 => /\ i \in Nat /\ i - 1 \in DOMAIN q /\ q[i - 1].op = p[i].op
                                    /\ p[i].op # "frames" => q[i - 1] = p[i]

LEMMA ShiftedTail ==
    ASSUME NEW T, NEW p \in Seq(T), p # <<>>, NEW q, Extends(Tail(p), q, {})
    PROVE  Shifted(p, q) /\ Head(p) = p[1]
<1>1. /\ 1 \in DOMAIN p /\ Head(p) = p[1]
      /\ \A i \in DOMAIN Tail(p) : i \in Nat \ {0} /\ i + 1 \in DOMAIN p /\ Tail(p)[i] = p[i + 1]
      /\ \A i \in DOMAIN p : i # 1 => i \in Nat /\ i - 1 \in DOMAIN Tail(p) /\ Tail(p)[i - 1] = p[i]
  OBVIOUS
<1>2. DOMAIN q = DOMAIN Tail(p) /\ \A i \in DOMAIN q : q[i].op = Tail(p)[i].op /\ (Tail(p)[i].op # "frames" => q[i] = Tail(p)[i])
  BY DEF Extends
<1> QED BY <1>1, <1>2 DEF Shifted

LEMMA ShiftedHas ==
    ASSUME NEW p, NEW q, Shifted(p, q), NEW a
    PROVE  /\ Has(q, a) => Has(p, a)
           /\ Has(p, a) /\ p[1].op # a => Has(q, a)
BY DEF Shifted, Has

LEMMA ShiftedEnds ==
    ASSUME NEW p, NEW q, Shifted(p, q), NEW a, NEW b, Ends(p, a, b)
    PROVE  IF p[1].op = a THEN Ends(q, a, b) \/ ~ Has(q, b) ELSE Ends(q, a, b)
<1>1. PICK i \in DOMAIN p : p[i].op = a /\ \A j \in DOMAIN p : j > i => p[j].op # b
  BY DEF Ends
<1>2. CASE i = 1
  <2>1. \A j \in DOMAIN q : j + 1 \in DOMAIN p /\ j + 1 > 1 /\ q[j].op = p[j + 1].op
    <3>1. \A j \in Nat \ {0} : j + 1 > 1
      OBVIOUS
    <3> QED BY <3>1 DEF Shifted
  <2> QED BY <1>1, <1>2, <2>1 DEF Has
<1>3. CASE i # 1
  <2>1. i \in Nat /\ i - 1 \in DOMAIN q /\ q[i - 1].op = a
    BY <1>1, <1>3 DEF Shifted
  <2>2. ASSUME NEW j \in DOMAIN q, j > i - 1
        PROVE  q[j].op # b
    <3>1. j \in Nat /\ j + 1 \in DOMAIN p /\ q[j].op = p[j + 1].op
      BY DEF Shifted
    <3>2. j + 1 > i
      BY <2>1, <2>2, <3>1
    <3> QED BY <1>1, <3>1, <3>2
  <2>3. Ends(q, a, b)
    BY <2>1, <2>2 DEF Ends
  <2> QED BY <2>3
<1> QED BY <1>2, <1>3

LEMMA ExtendedHas ==
    ASSUME NEW p, NEW q, NEW S, Extends(p, q, S), NEW a
    PROVE  /\ Has(p, a) => Has(q, a)
           /\ Has(q, a) => Has(p, a) \/ \E e \in S : e.op = a
BY DEF Extends, Has

LEMMA ExtendedEnds ==
    ASSUME NEW p, NEW q, NEW S, Extends(p, q, S), NEW a, NEW b, Ends(p, a, b),
           \A e \in S : e.op # b
    PROVE  Ends(q, a, b)
<1>1. PICK i \in DOMAIN p : p[i].op = a /\ \A j \in DOMAIN p : j > i => p[j].op # b
  BY DEF Ends
<1>2. i \in DOMAIN q /\ q[i].op = a
  BY <1>1 DEF Extends
<1>3. ASSUME NEW j \in DOMAIN q, j > i
      PROVE  q[j].op # b
  <2>1. CASE j \in DOMAIN p
    BY <1>1, <1>3, <2>1 DEF Extends
  <2>2. CASE j \notin DOMAIN p
    BY <2>2 DEF Extends
  <2> QED BY <2>1, <2>2
<1> QED BY <1>2, <1>3 DEF Ends

LEMMA AddedEnds ==
    ASSUME NEW T, NEW m \in Seq(T), NEW e \in T, NEW b
    PROVE  Ends(Append(m, e), e.op, b)
<1> DEFINE q == Append(m, e)
           l == Len(m) + 1
<1>1. l \in DOMAIN q /\ q[l] = e /\ \A j \in DOMAIN q : ~ (j > l)
  OBVIOUS
<1> HIDE DEF q, l
<1> QED BY <1>1 DEF Ends, q


-----------------------------------------------------------------------------
(* The session's state and its connection *)

SessionInv == ProcessInv /\ ConnectInv

\* The beginning of a session, or none.
Restarted ==
    /\ toUi' = <<>> /\ afterStop' = <<>> /\ ~ ui'.connected /\ ~ ui'.sent
    /\ gdb'.target = "none" /\ DOMAIN table' = {}
    /\ \A k \in DOMAIN bps' : bps'[k].number = None
    /\ \/ ui'.state = "off" /\ gdb'.process = "none" /\ toGdb' = <<>>
       \/ /\ ui'.state = "starting" /\ gdb'.process = "alive"
          /\ toGdb' = <<[op |-> "connect"]>>

LEMMA StopRestarts ==
    ASSUME Typed, StopForGood \/ \E next \in {"off", "starting"} : Load(next)
    PROVE  Restarted
<1>1. Stop
  BY DEF StopForGood, Load
<1>2. ui'.connected = FALSE /\ ui'.sent = FALSE /\ gdb'.target = "none"
  BY DEF StopForGood, Load, Off, NoGdb
<1>3. \/ ui'.state = "off" /\ gdb'.process = "none" /\ toGdb' = <<>>
      \/ /\ ui'.state = "starting" /\ gdb'.process = "alive"
         /\ toGdb' = <<[op |-> "connect"]>>
  BY DEF StopForGood, Load, Off, NoGdb
<1>4. \A k \in DOMAIN bps' : bps'[k].number = None
  BY <1>1, StopTyped
<1> QED BY <1>1, <1>2, <1>3, <1>4, StopTyped DEF Restarted

LEMMA RestartedSession ==
    ASSUME Restarted
    PROVE  SessionInv'
<1> USE DEF Restarted
<1>1. DOMAIN toUi' = {} /\ ~ Has(toUi', "connected")
  BY DEF Has
<1>2. ProcessInv' /\ FlagInv'
  BY DEF ProcessInv, FlagInv
<1>3. CommandInv'
  BY DEF CommandInv
<1>4. RecordInv'
  BY <1>1 DEF RecordInv
<1> QED BY <1>2, <1>3, <1>4 DEF SessionInv, ConnectInv

\* Records that gdb adds.
LEMMA RecordsAdded ==
    ASSUME Typed, Typed', RecordInv, NEW S, Extends(toUi, toUi', S), ui'.connected = ui.connected,
           gdb'.process = gdb.process, gdb'.target = "none" <=> gdb.target = "none",
           \A r \in S : r.op # "connected" /\ (r.op = "running" => gdb.target # "none")
    PROVE  RecordInv'
<1>1. ASSUME NEW i \in DOMAIN toUi', toUi'[i].op = "connected"
      PROVE  /\ ~ ui'.connected
             /\ gdb'.process = "alive" => gdb'.target # "none"
             /\ \A j \in DOMAIN toUi' : j < i => toUi'[j].op = "stopped"
  <2>1. i \in DOMAIN toUi /\ toUi[i].op = "connected"
    BY <1>1 DEF Extends
  <2>2. ASSUME NEW j \in DOMAIN toUi', j < i
        PROVE  toUi'[j].op = "stopped"
    <3>1. j \in DOMAIN toUi
      <4>1. i \in Nat /\ j \in Nat /\ ~ (j > i)
        BY <2>2 DEF Typed, TypeOK
      <4> QED BY <2>1, <4>1 DEF Extends
    <3> QED BY <2>1, <2>2, <3>1 DEF Extends, RecordInv
  <2> QED BY <2>1, <2>2 DEF RecordInv
<1>2. ASSUME NEW i \in DOMAIN toUi', toUi'[i].op = "running"
      PROVE  ui'.connected \/ \E j \in DOMAIN toUi' : j < i /\ toUi'[j].op = "connected"
  <2>1. CASE i \in DOMAIN toUi
    BY <1>2, <2>1 DEF Extends, RecordInv
  <2>2. CASE i \notin DOMAIN toUi
    <3>1. gdb.target # "none" /\ \A j \in DOMAIN toUi : i > j
      BY <1>2, <2>2 DEF Extends
    <3>2. ui.connected \/ \E j \in DOMAIN toUi : toUi[j].op = "connected"
      BY <3>1 DEF RecordInv, Has
    <3>3. \A j \in DOMAIN toUi : j < i /\ j \in DOMAIN toUi' /\ toUi'[j].op = toUi[j].op
      BY <3>1 DEF Extends
    <3> QED BY <3>2, <3>3
  <2> QED BY <2>1, <2>2
<1>3. gdb'.target # "none" => ui'.connected \/ Has(toUi', "connected")
  BY ExtendedHas DEF RecordInv
<1> QED BY <1>1, <1>2, <1>3 DEF RecordInv

LEMMA QuietSession ==
    ASSUME Typed, Typed', SessionInv, Quietly
    PROVE  SessionInv'
<1> USE DEF SessionInv, ConnectInv
<1>1. ProcessInv' /\ FlagInv'
  BY DEF Quietly, ProcessInv, FlagInv, Kin
<1>2. CommandInv'
  <2> SUFFICES ASSUME NEW i \in DOMAIN toGdb', toGdb'[i].op = "connect"
               PROVE  i = 1 /\ toUi' = <<>> /\ gdb'.target = "none" /\ ui'.state = "starting"
    BY DEF CommandInv
  <2>1. i \in DOMAIN toGdb /\ toGdb[i].op = "connect"
    BY DEF Quietly, Extends
  <2> QED BY <2>1 DEF CommandInv, Quietly, Kin
<1>3. RecordInv'
  BY RecordsAdded DEF Quietly, Kin
<1> QED BY <1>1, <1>2, <1>3

LEMMA NoConnectLeft ==
    ASSUME Typed, CommandInv, toGdb # <<>>
    PROVE  \A i \in DOMAIN Tail(toGdb) : Tail(toGdb)[i].op # "connect"
<1>1. Shifted(toGdb, Tail(toGdb))
  BY ExtendsSame, ShiftedTail DEF Typed, TypeOK
<1> QED BY <1>1 DEF Shifted, CommandInv

\* What gdb does once it has connected.
LEMMA GdbStepFacts ==
    ASSUME Typed, GdbCommand \/ StopGdb
    PROVE  /\ ui'.state = ui.state /\ ui'.connected = ui.connected /\ ui'.sent = ui.sent
           /\ gdb.process = "alive" /\ gdb'.process = "alive"
           /\ gdb'.target = "none" <=> gdb.target = "none"
           /\ Extends(toUi, toUi', {r \in Records : r.op # "connected" /\ (r.op = "running" => gdb.target = "halted")})
           /\ IF StopGdb THEN toGdb' = toGdb /\ gdb.target = "running"
              ELSE toGdb # <<>> /\ toGdb' = Tail(toGdb)
           /\ table' # table => gdb.target = "halted"
<1> USE DEF Typed, TypeOK
<1> DEFINE S == {r \in Records : r.op # "connected" /\ (r.op = "running" => gdb.target = "halted")}
<1>0. ASSUME NEW m \in Seq(Records), Extends(toUi, m, {}), NEW r \in S
      PROVE  Extends(toUi, Append(m, r), S)
  <2>1. Extends(toUi, Append(m, r), {r})
    BY <1>0, AppendExtends
  <2> HIDE DEF S
  <2> QED BY <2>1, ExtendsMore
<1>1. CASE ContinueGdb
  <2>1. /\ gdb.process = "alive" /\ toGdb # <<>> /\ toGdb' = Tail(toGdb) /\ UNCHANGED table
        /\ Head(toGdb).op = "continue"
    BY <1>1 DEF ContinueGdb, Executes
  <2>2. CASE gdb.target = "halted"
    <3>1. /\ gdb' = [gdb EXCEPT !.target = "running"] /\ ui' = AgedView
          /\ toUi' = Append(AgedPipe, [op |-> "running"])
      BY <1>1, <2>2 DEF ContinueGdb
    <3>2. [op |-> "running"] \in S
      BY <2>2, RecordList
    <3>3. Extends(toUi, toUi', S)
      BY <1>0, <3>1, <3>2, AgedRecords
    <3>4. gdb'.process = gdb.process /\ gdb'.target = "running"
      BY <3>1 DEF Gdb
    <3>5. ui'.state = ui.state /\ ui'.connected = ui.connected /\ ui'.sent = ui.sent
      BY <3>1 DEF AgedView, Session
    <3>6. ~ StopGdb
      BY <2>2 DEF StopGdb
    <3> QED BY <2>1, <2>2, <3>3, <3>4, <3>5, <3>6
  <2>3. CASE gdb.target # "halted"
    <3>1. UNCHANGED <<gdb, toUi, ui>>
      BY <1>1, <2>3 DEF ContinueGdb
    <3>2. ~ StopGdb
      BY <3>1 DEF StopGdb, Gdb
    <3> QED BY <2>1, <3>1, <3>2, ExtendsSame
  <2> QED BY <2>2, <2>3
<1>2. CASE InterruptGdb \/ DeleteGdb
  <2>1. /\ gdb.process = "alive" /\ toGdb # <<>> /\ toGdb' = Tail(toGdb)
        /\ UNCHANGED <<ui, toUi, gdb>>
    BY <1>2 DEF InterruptGdb, DeleteGdb, Executes
  <2>2. table' # table => gdb.target = "halted"
    BY <1>2 DEF InterruptGdb, DeleteGdb
  <2>3. ~ StopGdb
    BY <2>1 DEF StopGdb, Gdb
  <2> QED BY <2>1, <2>2, <2>3, ExtendsSame
<1>3. CASE InsertGdb
  <2>1. /\ gdb.process = "alive" /\ toGdb # <<>> /\ toGdb' = Tail(toGdb) /\ UNCHANGED ui
        /\ gdb'.process = gdb.process /\ gdb'.target = gdb.target
        /\ table' # table => gdb.target = "halted"
    BY <1>3 DEF InsertGdb, Executes, Gdb
  <2>2. PICK n \in Numbers \cup {None} : toUi' = Append(toUi, [op |-> "inserted", key |-> Head(toGdb).key, number |-> n])
    BY <1>3 DEF InsertGdb, Gdb
  <2>3. Head(toGdb).key \in Keys
    <3>1. Head(toGdb) \in Commands /\ Head(toGdb).op = "insert"
      BY <1>3 DEF InsertGdb, Executes
    <3> QED BY <3>1, CommandFacts
  <2>4. [op |-> "inserted", key |-> Head(toGdb).key, number |-> n] \in S
    BY <2>3, RecordList
  <2>5. Extends(toUi, toUi', S)
    BY <1>0, <2>2, <2>4, ExtendsSame
  <2>6. ~ StopGdb
    BY <2>1 DEF StopGdb, Gdb
  <2> QED BY <2>1, <2>5, <2>6
<1>4. CASE FlushGdb
  <2>1. /\ gdb.process = "alive" /\ toGdb # <<>> /\ toGdb' = Tail(toGdb)
        /\ UNCHANGED <<ui, toUi, table>>
        /\ gdb'.process = gdb.process /\ gdb'.target = gdb.target
    BY <1>4 DEF FlushGdb, Executes, Gdb
  <2>2. ~ StopGdb
    BY <2>1 DEF StopGdb, Gdb
  <2> QED BY <2>1, <2>2, ExtendsSame
<1>5. CASE FramesGdb
  <2>1. /\ gdb.process = "alive" /\ toGdb # <<>> /\ toGdb' = Tail(toGdb)
        /\ UNCHANGED <<ui, gdb, table>> /\ Head(toGdb) \in Commands /\ Head(toGdb).op = "frames"
    BY <1>5 DEF FramesGdb, Executes
  <2>2. Head(toGdb).gen \in {"new", "old"}
    BY <2>1, CommandFacts
  <2>3. PICK d \in Shown : toUi' = Append(toUi, [op |-> "frames", gen |-> Head(toGdb).gen, data |-> d])
    BY <1>5 DEF FramesGdb, Shown
  <2>4. [op |-> "frames", gen |-> Head(toGdb).gen, data |-> d] \in S
    BY <2>2, RecordList
  <2>5. Extends(toUi, toUi', S)
    BY <1>0, <2>3, <2>4, ExtendsSame
  <2>6. ~ StopGdb
    BY <2>1 DEF StopGdb, Gdb
  <2> QED BY <2>1, <2>5, <2>6
<1>6. CASE StopGdb
  <2>1. [op |-> "stopped"] \in S
    BY RecordList
  <2>2. Extends(toUi, toUi', S)
    BY <1>0, <1>6, <2>1, ExtendsSame DEF StopGdb
  <2> QED BY <1>6, <2>2 DEF StopGdb, Gdb
<1> QED BY <1>1, <1>2, <1>3, <1>4, <1>5, <1>6 DEF GdbCommand


LEMMA GdbSession ==
    ASSUME Typed, Typed', SessionInv, GdbCommand \/ StopGdb
    PROVE  SessionInv'
<1> USE DEF SessionInv, ConnectInv
<1>1. FlagInv'
  BY GdbStepFacts DEF FlagInv
<1>2. ProcessInv'
  <2>1. gdb'.target = "none" => table' = table
    BY GdbStepFacts
  <2> QED BY <2>1, GdbStepFacts DEF ProcessInv
<1>3. CommandInv'
  <2>1. CASE StopGdb
    <3>1. \A i \in DOMAIN toGdb : toGdb[i].op # "connect"
      BY <2>1, GdbStepFacts DEF CommandInv
    <3> QED BY <2>1, <3>1, GdbStepFacts DEF CommandInv
  <2>2. CASE ~ StopGdb
    <3>1. toGdb # <<>> /\ toGdb' = Tail(toGdb)
      BY <2>2, GdbStepFacts
    <3> QED BY <3>1, NoConnectLeft DEF CommandInv
  <2> QED BY <2>1, <2>2
<1>4. RecordInv'
  BY GdbStepFacts, RecordsAdded
<1> QED BY <1>1, <1>2, <1>3, <1>4

LEMMA ConnectSession ==
    ASSUME Typed, SessionInv, ConnectGdb
    PROVE  SessionInv'
<1> USE DEF SessionInv, ConnectInv
<1> DEFINE s == [op |-> "stopped"]
           c == [op |-> "connected"]
           f == [op |-> "refused"]
<1>1. /\ gdb.process = "alive" /\ toGdb # <<>> /\ toGdb' = Tail(toGdb) /\ UNCHANGED <<ui, table>>
      /\ Head(toGdb).op = "connect"
  BY DEF ConnectGdb, Executes
<1>2. toUi = <<>> /\ gdb.target = "none" /\ ui.state = "starting"
  <2>1. 1 \in DOMAIN toGdb /\ Head(toGdb) = toGdb[1]
    BY <1>1 DEF Typed, TypeOK
  <2> QED BY <1>1, <2>1 DEF CommandInv
<1>3. ~ ui.connected /\ ~ ui.sent /\ DOMAIN table = {}
  BY <1>2 DEF FlagInv, ProcessInv
<1>4. /\ gdb'.process = "alive"
      /\ \/ gdb'.target # "none" /\ toUi' = <<s, c>>
         \/ gdb'.target = "none" /\ toUi' = <<f>>
  <2>1. CASE gdb' = [gdb EXCEPT !.target = "halted"] /\ toUi' = toUi \o <<s, c>>
    BY <1>1, <1>2, <2>1 DEF Typed, TypeOK, Gdb
  <2>2. CASE toUi' = Append(toUi, f) /\ UNCHANGED gdb
    BY <1>1, <1>2, <2>2
  <2> QED BY <2>1, <2>2 DEF ConnectGdb
<1>5. ProcessInv' /\ FlagInv'
  BY <1>1, <1>2, <1>3, <1>4 DEF ProcessInv, FlagInv
<1>6. CommandInv'
  BY <1>1, NoConnectLeft DEF CommandInv
<1>7. RecordInv'
  <2>1. CASE gdb'.target # "none" /\ toUi' = <<s, c>>
    <3>1. DOMAIN toUi' = {1, 2} /\ toUi'[1] = s /\ toUi'[2] = c
      BY <2>1
    <3>2. Has(toUi', "connected")
      BY <3>1 DEF Has
    <3>3. \A i \in DOMAIN toUi' : toUi'[i].op = "connected" => i = 2
      BY <3>1
    <3>4. \A j \in DOMAIN toUi' : j < 2 => toUi'[j].op = "stopped"
      BY <3>1
    <3>5. \A i \in DOMAIN toUi' : toUi'[i].op # "running"
      BY <3>1
    <3> QED BY <1>1, <1>3, <2>1, <3>2, <3>3, <3>4, <3>5 DEF RecordInv
  <2>2. CASE gdb'.target = "none" /\ toUi' = <<f>>
    <3>1. DOMAIN toUi' = {1} /\ toUi'[1] = f
      BY <2>2
    <3> QED BY <2>2, <3>1 DEF RecordInv
  <2> QED BY <1>4, <2>1, <2>2
<1> QED BY <1>5, <1>6, <1>7

\* A record is read: what the UI makes of its own state, and of the pipes.
LEMMA ReadFacts ==
    ASSUME Typed, SessionInv, ReadRunning \/ ReadStopped \/ ReadConnected \/ ReadInserted \/ ReadFrames
    PROVE  /\ toUi # <<>> /\ Shifted(toUi, toUi') /\ gdb.process # "none"
           /\ toUi[1].op = IF ReadRunning THEN "running" ELSE IF ReadStopped THEN "stopped"
                           ELSE IF ReadConnected THEN "connected"
                           ELSE IF ReadInserted THEN "inserted" ELSE "frames"
           /\ UNCHANGED <<gdb, table, mach, posts>>
           /\ ui'.state = IF ReadRunning THEN "running"
                          ELSE IF ReadStopped \/ ReadConnected THEN "stopped" ELSE ui.state
           /\ ui'.connected <=> ui.connected \/ ReadConnected
           /\ ui'.sent <=> ui.sent /\ ~ ReadStopped
           /\ \A i \in DOMAIN toGdb : toGdb[i].op # "connect"
           /\ \A i \in DOMAIN toGdb' : toGdb'[i].op # "connect"
           /\ gdb.process # "alive" => toGdb' = <<>>
           /\ Extends(toGdb, toGdb', {c \in Commands : c.op # "connect"})
<1> USE DEF Typed, TypeOK
<1>1. toUi # <<>> /\ Tail(toUi) \in Seq(Records) /\ Head(toUi) = toUi[1]
  BY DEF ReadRunning, ReadStopped, ReadConnected, ReadInserted, ReadFrames, Read
<1>2. Extends(Tail(toUi), toUi', {})
  <2>1. CASE toUi' = Outdated(Tail(toUi))
    BY <1>1, <2>1, OutdatedRecords
  <2>2. CASE toUi' = Tail(toUi)
    BY <2>2, ExtendsSame
  <2> QED BY <2>1, <2>2 DEF ReadRunning, ReadStopped, ReadConnected, ReadInserted, ReadFrames
<1>3. Shifted(toUi, toUi')
  BY <1>1, <1>2, ShiftedTail
<1>4. /\ ReadRunning => toUi[1].op = "running"
      /\ ReadStopped => toUi[1].op = "stopped"
      /\ ReadConnected => toUi[1].op = "connected"
      /\ ReadInserted => toUi[1].op = "inserted"
      /\ ReadFrames => toUi[1].op = "frames"
  BY <1>1 DEF ReadRunning, ReadStopped, ReadConnected, ReadInserted, ReadFrames, Read
<1>5. UNCHANGED <<gdb, table, mach, posts>>
  BY DEF ReadRunning, ReadStopped, ReadConnected, ReadInserted, ReadFrames
<1>6. /\ ui'.state = IF ReadRunning THEN "running"
                     ELSE IF ReadStopped \/ ReadConnected THEN "stopped" ELSE ui.state
      /\ ui'.connected <=> ui.connected \/ ReadConnected
      /\ ui'.sent <=> ui.sent /\ ~ ReadStopped
  BY <1>4 DEF ReadRunning, ReadStopped, ReadConnected, ReadInserted, ReadFrames, Session
<1>7. \A i \in DOMAIN toGdb : toGdb[i].op # "connect"
  BY <1>1 DEF SessionInv, ConnectInv, CommandInv
<1>8. /\ \A i \in DOMAIN toGdb' : toGdb'[i].op # "connect"
      /\ Extends(toGdb, toGdb', {c \in Commands : c.op # "connect"})
  <2> DEFINE C == {c \in Commands : c.op # "connect"}
  <2>1. Extends(toGdb, toGdb', C)
    <3>1. Extends(toGdb, Outdated(toGdb), {})
      BY OutdatedCommands
    <3>2. CASE ReadRunning
      BY <3>1, <3>2, ExtendsMore DEF ReadRunning
    <3>3. CASE ReadStopped
      <4>1. CASE gdb.process = "alive"
        <5> DEFINE S == {c \in Commands : c.op \in {"insert", "delete"} /\ Kept(afterStop, Len(afterStop), c)}
                        \cup {[op |-> "continue"], Refresh}
        <5>1. Extends(toGdb, toGdb', S)
          BY <3>3, <4>1, StoppedFacts
        <5>2. S \subseteq C
          BY CommandList DEF Refresh
        <5> HIDE DEF S, C
        <5> QED BY <5>1, <5>2, ExtendsMore
      <4>2. CASE gdb.process # "alive"
        <5>1. toGdb' = Outdated(toGdb) \o <<>>
          BY <3>3, <4>2 DEF ReadStopped
        <5>2. toGdb' = Outdated(toGdb)
          BY <5>1, OutdatedCommands
        <5> HIDE DEF C
        <5> QED BY <3>1, <5>2, ExtendsMore
      <4> QED BY <4>1, <4>2
    <3>4. CASE ReadConnected
      <4>1. CASE gdb.process = "alive"
        <5>1. Extends(toGdb, toGdb', Inserts0 \cup {Refresh})
          BY <3>4, <4>1, ConnectedFacts
        <5>2. Inserts0 \cup {Refresh} \subseteq C
          BY CommandList DEF Refresh, Inserts0, Inserted
        <5> HIDE DEF C
        <5> QED BY <5>1, <5>2, ExtendsMore
      <4>2. CASE gdb.process # "alive"
        BY <3>4, <4>2, ExtendsSame DEF ReadConnected
      <4> QED BY <4>1, <4>2
    <3>5. CASE ReadInserted
      <4>1. Head(toUi).op = "inserted" /\ Head(toUi) \in Records
        BY <1>1, <3>5 DEF ReadInserted, Read
      <4> DEFINE d == [op |-> "delete", number |-> Head(toUi).number]
      <4>2. UNCHANGED toGdb \/ (d \in Commands /\ toGdb' = Sent(<<d>>))
        BY <3>5, <4>1, RecordFacts, CommandList DEF ReadInserted
      <4>3. d \in Commands => {d} \subseteq C
        OBVIOUS
      <4> HIDE DEF C, d
      <4> QED BY <4>2, <4>3, SentOne, ExtendsMore, ExtendsSame
    <3>6. CASE ReadFrames
      BY <3>6, ExtendsSame DEF ReadFrames
    <3> QED BY <3>2, <3>3, <3>4, <3>5, <3>6
  <2> QED BY <1>7, <2>1 DEF Extends
<1>9. gdb.process # "alive" => toGdb' = <<>>
  <2> SUFFICES ASSUME gdb.process # "alive" PROVE toGdb' = <<>>
    OBVIOUS
  <2>1. toGdb = <<>>
    BY DEF SessionInv, ProcessInv
  <2>2. Outdated(<<>>) = <<>>
    BY DEF Outdated
  <2> QED BY <2>1, <2>2 DEF Sent, ReadRunning, ReadStopped, ReadConnected, ReadInserted, ReadFrames
<1>10. gdb.process # "none"
  BY <1>1 DEF SessionInv, ProcessInv
<1> QED BY <1>1, <1>3, <1>4, <1>5, <1>6, <1>7, <1>8, <1>9, <1>10

LEMMA ReadSession ==
    ASSUME Typed, Typed', SessionInv, ReadRunning \/ ReadStopped \/ ReadConnected \/ ReadInserted \/ ReadFrames
    PROVE  SessionInv'
<1> USE DEF SessionInv, ConnectInv
<1>1. /\ ui.connected => ui.state \in {"stopped", "running"}
      /\ ReadConnected => ~ ui.connected /\ (gdb.process = "alive" => gdb.target # "none")
      /\ ReadRunning => ui.connected
      /\ ui.state # "off"
  <2>1. 1 \in DOMAIN toUi /\ \A j \in DOMAIN toUi : j \in Nat \ {0} /\ ~ (j < 1)
    BY ReadFacts DEF Shifted, Typed, TypeOK
  <2>2. ReadConnected => toUi[1].op = "connected"
    BY ReadFacts DEF ReadConnected, ReadStopped, ReadRunning, Read
  <2>3. ReadRunning => toUi[1].op = "running"
    BY ReadFacts
  <2>4. ui.state # "off"
    BY ReadFacts DEF ProcessInv
  <2> QED BY <2>1, <2>2, <2>3, <2>4 DEF RecordInv, FlagInv
<1>2. FlagInv'
  BY <1>1, ReadFacts DEF FlagInv
<1>3. ProcessInv'
  BY <1>1, ReadFacts DEF ProcessInv
<1>4. CommandInv'
  BY ReadFacts DEF CommandInv
<1>5. ASSUME NEW i \in DOMAIN toUi', toUi'[i].op = "connected"
      PROVE  /\ ~ ui'.connected
             /\ gdb'.process = "alive" => gdb'.target # "none"
             /\ \A j \in DOMAIN toUi' : j < i => toUi'[j].op = "stopped"
  <2>1. i \in Nat \ {0} /\ i + 1 \in DOMAIN toUi /\ toUi[i + 1].op = "connected"
    BY <1>5, ReadFacts DEF Shifted
  <2>2. ~ ui.connected /\ (gdb.process = "alive" => gdb.target # "none")
    BY <2>1 DEF RecordInv
  <2>3. toUi[1].op = "stopped"
    <3>1. 1 \in DOMAIN toUi /\ 1 < i + 1
      BY <2>1, ReadFacts DEF Shifted
    <3> QED BY <2>1, <3>1 DEF RecordInv
  <2>4. ~ ReadConnected
    BY <2>3, ReadFacts DEF ReadConnected, Read, ReadStopped
  <2>5. ASSUME NEW j \in DOMAIN toUi', j < i
        PROVE  toUi'[j].op = "stopped"
    <3>1. j \in Nat \ {0} /\ j + 1 \in DOMAIN toUi /\ toUi'[j].op = toUi[j + 1].op
      BY ReadFacts DEF Shifted
    <3>2. j + 1 < i + 1
      BY <2>1, <2>5, <3>1
    <3> QED BY <2>1, <3>1, <3>2 DEF RecordInv
  <2> QED BY <2>2, <2>4, <2>5, ReadFacts
<1>6. ASSUME NEW i \in DOMAIN toUi', toUi'[i].op = "running", ~ ui'.connected
      PROVE  \E j \in DOMAIN toUi' : j < i /\ toUi'[j].op = "connected"
  <2>1. i \in Nat \ {0} /\ i + 1 \in DOMAIN toUi /\ toUi[i + 1].op = "running"
    BY <1>6, ReadFacts DEF Shifted
  <2>2. ~ ui.connected /\ ~ ReadConnected
    BY <1>6, ReadFacts
  <2>3. PICK j \in DOMAIN toUi : j < i + 1 /\ toUi[j].op = "connected"
    BY <2>1, <2>2 DEF RecordInv
  <2>4. toUi[1].op # "connected"
    BY <2>2, ReadFacts
  <2>5. j \in Nat /\ j - 1 \in DOMAIN toUi' /\ toUi'[j - 1].op = "connected"
    BY <2>3, <2>4, ReadFacts DEF Shifted
  <2>6. j - 1 < i
    BY <2>1, <2>3, <2>5
  <2> QED BY <2>5, <2>6
<1>7. gdb'.target # "none" => ui'.connected \/ Has(toUi', "connected")
  <2>1. Has(toUi, "connected") /\ ~ ReadConnected => Has(toUi', "connected")
    BY ReadFacts, ShiftedHas
  <2> QED BY <2>1, ReadFacts DEF RecordInv
<1> QED BY <1>2, <1>3, <1>4, <1>5, <1>6, <1>7 DEF RecordInv

LEMMA SessionInvInductive ==
    ASSUME Typed, SessionInv, [Next]_vars
    PROVE  SessionInv'
<1>0. Typed'
  BY TypedInductive
<1>1. CASE (\E k \in Keys : AddBreakpoint(k) \/ RemoveBreakpoint(k)) \/ Resume \/ Pause \/ Reset
  BY <1>0, <1>1, QuietUser, QuietSession DEF SessionInv, ConnectInv
<1>2. CASE TargetReset \/ WorkerStep \/ Hit
  BY <1>0, <1>2, QuietReset, QuietWorker, QuietSession
<1>3. CASE GdbCommand \/ StopGdb
  BY <1>0, <1>3, GdbSession
<1>4. CASE ConnectGdb
  BY <1>4, ConnectSession
<1>5. CASE ReadRunning \/ ReadStopped \/ ReadConnected \/ ReadInserted \/ ReadFrames
  BY <1>0, <1>5, ReadSession
<1>6. CASE ReadRefused \/ Timeout \/ \E next \in {"off", "starting"} : Load(next)
  <2>1. Restarted
    BY <1>6, StopRestarts DEF ReadRefused, Timeout
  <2> QED BY <2>1, RestartedSession
<1>7. CASE Finished
  <2>1. /\ ui'.state = "off" /\ ui'.connected = FALSE /\ gdb' = NoGdb /\ toUi = <<>>
        /\ UNCHANGED <<toUi, toGdb, table>> /\ gdb.process = "dead"
    BY <1>7 DEF Finished, Typed, TypeOK, Session
  <2>2. gdb'.process = "none" /\ gdb'.target = "none"
    BY <2>1 DEF NoGdb
  <2> QED BY <2>1, <2>2 DEF SessionInv, ConnectInv, ProcessInv, FlagInv, CommandInv, RecordInv
<1>8. CASE Crash
  <2>1. /\ gdb'.process = "dead" /\ gdb'.target = "none" /\ DOMAIN table' = {} /\ toGdb' = <<>>
        /\ UNCHANGED <<ui, toUi>> /\ gdb.process = "alive"
    BY <1>8, EmptyTypes DEF Crash, NoGdb
  <2>2. ProcessInv' /\ FlagInv' /\ CommandInv'
    BY <2>1 DEF SessionInv, ConnectInv, ProcessInv, FlagInv, CommandInv
  <2>3. RecordInv'
    BY <2>1 DEF SessionInv, ConnectInv, RecordInv
  <2> QED BY <2>2, <2>3 DEF SessionInv, ConnectInv
<1>9. CASE UNCHANGED vars
  BY <1>9 DEF vars, SessionInv, ConnectInv, ProcessInv, FlagInv, CommandInv, RecordInv, Has
<1> QED BY <1>1, <1>2, <1>3, <1>4, <1>5, <1>6, <1>7, <1>8, <1>9
        DEF Next, UserStep, UiStep, ReadRecord


-----------------------------------------------------------------------------
(* Running and stopped *)

LEMMA RunAdded ==
    ASSUME RunInv, NEW S, Extends(toUi, toUi', S), ui'.state = ui.state, gdb'.target = gdb.target,
           \A r \in S : r.op \notin {"running", "stopped"}
    PROVE  RunInv'
<1>1. \A a \in {"running", "stopped"} : Has(toUi', a) => Has(toUi, a)
  BY ExtendedHas
<1>2. \A a, b \in {"running", "stopped"} : Ends(toUi, a, b) => Ends(toUi', a, b)
  BY ExtendedEnds
<1> QED BY <1>1, <1>2 DEF RunInv

LEMMA RunRead ==
    ASSUME Typed, SessionInv, RunInv,
           ReadRunning \/ ReadStopped \/ ReadConnected \/ ReadInserted \/ ReadFrames
    PROVE  RunInv'
<1>1. /\ Shifted(toUi, toUi') /\ gdb' = gdb
      /\ toUi[1].op = "running" <=> ReadRunning
      /\ toUi[1].op = "stopped" <=> ReadStopped
      /\ ui'.state = IF ReadRunning THEN "running"
                     ELSE IF ReadStopped \/ ReadConnected THEN "stopped" ELSE ui.state
  BY ReadFacts DEF ReadRunning, ReadStopped, ReadConnected, Read
<1>2. \A a : /\ Has(toUi', a) => Has(toUi, a)
             /\ toUi[1].op = a => Has(toUi, a)
  BY <1>1, ShiftedHas DEF Has, Shifted
<1>3. \A a, b : Ends(toUi, a, b) => IF toUi[1].op = a THEN Ends(toUi', a, b) \/ ~ Has(toUi', b)
                                    ELSE Ends(toUi', a, b)
  BY <1>1, ShiftedEnds
<1>4. ReadConnected => ui.state # "running"
  <2> SUFFICES ASSUME ReadConnected PROVE ui.state # "running"
    OBVIOUS
  <2>1. toUi[1].op = "connected" /\ 1 \in DOMAIN toUi
    BY <1>1, ReadFacts DEF Shifted, ReadConnected, ReadRunning, ReadStopped, Read
  <2> QED BY <2>1 DEF SessionInv, ConnectInv, RecordInv, FlagInv
<1> QED BY <1>1, <1>2, <1>3, <1>4 DEF RunInv

LEMMA RunGdb ==
    ASSUME Typed, SessionInv, RunInv, ConnectGdb \/ GdbCommand \/ StopGdb
    PROVE  RunInv'
<1> USE DEF Typed, TypeOK
<1>1. CASE ConnectGdb
  <2>1. toUi = <<>> /\ gdb.target = "none"
    <3>1. 1 \in DOMAIN toGdb /\ toGdb[1].op = "connect"
      BY <1>1 DEF ConnectGdb, Executes
    <3> QED BY <3>1 DEF SessionInv, ConnectInv, CommandInv
  <2> DEFINE s == [op |-> "stopped"]
             c == [op |-> "connected"]
  <2>2. CASE gdb' = [gdb EXCEPT !.target = "halted"] /\ toUi' = toUi \o <<s, c>>
    <3>1. toUi' = <<s, c>> /\ gdb'.target = "halted"
      BY <2>1, <2>2 DEF Gdb
    <3>2. DOMAIN toUi' = {1, 2} /\ toUi'[1] = s /\ toUi'[2] = c
      BY <3>1
    <3>3. Ends(toUi', "stopped", "running")
      BY <3>2 DEF Ends
    <3> QED BY <3>1, <3>3 DEF RunInv
  <2>3. CASE gdb' = gdb
    BY <2>1, <2>3 DEF RunInv
  <2> QED BY <1>1, <2>2, <2>3 DEF ConnectGdb
<1>2. CASE ContinueGdb
  <2>1. CASE gdb.target = "halted"
    <3>1. gdb'.target = "running" /\ toUi' = Append(AgedPipe, [op |-> "running"])
      BY <1>2, <2>1 DEF ContinueGdb, Gdb
    <3>2. AgedPipe \in Seq(Records) /\ [op |-> "running"] \in Records
      BY AgedRecords, RecordList
    <3>3. Ends(toUi', [op |-> "running"].op, "stopped")
      BY ONLY <3>1, <3>2, AddedEnds
    <3> QED BY <3>1, <3>3 DEF RunInv
  <2>2. CASE gdb.target # "halted"
    BY <1>2, <2>2 DEF ContinueGdb, RunInv
  <2> QED BY <2>1, <2>2
<1>3. CASE InterruptGdb \/ InsertGdb \/ DeleteGdb \/ FlushGdb \/ FramesGdb
  <2>1. ui'.state = ui.state /\ gdb'.target = gdb.target
    BY <1>3 DEF InterruptGdb, InsertGdb, DeleteGdb, FlushGdb, FramesGdb, Gdb
  <2> DEFINE S == {r \in Records : r.op \notin {"running", "stopped"}}
  <2>2. ASSUME NEW r \in S, toUi' = Append(toUi, r)
        PROVE  Extends(toUi, toUi', S)
    <3>1. Extends(toUi, toUi', {r}) /\ {r} \subseteq S
      BY <2>2, AppendExtends, ExtendsSame
    <3> HIDE DEF S
    <3> QED BY <3>1, ExtendsMore
  <2>3. Extends(toUi, toUi', S)
    <3>1. CASE UNCHANGED toUi
      BY <3>1, ExtendsSame
    <3>2. CASE InsertGdb
      <4>1. PICK n \in Numbers \cup {None} :
               toUi' = Append(toUi, [op |-> "inserted", key |-> Head(toGdb).key, number |-> n])
        BY <3>2 DEF InsertGdb, Gdb
      <4>2. Head(toGdb) \in Commands /\ Head(toGdb).op = "insert"
        BY <3>2 DEF InsertGdb, Executes
      <4>3. [op |-> "inserted", key |-> Head(toGdb).key, number |-> n] \in Records
        BY <4>2, CommandFacts, RecordList
      <4>4. [op |-> "inserted", key |-> Head(toGdb).key, number |-> n] \in S
        BY <4>3
      <4> QED BY <2>2, <4>1, <4>4
    <3>3. CASE FramesGdb
      <4>1. PICK d \in Shown :
               toUi' = Append(toUi, [op |-> "frames", gen |-> Head(toGdb).gen, data |-> d])
        BY <3>3 DEF FramesGdb, Shown
      <4>2. Head(toGdb) \in Commands /\ Head(toGdb).op = "frames"
        BY <3>3 DEF FramesGdb, Executes
      <4>3. Head(toGdb).gen \in {"new", "old"}
        BY <4>2, CommandFacts
      <4>4. [op |-> "frames", gen |-> Head(toGdb).gen, data |-> d] \in S
        BY <4>3, RecordList
      <4> QED BY <2>2, <4>1, <4>4
    <3> QED BY <1>3, <3>1, <3>2, <3>3 DEF InterruptGdb, DeleteGdb, FlushGdb
  <2>4. \A r \in S : r.op \notin {"running", "stopped"}
    OBVIOUS
  <2> HIDE DEF S
  <2> QED BY <2>1, <2>3, <2>4, RunAdded
<1>4. CASE StopGdb
  <2>1. gdb'.target = "halted" /\ toUi' = Append(toUi, [op |-> "stopped"])
    BY <1>4 DEF StopGdb, Gdb
  <2>2. toUi \in Seq(Records) /\ [op |-> "stopped"] \in Records
    BY RecordList
  <2>3. Ends(toUi', [op |-> "stopped"].op, "running")
    BY ONLY <2>1, <2>2, AddedEnds
  <2> QED BY <2>1, <2>3 DEF RunInv
<1> QED BY <1>1, <1>2, <1>3, <1>4 DEF GdbCommand

LEMMA RunInvInductive ==
    ASSUME Typed, SessionInv, RunInv, [Next]_vars
    PROVE  RunInv'
<1>1. CASE \/ (\E k \in Keys : AddBreakpoint(k) \/ RemoveBreakpoint(k)) \/ Resume \/ Pause \/ Reset
           \/ TargetReset \/ WorkerStep \/ Hit
  <2>1. Quietly
    BY <1>1, QuietUser, QuietReset, QuietWorker DEF SessionInv, ConnectInv
  <2> QED BY <2>1, RunAdded DEF Quietly, Kin
<1>2. CASE ConnectGdb \/ GdbCommand \/ StopGdb
  BY <1>2, RunGdb
<1>3. CASE ReadRunning \/ ReadStopped \/ ReadConnected \/ ReadInserted \/ ReadFrames
  BY <1>3, RunRead
<1>4. CASE ReadRefused \/ Timeout \/ \E next \in {"off", "starting"} : Load(next)
  BY <1>4, StopRestarts DEF ReadRefused, Timeout, Restarted, RunInv
<1>5. CASE Finished \/ Crash
  <2>1. gdb'.target = "none"
    BY <1>5 DEF Finished, Crash, NoGdb
  <2> QED BY <2>1 DEF RunInv
<1>6. CASE UNCHANGED vars
  BY <1>6 DEF vars, RunInv, Has, Ends
<1> QED BY <1>1, <1>2, <1>3, <1>4, <1>5, <1>6 DEF Next, UserStep, UiStep, ReadRecord

-----------------------------------------------------------------------------
(* Interrupts *)

SentInv ==
    ui.sent /\ ui.connected /\ gdb.process = "alive" =>
        \/ Has(toGdb, "interrupt")
        \/ Has(toUi, "stopped")
        \/ gdb.target = "running" /\ mach.run = "stopped"

LEMMA SentGdb ==
    ASSUME Typed, SessionInv, RunInv, SentInv, GdbCommand \/ StopGdb,
           ui.sent, ui.connected
    PROVE  \/ Has(toGdb', "interrupt")
           \/ Has(toUi', "stopped")
           \/ gdb'.target = "running" /\ mach'.run = "stopped"
<1> USE DEF Typed, TypeOK
<1>1. /\ gdb.process = "alive" /\ Has(toUi, "stopped") => Has(toUi', "stopped")
  BY GdbStepFacts, ExtendedHas
<1>2. CASE InterruptGdb
  <2>1. gdb' = gdb /\ toUi' = toUi /\ (gdb.target = "running" => mach'.run = "stopped")
    BY <1>2 DEF InterruptGdb, Machine
  <2>2. gdb.target \in {"halted", "running"} /\ ui.state = "running"
    BY <1>1, GdbStepFacts DEF SessionInv, ConnectInv, FlagInv, Gdb
  <2>3. gdb.target = "halted" => Has(toUi, "stopped")
    BY <2>2 DEF RunInv, Ends, Has
  <2> QED BY <2>1, <2>2, <2>3
<1>3. CASE StopGdb
  <2>1. toUi' = Append(toUi, [op |-> "stopped"])
    BY <1>3 DEF StopGdb
  <2>2. Adds(toUi, toUi', [op |-> "stopped"])
    BY <2>1, RecordList, AppendExtends, ExtendsSame
  <2> QED BY <2>2 DEF Adds, Has
<1>4. CASE GdbCommand /\ ~ InterruptGdb
  <2>1. toGdb # <<>> /\ toGdb' = Tail(toGdb) /\ Head(toGdb).op # "interrupt"
    BY <1>4 DEF GdbCommand, ContinueGdb, InsertGdb, DeleteGdb, FlushGdb, FramesGdb, Executes
  <2>2. Shifted(toGdb, toGdb') /\ Head(toGdb) = toGdb[1]
    BY <2>1, ExtendsSame, ShiftedTail
  <2>3. Has(toGdb, "interrupt") => Has(toGdb', "interrupt")
    BY <2>1, <2>2, ShiftedHas
  <2>4. gdb.target = "running" => gdb'.target = "running" /\ mach'.run = mach.run
    BY <1>4 DEF GdbCommand, ContinueGdb, InsertGdb, DeleteGdb, FlushGdb, FramesGdb, Gdb, Machine
  <2> QED BY <1>1, <2>3, <2>4, GdbStepFacts DEF SentInv
<1> QED BY <1>2, <1>3, <1>4

LEMMA SentInvInductive ==
    ASSUME Typed, SessionInv, RunInv, SentInv, [Next]_vars
    PROVE  SentInv'
<1>1. CASE \/ (\E k \in Keys : AddBreakpoint(k) \/ RemoveBreakpoint(k)) \/ Resume \/ Pause \/ Reset
           \/ TargetReset \/ WorkerStep \/ Hit
  <2>1. Quietly
    BY <1>1, QuietUser, QuietReset, QuietWorker DEF SessionInv, ConnectInv
  <2>2. \A a : (Has(toGdb, a) => Has(toGdb', a)) /\ (Has(toUi, a) => Has(toUi', a))
    BY <2>1, ExtendedHas DEF Quietly, Kin
  <2>3. mach.run = "stopped" => mach'.run = "stopped"
    BY <2>1, TypedInductive DEF Quietly, Typed, TypeOK, Machine
  <2> QED BY <2>1, <2>2, <2>3 DEF Quietly, SentInv
<1>2. CASE ConnectGdb
  <2>1. UNCHANGED ui /\ 1 \in DOMAIN toGdb /\ toGdb[1].op = "connect"
    BY <1>2 DEF ConnectGdb, Executes, Typed, TypeOK
  <2> QED BY <2>1 DEF SentInv, SessionInv, ConnectInv, CommandInv, FlagInv
<1>3. CASE GdbCommand \/ StopGdb
  BY <1>3, SentGdb, GdbStepFacts DEF SentInv
<1>4. CASE ReadRunning \/ ReadStopped \/ ReadConnected \/ ReadInserted \/ ReadFrames
  <2>1. ~ ReadStopped /\ ui'.sent => toUi[1].op # "stopped" /\ ui.sent
    BY <1>4, ReadFacts DEF ReadRunning, ReadConnected, Read
  <2>2. ui'.sent /\ ui'.connected => ui.connected /\ ~ ReadStopped
    <3>1. ui'.sent => ui.sent /\ ~ ReadStopped /\ ui.state # "off"
      BY <1>4, ReadFacts DEF SessionInv, ProcessInv
    <3> QED BY <3>1 DEF SessionInv, ConnectInv, FlagInv
  <2>3. /\ Has(toGdb, "interrupt") => Has(toGdb', "interrupt")
        /\ Has(toUi, "stopped") /\ toUi[1].op # "stopped" => Has(toUi', "stopped")
    BY <1>4, ReadFacts, ExtendedHas, ShiftedHas
  <2>4. gdb' = gdb /\ mach' = mach
    BY <1>4, ReadFacts
  <2> QED BY <2>1, <2>2, <2>3, <2>4 DEF SentInv
<1>5. CASE ReadRefused \/ Timeout \/ \E next \in {"off", "starting"} : Load(next)
  BY <1>5, StopRestarts DEF ReadRefused, Timeout, Restarted, SentInv
<1>6. CASE Finished \/ Crash
  <2>1. gdb'.process # "alive"
    BY <1>6 DEF Finished, Crash, NoGdb
  <2> QED BY <2>1 DEF SentInv
<1>7. CASE UNCHANGED vars
  BY <1>7 DEF vars, SentInv, Has
<1> QED BY <1>1, <1>2, <1>3, <1>4, <1>5, <1>6, <1>7 DEF Next, UserStep, UiStep, ReadRecord

-----------------------------------------------------------------------------
(* Breakpoints and their numbers *)

Waiting(c) ==
    \/ \E i \in DOMAIN toGdb : toGdb[i] = c
    \/ \E i \in DOMAIN afterStop : afterStop[i] = c

\* What is deleted was to be deleted before, or nobody has it now.
DeletesKnown(p) ==
    \A i \in DOMAIN p : \A n : p[i].op = "delete" /\ p[i].number = n => Waiting(p[i]) \/ Free(n)'

\* Steps that give no number away.
LEMMA NumbersKept ==
    ASSUME Typed, Typed', NumberInv, gdb.process = "alive",
           gdb'.next = gdb.next, table' = table, NEW d \in Nat,
           \A k \in DOMAIN bps' : bps'[k].number # None =>
               k \in DOMAIN bps /\ bps'[k].number = bps[k].number,
           \A i \in DOMAIN toUi' : Answers(i)' => i + d \in DOMAIN toUi /\ toUi[i + d] = toUi'[i],
           DeletesKnown(toGdb'), DeletesKnown(afterStop')
    PROVE  NumberInv'
<1>1. ASSUME NEW i \in DOMAIN toUi', Answers(i)'
      PROVE  /\ i + d \in DOMAIN toUi /\ Answers(i + d) /\ toUi[i + d] = toUi'[i]
             /\ toUi'[i].number \in DOMAIN table /\ table[toUi'[i].number] = toUi'[i].key
             /\ \A k \in DOMAIN bps : bps[k].number # toUi'[i].number
  BY <1>1 DEF Answers, NumberInv
<1>2. ASSUME NEW i \in DOMAIN toUi', Answers(i)', NEW k \in DOMAIN bps'
      PROVE  bps'[k].number # toUi'[i].number
  BY <1>1, <1>2 DEF Answers
<1>3. ASSUME NEW i \in DOMAIN toUi', NEW j \in DOMAIN toUi', Answers(i)', Answers(j)',
             toUi'[j].number = toUi'[i].number
      PROVE  j = i
  <2>1. i \in Nat /\ j \in Nat
    BY DEF Typed, TypeOK
  <2>2. j + d = i + d
    BY <1>1, <1>3 DEF NumberInv
  <2> QED BY <2>1, <2>2
<1>4. ASSUME NEW n \in Numbers, Free(n)
      PROVE  Free(n)'
  <2>1. n # None
    BY DEF Numbers, None
  <2>2. ASSUME NEW k \in DOMAIN bps' PROVE bps'[k].number # n
    BY <1>4, <2>1 DEF Free
  <2>3. ASSUME NEW i \in DOMAIN toUi', toUi'[i].op = "inserted" PROVE toUi'[i].number # n
    <3>1. CASE Answers(i)'
      BY <1>1, <1>4, <2>3, <3>1 DEF Free
    <3>2. CASE ~ Answers(i)'
      BY <2>1, <2>3, <3>2 DEF Answers
    <3> QED BY <3>1, <3>2
  <2>4. n < gdb'.next
    BY <1>4 DEF Free
  <2> QED BY <2>2, <2>3, <2>4 DEF Free
<1>5. ASSUME NEW c \in Commands, c.op = "delete", Waiting(c)
      PROVE  Free(c.number)'
  <2>1. c.number \in Numbers
    BY <1>5, CommandFacts
  <2>2. Free(c.number)
    BY <1>5 DEF Waiting, NumberInv
  <2> QED BY <1>4, <2>1, <2>2
<1>6. \A i \in DOMAIN toGdb' : toGdb'[i] \in Commands
  BY DEF Typed, TypeOK
<1>7. \A i \in DOMAIN afterStop' : afterStop'[i] \in Commands
  BY ChangeFacts DEF Typed, TypeOK
<1>8. (\A i \in DOMAIN toGdb : toGdb[i].op = "delete" => Free(toGdb[i].number))'
  <2>1. ASSUME NEW i \in DOMAIN toGdb', toGdb'[i].op = "delete", NEW n, n = toGdb'[i].number
        PROVE  Free(n)'
    BY <1>5, <1>6, <2>1 DEF DeletesKnown
  <2> QED BY <2>1 DEF Free
<1>9. (\A i \in DOMAIN afterStop : afterStop[i].op = "delete" => Free(afterStop[i].number))'
  <2>1. ASSUME NEW i \in DOMAIN afterStop', afterStop'[i].op = "delete", NEW n, n = afterStop'[i].number
        PROVE  Free(n)'
    BY <1>5, <1>7, <2>1 DEF DeletesKnown
  <2> QED BY <2>1 DEF Free
<1>10. \A k \in DOMAIN bps' : bps'[k].number # None =>
          bps'[k].number \in DOMAIN table' /\ table'[bps'[k].number] = k
  BY DEF NumberInv
<1>11. \A n \in DOMAIN table' : n < gdb'.next
  BY DEF NumberInv
<1> QED BY <1>1, <1>2, <1>3, <1>8, <1>9, <1>10, <1>11 DEF NumberInv

\* Deletes and answers in a pipe that has been extended or read.
LEMMA ExtendedDeletes ==
    ASSUME NEW p \in {toGdb, afterStop}, NEW q, NEW S, Extends(p, q, S),
           \A c \in S : \A n : c.op = "delete" /\ c.number = n => Waiting(c) \/ Free(n)'
    PROVE  DeletesKnown(q)
<1>1. ASSUME NEW i \in DOMAIN q, NEW n, q[i].op = "delete", q[i].number = n
      PROVE  Waiting(q[i]) \/ Free(n)'
  <2>1. q[i] \in S \/ (i \in DOMAIN p /\ q[i] = p[i])
    BY <1>1 DEF Extends
  <2> QED BY <1>1, <2>1 DEF Waiting
<1> QED BY <1>1 DEF DeletesKnown

LEMMA TailDeletes ==
    ASSUME NEW p \in {toGdb, afterStop}, NEW T, p \in Seq(T), p # <<>>
    PROVE  DeletesKnown(Tail(p))
<1>1. ASSUME NEW i \in DOMAIN Tail(p)
      PROVE  Waiting(Tail(p)[i])
  <2>1. i + 1 \in DOMAIN p /\ Tail(p)[i] = p[i + 1]
    OBVIOUS
  <2> QED BY <2>1 DEF Waiting
<1> QED BY <1>1 DEF DeletesKnown

LEMMA NumberUser ==
    ASSUME Typed, Typed', SessionInv, NumberInv, gdb.process = "alive",
           (\E k \in Keys : AddBreakpoint(k) \/ RemoveBreakpoint(k)) \/ Resume \/ Pause \/ Reset
    PROVE  NumberInv'
<1> USE DEF Typed, TypeOK
<1>1. UNCHANGED <<toUi, gdb, table>>
  BY DEF AddBreakpoint, RemoveBreakpoint, Resume, Pause, Reset
<1>2. \A i \in DOMAIN toUi' : i + 0 \in DOMAIN toUi /\ toUi[i + 0] = toUi'[i]
  BY <1>1
<1>3. ASSUME NEW k \in Keys, AddBreakpoint(k)
      PROVE  NumberInv'
  <2>1. Edit({Inserted(k)})
    BY <1>3, AddFacts
  <2>2. DeletesKnown(toGdb') /\ DeletesKnown(afterStop')
    <3>1. \A c \in {Inserted(k)} \cup {[op |-> "interrupt"]} : c.op # "delete"
      BY DEF Inserted
    <3> QED BY <2>1, <3>1, ExtendedDeletes DEF Edit
  <2>3. \A j \in DOMAIN bps' : bps'[j].number # None => j \in DOMAIN bps /\ bps'[j].number = bps[j].number
    BY <1>3 DEF AddBreakpoint, With
  <2> QED BY <1>1, <1>2, <2>2, <2>3, NumbersKept
<1>4. ASSUME NEW k \in Keys, RemoveBreakpoint(k)
      PROVE  NumberInv'
  <2>1. Edit(IF ui.connected /\ bps[k].number # None THEN {Deleted(k)} ELSE {})
    BY <1>4, RemoveFacts
  <2>2. k \in DOMAIN bps /\ bps' = [j \in DOMAIN bps \ {k} |-> bps[j]]
    BY <1>4 DEF RemoveBreakpoint
  <2>3. ASSUME NEW n, n = bps[k].number, n # None
        PROVE  Free(n)'
    <3>1. n \in DOMAIN table /\ table[n] = k /\ n < gdb.next
      BY <2>2, <2>3 DEF NumberInv
    <3>2. ASSUME NEW j \in DOMAIN bps' PROVE bps'[j].number # n
      BY <2>2, <2>3, <3>1 DEF NumberInv
    <3>3. ASSUME NEW i \in DOMAIN toUi, toUi[i].op = "inserted" PROVE toUi[i].number # n
      BY <2>2, <2>3, <3>3 DEF NumberInv, Answers
    <3> QED BY <1>1, <3>1, <3>2, <3>3 DEF Free
  <2>4. DeletesKnown(toGdb') /\ DeletesKnown(afterStop')
    <3> DEFINE S == IF ui.connected /\ bps[k].number # None THEN {Deleted(k)} ELSE {}
    <3>1. \A c \in S : \A n : c.op = "delete" /\ c.number = n => Free(n)'
      BY <2>3 DEF Deleted
    <3>2. [op |-> "interrupt"].op # "delete"
      OBVIOUS
    <3> HIDE DEF S
    <3>3. \A c \in S \cup {[op |-> "interrupt"]} : \A n : c.op = "delete" /\ c.number = n => Free(n)'
      BY <3>1, <3>2
    <3>4. Extends(toGdb, toGdb', S \cup {[op |-> "interrupt"]}) /\ Extends(afterStop, afterStop', S)
      BY <2>1 DEF Edit, S
    <3> QED BY <3>1, <3>3, <3>4, ExtendedDeletes
  <2>5. \A j \in DOMAIN bps' : j \in DOMAIN bps /\ bps'[j].number = bps[j].number
    BY <2>2
  <2> QED BY <1>1, <1>2, <2>4, <2>5, NumbersKept
<1>5. CASE Resume \/ Pause \/ Reset
  <2>1. UNCHANGED <<bps, afterStop>>
    BY <1>5 DEF Resume, Pause, Reset
  <2>2. DeletesKnown(toGdb')
    <3>1. \A op \in {"continue", "interrupt"} : Extends(toGdb, Sent(<<[op |-> op]>>), {[op |-> op]})
      BY CommandList, SentOne
    <3>2. CASE \E op \in {"continue", "interrupt"} : toGdb' = Sent(<<[op |-> op]>>)
      <4>1. PICK op \in {"continue", "interrupt"} : Extends(toGdb, toGdb', {[op |-> op]})
        BY <3>1, <3>2
      <4> QED BY <4>1, ExtendedDeletes
    <3>3. CASE UNCHANGED toGdb
      BY <3>3 DEF DeletesKnown, Waiting
    <3> QED BY <1>5, <3>2, <3>3 DEF Resume, Pause, Reset
  <2>3. DeletesKnown(afterStop')
    BY <2>1 DEF DeletesKnown, Waiting
  <2> QED BY <1>1, <1>2, <2>1, <2>2, <2>3, NumbersKept
<1> QED BY <1>3, <1>4, <1>5

\* Steps that leave the list and its changes alone, and answer no insert.
LEMMA NumberOthers ==
    ASSUME Typed, Typed', NumberInv, gdb.process = "alive", gdb'.next = gdb.next,
           UNCHANGED <<bps, afterStop, table>>, DeletesKnown(toGdb'),
           NEW S, Extends(toUi, toUi', S), \A r \in S : r.op = "inserted" => r.number = None
    PROVE  NumberInv'
<1>1. ASSUME NEW i \in DOMAIN toUi', Answers(i)'
      PROVE  i + 0 \in DOMAIN toUi /\ toUi[i + 0] = toUi'[i]
  <2>1. i \in DOMAIN toUi /\ toUi[i] = toUi'[i]
    BY <1>1 DEF Answers, Extends
  <2>2. i + 0 = i
    BY <2>1 DEF Typed, TypeOK
  <2> QED BY <2>1, <2>2
<1>2. DeletesKnown(afterStop')
  BY DEF DeletesKnown, Waiting
<1> QED BY <1>1, <1>2, NumbersKept

LEMMA NumberQuiet ==
    ASSUME Typed, Typed', NumberInv, gdb.process = "alive", TargetReset \/ WorkerStep \/ Hit
    PROVE  NumberInv'
<1> USE DEF Typed
<1>1. gdb'.next = gdb.next /\ UNCHANGED <<bps, afterStop, table>> /\ Extends(toUi, toUi', {})
  <2>1. Quietly
    BY QuietReset, QuietWorker
  <2> QED BY <2>1 DEF Quietly, Kin, TargetReset, WorkerStep, TakeSet, TakeLoad, TakeReset, Hit
<1>2. CASE WorkerStep \/ Hit
  <2>1. UNCHANGED toGdb
    BY <1>2 DEF WorkerStep, TakeSet, TakeLoad, TakeReset, Hit
  <2>2. DeletesKnown(toGdb')
    BY <2>1 DEF DeletesKnown, Waiting
  <2> QED BY <1>1, <2>2, NumberOthers
<1>3. CASE TargetReset
  <2>1. DeletesKnown(toGdb')
    <3>1. CASE ui.connected /\ ui.state = "stopped"
      <4>1. Extends(toGdb, toGdb', {[op |-> "flush"], Refresh})
        BY <1>3, <3>1, ResetFacts
      <4> QED BY <4>1, ExtendedDeletes DEF Refresh
    <3>2. CASE ~ (ui.connected /\ ui.state = "stopped")
      BY <1>3, <3>2 DEF TargetReset, DeletesKnown, Waiting
    <3> QED BY <3>1, <3>2
  <2> QED BY <1>1, <2>1, NumberOthers
<1> QED BY <1>2, <1>3

LEMMA NumberGdb ==
    ASSUME Typed, Typed', NumberInv, ConnectGdb \/ GdbCommand \/ StopGdb
    PROVE  NumberInv'
<1> USE DEF Typed, TypeOK
<1>0. gdb.process = "alive" /\ UNCHANGED <<bps, afterStop>>
  BY DEF ConnectGdb, GdbCommand, StopGdb, ContinueGdb, InterruptGdb, InsertGdb, DeleteGdb,
         FlushGdb, FramesGdb, Executes
<1>1. ~ StopGdb => toGdb # <<>> /\ toGdb' = Tail(toGdb)
  BY DEF ConnectGdb, GdbCommand, ContinueGdb, InterruptGdb, InsertGdb, DeleteGdb,
         FlushGdb, FramesGdb, Executes
<1>2. DeletesKnown(toGdb')
  <2>1. CASE StopGdb
    BY <2>1 DEF StopGdb, DeletesKnown, Waiting
  <2>2. CASE ~ StopGdb
    BY <1>1, <2>2, TailDeletes
  <2> QED BY <2>1, <2>2
<1>3. ASSUME NEW r \in Records, r.op = "inserted" => r.number = None, toUi' = Append(toUi, r),
             gdb'.next = gdb.next, UNCHANGED table
      PROVE  NumberInv'
  <2>1. Extends(toUi, toUi', {r})
    BY <1>3, AppendExtends, ExtendsSame
  <2> QED BY <1>0, <1>2, <1>3, <2>1, NumberOthers
<1>4. ASSUME UNCHANGED toUi, gdb'.next = gdb.next, UNCHANGED table
      PROVE  NumberInv'
  <2>1. Extends(toUi, toUi', {})
    BY <1>4, ExtendsSame
  <2> QED BY <1>0, <1>2, <1>4, <2>1, NumberOthers
<1>5. CASE ConnectGdb
  <2>1. gdb'.next = gdb.next /\ UNCHANGED table
    BY <1>5 DEF ConnectGdb, Gdb
  <2> DEFINE s == [op |-> "stopped"]
             c == [op |-> "connected"]
  <2>2. CASE toUi' = toUi \o <<s, c>>
    <3>1. <<s, c>> \in Seq(Records) /\ \A i \in DOMAIN <<s, c>> : <<s, c>>[i] \in {s, c}
      BY RecordList
    <3>2. Extends(toUi, toUi, {})
      BY ExtendsSame
    <3> DEFINE t == <<s, c>>
    <3>3. Extends(toUi, toUi', {s, c})
      <4> HIDE DEF t, s, c
      <4>1. t \in Seq(Records) /\ (\A i \in DOMAIN t : t[i] \in {s, c}) /\ toUi' = toUi \o t
        BY <2>2, <3>1 DEF t
      <4> QED BY <3>2, <4>1, CatExtends
    <3>4. \A x \in {s, c} : x.op = "inserted" => x.number = None
      OBVIOUS
    <3> DEFINE S == {s, c}
    <3>5. Extends(toUi, toUi', S) /\ \A x \in S : x.op = "inserted" => x.number = None
      BY <3>3, <3>4
    <3> HIDE DEF S
    <3> QED BY <1>0, <1>2, <2>1, <3>5, NumberOthers
  <2>3. CASE toUi' = Append(toUi, [op |-> "refused"])
    BY <1>3, <2>1, <2>3, RecordList
  <2> QED BY <1>5, <2>2, <2>3 DEF ConnectGdb
<1>6. CASE ContinueGdb
  <2>1. gdb'.next = gdb.next /\ UNCHANGED table
    BY <1>6 DEF ContinueGdb, Gdb
  <2>2. CASE gdb.target = "halted"
    <3>1. toUi' = Append(AgedPipe, [op |-> "running"])
      BY <1>6, <2>2 DEF ContinueGdb
    <3>2. AgedPipe \in Seq(Records) /\ [op |-> "running"] \in Records /\ Extends(toUi, AgedPipe, {})
      BY AgedRecords, RecordList
    <3>3. Extends(toUi, toUi', {[op |-> "running"]})
      BY ONLY <3>1, <3>2, AppendExtends
    <3> QED BY <1>0, <1>2, <2>1, <3>3, NumberOthers
  <2>3. CASE gdb.target # "halted"
    BY <1>4, <1>6, <2>1, <2>3 DEF ContinueGdb
  <2> QED BY <2>2, <2>3
<1>7. CASE InterruptGdb \/ FlushGdb
  BY <1>4, <1>7 DEF InterruptGdb, FlushGdb, Gdb
<1>8. CASE StopGdb
  BY <1>3, <1>8, RecordList DEF StopGdb, Gdb
<1>9. CASE FramesGdb
  <2>1. PICK d \in Shown :
           toUi' = Append(toUi, [op |-> "frames", gen |-> Head(toGdb).gen, data |-> d])
    BY <1>9 DEF FramesGdb, Shown
  <2>2. Head(toGdb) \in Commands /\ Head(toGdb).op = "frames"
    BY <1>9 DEF FramesGdb, Executes
  <2>3. Head(toGdb).gen \in {"new", "old"}
    BY <2>2, CommandFacts
  <2>4. [op |-> "frames", gen |-> Head(toGdb).gen, data |-> d] \in Records
    BY <2>3, RecordList
  <2> QED BY <1>3, <1>9, <2>1, <2>4 DEF FramesGdb
<1>10. CASE InsertGdb
  <2> DEFINE k == Head(toGdb).key
             n == gdb.next
             r == [op |-> "inserted", key |-> k, number |-> n]
  <2>1. k \in Keys /\ n \in Numbers
    <3>1. Head(toGdb) \in Commands /\ Head(toGdb).op = "insert"
      BY <1>10 DEF InsertGdb, Executes
    <3> QED BY <3>1, CommandFacts DEF Gdb
  <2>2. CASE toUi' = Append(toUi, [op |-> "inserted", key |-> k, number |-> None])
             /\ UNCHANGED <<table, gdb>>
    BY <1>3, <2>1, <2>2, RecordList
  <2>3. CASE /\ toUi' = Append(toUi, r) /\ table' = With(table, n, k)
             /\ gdb' = [gdb EXCEPT !.next = @ + 1]
    <3>1. /\ gdb'.process = "alive" /\ gdb'.next = n + 1 /\ n # None
      BY <1>0, <2>1, <2>3 DEF Gdb, Numbers, None
    <3>2. /\ DOMAIN table' = DOMAIN table \cup {n} /\ table'[n] = k
          /\ \A m \in DOMAIN table : m # n => table'[m] = table[m]
      BY <2>3 DEF With
    <3>3. \A m \in DOMAIN table : m < n /\ m # n
      BY <1>0, <2>1 DEF NumberInv, Numbers
    <3>4. /\ \A i \in DOMAIN toUi' : \/ i \in DOMAIN toUi /\ toUi'[i] = toUi[i]
                                     \/ i = Len(toUi) + 1 /\ toUi'[i] = r
      BY <2>3
    <3> HIDE DEF n, k
    <3>5. r.number = n /\ r.key = k /\ r.op = "inserted"
      OBVIOUS
    <3> HIDE DEF r
    <3>6. \A m \in Numbers : m < n => m < n + 1 /\ m # n
      BY <2>1 DEF Numbers
    <3>7. \A m \in DOMAIN table' : m < n + 1
      <4>1. n < n + 1
        BY <2>1 DEF Numbers
      <4> QED BY <3>2, <3>3, <3>6, <4>1
    <3>8. \A j \in DOMAIN bps' : bps'[j].number # None =>
             /\ bps'[j].number \in DOMAIN table' /\ table'[bps'[j].number] = j
             /\ bps'[j].number # n
      BY <1>0, <3>2, <3>3 DEF NumberInv
    <3>9. ASSUME NEW i \in DOMAIN toUi', Answers(i)'
          PROVE  \/ /\ i \in DOMAIN toUi /\ toUi'[i] = toUi[i] /\ Answers(i)
                    /\ toUi'[i].number \in DOMAIN table /\ toUi'[i].number # n
                    /\ table'[toUi'[i].number] = toUi'[i].key
                 \/ i = Len(toUi) + 1 /\ toUi'[i] = r
      BY <1>0, <3>2, <3>3, <3>4, <3>9 DEF NumberInv, Answers
    <3>10. ASSUME NEW i \in DOMAIN toUi', Answers(i)'
           PROVE  /\ toUi'[i].number \in DOMAIN table' /\ table'[toUi'[i].number] = toUi'[i].key
                  /\ \A j \in DOMAIN bps' : bps'[j].number # toUi'[i].number
                  /\ \A j \in DOMAIN toUi' : Answers(j)' /\ toUi'[j].number = toUi'[i].number => j = i
      <4>1. toUi'[i].number \in DOMAIN table' /\ table'[toUi'[i].number] = toUi'[i].key
        BY <3>2, <3>5, <3>9, <3>10
      <4>2. \A j \in DOMAIN bps' : bps'[j].number # toUi'[i].number
        <5>1. CASE toUi'[i] = r
          BY <3>1, <3>5, <3>8, <5>1
        <5>2. CASE i \in DOMAIN toUi /\ toUi'[i] = toUi[i] /\ Answers(i)
          <6>1. \A j \in DOMAIN bps : bps[j].number # toUi[i].number
            BY <1>0, <5>2 DEF NumberInv
          <6> QED BY <1>0, <5>2, <6>1
        <5> QED BY <3>9, <3>10, <5>1, <5>2
      <4>3. ASSUME NEW j \in DOMAIN toUi', Answers(j)', toUi'[j].number = toUi'[i].number
            PROVE  j = i
        BY <1>0, <3>5, <3>9, <3>10, <4>3 DEF NumberInv
      <4> QED BY <4>1, <4>2, <4>3
    <3>11. ASSUME NEW m \in Numbers, Free(m)
           PROVE  Free(m)'
      <4>1. m < n + 1 /\ m # n
        BY <3>6, <3>11 DEF Free, n
      <4>2. \A i \in DOMAIN toUi' : toUi'[i].op = "inserted" => toUi'[i].number # m
        BY <3>4, <3>5, <3>11, <4>1 DEF Free
      <4> QED BY <1>0, <3>1, <3>11, <4>1, <4>2 DEF Free
    <3>12. ASSUME NEW c \in Commands, c.op = "delete", Waiting(c)
           PROVE  Free(c.number) /\ c.number \in Numbers
      BY <1>0, <3>12, CommandFacts DEF Waiting, NumberInv
    <3>13. (\A i \in DOMAIN toGdb : toGdb[i].op = "delete" => Free(toGdb[i].number))'
      <4>1. ASSUME NEW i \in DOMAIN toGdb', toGdb'[i].op = "delete", NEW m, m = toGdb'[i].number
            PROVE  Free(m)'
        <5>1. toGdb'[i] \in Commands
          OBVIOUS
        <5> QED BY <1>2, <3>11, <3>12, <4>1, <5>1 DEF DeletesKnown
      <4> QED BY <4>1 DEF Free
    <3>14. (\A i \in DOMAIN afterStop : afterStop[i].op = "delete" => Free(afterStop[i].number))'
      <4>1. ASSUME NEW i \in DOMAIN afterStop', afterStop'[i].op = "delete", NEW m, m = afterStop'[i].number
            PROVE  Free(m)'
        <5>1. afterStop'[i] \in Commands /\ Waiting(afterStop'[i])
          BY <1>0, ChangeFacts DEF Waiting
        <5> QED BY <3>11, <3>12, <4>1, <5>1
      <4> QED BY <4>1 DEF Free
    <3> QED BY <3>1, <3>7, <3>8, <3>10, <3>13, <3>14 DEF NumberInv
  <2> QED BY <1>10, <2>2, <2>3 DEF InsertGdb
<1>11. CASE DeleteGdb
  <2> DEFINE n == Head(toGdb).number
  <2>0. UNCHANGED <<gdb, bps, toUi, afterStop>>
    BY <1>11 DEF DeleteGdb
  <2>1. CASE UNCHANGED table
    BY <1>4, <2>0, <2>1
  <2>2. CASE table' = [m \in DOMAIN table \ {n} |-> table[m]]
    <3>1. Free(n)
      <4>1. 1 \in DOMAIN toGdb /\ toGdb[1] = Head(toGdb) /\ toGdb[1].op = "delete"
        BY <1>11 DEF DeleteGdb, Executes
      <4> QED BY <1>0, <4>1 DEF NumberInv
    <3>2. \A m : Free(m)' <=> Free(m)
      BY <2>0 DEF Free
    <3>3. \A i \in DOMAIN toUi : Answers(i)' <=> Answers(i)
      BY <2>0 DEF Answers
    <3>4. \A i \in DOMAIN toUi : Answers(i) => toUi[i].number # n
      BY <3>1 DEF Free, Answers
    <3>5. \A k \in DOMAIN bps : bps[k].number # n
      BY <3>1 DEF Free
    <3> HIDE DEF n
    <3>6. /\ DOMAIN table' = DOMAIN table \ {n}
          /\ \A m \in DOMAIN table' : table'[m] = table[m]
      BY <2>2
    <3>7. (\A i \in DOMAIN toGdb : toGdb[i].op = "delete" => Free(toGdb[i].number))'
      <4>1. ASSUME NEW i \in DOMAIN toGdb', toGdb'[i].op = "delete", NEW m, m = toGdb'[i].number
            PROVE  Free(m)'
        BY <1>0, <1>2, <3>2, <4>1 DEF DeletesKnown, Waiting, NumberInv
      <4> QED BY <4>1 DEF Free
    <3>8. (\A i \in DOMAIN afterStop : afterStop[i].op = "delete" => Free(afterStop[i].number))'
      <4>1. \A i \in DOMAIN afterStop : afterStop[i].op = "delete" => Free(afterStop[i].number)
        BY <1>0 DEF NumberInv
      <4> QED BY <2>0, <4>1 DEF Free
    <3>9. \A m \in DOMAIN table' : m < gdb'.next
      BY <1>0, <2>0, <3>6 DEF NumberInv
    <3>10. \A k \in DOMAIN bps' : bps'[k].number # None =>
              bps'[k].number \in DOMAIN table' /\ table'[bps'[k].number] = k
      BY <1>0, <2>0, <3>5, <3>6 DEF NumberInv
    <3>11. \A i \in DOMAIN toUi' : Answers(i)' =>
              /\ toUi'[i].number \in DOMAIN table' /\ table'[toUi'[i].number] = toUi'[i].key
              /\ \A k \in DOMAIN bps' : bps'[k].number # toUi'[i].number
              /\ \A j \in DOMAIN toUi' : Answers(j)' /\ toUi'[j].number = toUi'[i].number => j = i
      BY <1>0, <2>0, <3>3, <3>4, <3>6 DEF NumberInv
    <3> QED BY <3>7, <3>8, <3>9, <3>10, <3>11 DEF NumberInv
  <2> QED BY <1>11, <2>1, <2>2 DEF DeleteGdb
<1> QED BY <1>5, <1>6, <1>7, <1>8, <1>9, <1>10, <1>11 DEF GdbCommand

LEMMA NumberRead ==
    ASSUME Typed, Typed', SessionInv, NumberInv, gdb.process = "alive",
           ReadRunning \/ ReadStopped \/ ReadConnected \/ ReadInserted \/ ReadFrames
    PROVE  NumberInv'
<1> USE DEF Typed, TypeOK
<1>1. UNCHANGED <<gdb, table>> /\ toUi # <<>> /\ Shifted(toUi, toUi')
  BY ReadFacts
<1>2. ASSUME NEW i \in DOMAIN toUi', toUi'[i].op = "inserted"
      PROVE  i + 1 \in DOMAIN toUi /\ toUi[i + 1] = toUi'[i] /\ i + 1 # 1
  <2>1. i \in Nat \ {0} /\ i + 1 \in DOMAIN toUi /\ toUi'[i] = toUi[i + 1]
    BY <1>1, <1>2 DEF Shifted
  <2>2. \A x \in Nat \ {0} : x + 1 # 1
    OBVIOUS
  <2> QED BY <2>1, <2>2
<1>3. \A i \in DOMAIN toUi' : Answers(i)' => i + 1 \in DOMAIN toUi /\ toUi[i + 1] = toUi'[i]
  BY <1>2 DEF Answers
<1>4. CASE ReadRunning \/ ReadStopped \/ ReadConnected \/ ReadFrames
  <2>1. UNCHANGED bps
    BY <1>4 DEF ReadRunning, ReadStopped, ReadConnected, ReadFrames
  <2>2. DeletesKnown(toGdb')
    <3>1. CASE ReadRunning
      <4>1. Extends(toGdb, toGdb', {})
        BY <3>1, OutdatedCommands DEF ReadRunning
      <4> QED BY <4>1, ExtendedDeletes
    <3>2. CASE ReadStopped
      <4> DEFINE K == {c \in Commands : c.op \in {"insert", "delete"} /\ Kept(afterStop, Len(afterStop), c)}
                 S == K \cup {[op |-> "continue"], Refresh}
      <4>1. Extends(toGdb, toGdb', S)
        BY <3>2, StoppedFacts
      <4>2. \A c \in K : Waiting(c)
        BY DEF Kept, Waiting
      <4>3. [op |-> "continue"].op # "delete" /\ Refresh.op # "delete"
        BY DEF Refresh
      <4> HIDE DEF K
      <4>4. \A c \in S : \A n : c.op = "delete" /\ c.number = n => Waiting(c) \/ Free(n)'
        BY <4>2, <4>3
      <4> HIDE DEF S
      <4> QED BY <4>1, <4>4, ExtendedDeletes
    <3>3. CASE ReadConnected
      <4>1. Extends(toGdb, toGdb', Inserts0 \cup {Refresh})
        BY <3>3, ConnectedFacts
      <4>2. \A c \in Inserts0 \cup {Refresh} : c.op # "delete"
        BY DEF Inserts0, Inserted, Refresh
      <4> QED BY <4>1, <4>2, ExtendedDeletes
    <3>4. CASE ReadFrames
      BY <3>4 DEF ReadFrames, DeletesKnown, Waiting
    <3> QED BY <1>4, <3>1, <3>2, <3>3, <3>4
  <2>3. DeletesKnown(afterStop')
    <3>1. afterStop' = afterStop \/ afterStop' = <<>>
      BY <1>4 DEF ReadRunning, ReadStopped, ReadConnected, ReadFrames
    <3> QED BY <3>1 DEF DeletesKnown, Waiting
  <2> QED BY <1>1, <1>3, <2>1, <2>2, <2>3, NumbersKept
<1>5. CASE ReadInserted
  <2> DEFINE r == toUi[1]
  <2>1. /\ r = Head(toUi) /\ r.op = "inserted" /\ 1 \in DOMAIN toUi /\ UNCHANGED afterStop
        /\ r.key \in Keys /\ r.number \in Numbers \cup {None}
    <3>1. r = Head(toUi) /\ r.op = "inserted" /\ 1 \in DOMAIN toUi /\ UNCHANGED afterStop
      BY <1>5 DEF ReadInserted, Read
    <3> QED BY <3>1, RecordFacts
  <2>2. DeletesKnown(afterStop')
    BY <2>1 DEF DeletesKnown, Waiting
  <2>3. CASE UNCHANGED <<bps, toGdb>>
    <3>1. DeletesKnown(toGdb')
      BY <2>3 DEF DeletesKnown, Waiting
    <3> QED BY <1>1, <1>3, <2>2, <2>3, <3>1, NumbersKept
  <2>4. CASE r.key \in DOMAIN bps /\ r.number = None
    <3>1. UNCHANGED toGdb /\ bps' = [bps EXCEPT ![r.key] = [@ EXCEPT !.state = "error"]]
      BY <1>5, <2>1, <2>4 DEF ReadInserted
    <3>2. \A k \in DOMAIN bps' : k \in DOMAIN bps /\ bps'[k].number = bps[k].number
      BY <2>4, <3>1 DEF Breakpoint
    <3>3. DeletesKnown(toGdb')
      BY <3>1 DEF DeletesKnown, Waiting
    <3> QED BY <1>1, <1>3, <2>2, <3>2, <3>3, NumbersKept
  <2>5. ASSUME r.number # None
        PROVE  /\ r.number \in DOMAIN table /\ table[r.number] = r.key /\ r.number < gdb.next
               /\ \A k \in DOMAIN bps : bps[k].number # r.number
               /\ \A i \in DOMAIN toUi' : toUi'[i].op = "inserted" => toUi'[i].number # r.number
    <3>1. Answers(1)
      BY <2>1, <2>5 DEF Answers
    <3>2. /\ r.number \in DOMAIN table /\ table[r.number] = r.key
          /\ \A k \in DOMAIN bps : bps[k].number # r.number
          /\ \A j \in DOMAIN toUi : Answers(j) /\ toUi[j].number = r.number => j = 1
      BY <2>1, <3>1 DEF NumberInv
    <3>3. r.number < gdb.next
      BY <3>2 DEF NumberInv
    <3>4. \A i \in DOMAIN toUi' : toUi'[i].op = "inserted" => toUi'[i].number # r.number
      BY <1>2, <2>5, <3>2 DEF Answers
    <3> QED BY <3>2, <3>3, <3>4
  <2>6. CASE r.key \notin DOMAIN bps /\ r.number # None
    <3>1. UNCHANGED bps /\ toGdb' = Sent(<<[op |-> "delete", number |-> r.number]>>)
      BY <1>5, <2>1, <2>6 DEF ReadInserted
    <3>2. \A n : n = r.number => Free(n)'
      BY <1>1, <2>5, <2>6, <3>1 DEF Free
    <3> DEFINE c == [op |-> "delete", number |-> r.number]
    <3>3. Extends(toGdb, toGdb', {c})
      BY <2>1, <2>6, <3>1, CommandList, SentOne
    <3>4. \A n : c.number = n => Free(n)'
      BY <3>2
    <3> HIDE DEF c
    <3>5. DeletesKnown(toGdb')
      BY <3>3, <3>4, ExtendedDeletes
    <3> QED BY <1>1, <1>3, <2>2, <3>1, <3>5, NumbersKept
  <2>7. CASE r.key \in DOMAIN bps /\ r.number # None
    <3>1. UNCHANGED toGdb /\ bps' = [bps EXCEPT ![r.key] = [number |-> r.number, state |-> "ok"]]
      BY <1>5, <2>1, <2>7 DEF ReadInserted
    <3>2. /\ DOMAIN bps' = DOMAIN bps /\ bps'[r.key].number = r.number
          /\ \A k \in DOMAIN bps : k # r.key => bps'[k] = bps[k]
      BY <2>7, <3>1
    <3>3. \A k \in DOMAIN bps' : bps'[k].number # None =>
             bps'[k].number \in DOMAIN table' /\ table'[bps'[k].number] = k
      BY <1>1, <2>5, <2>7, <3>2 DEF NumberInv
    <3>4. ASSUME NEW n \in Numbers, Free(n)
          PROVE  Free(n)'
      <4>1. n # r.number
        BY <2>1, <3>4 DEF Free
      <4>2. \A k \in DOMAIN bps' : bps'[k].number # n
        BY <3>2, <3>4, <4>1 DEF Free
      <4>3. \A i \in DOMAIN toUi' : toUi'[i].op = "inserted" => toUi'[i].number # n
        BY <1>2, <3>4 DEF Free
      <4> QED BY <1>1, <3>4, <4>2, <4>3 DEF Free
    <3>5. (\A i \in DOMAIN toGdb : toGdb[i].op = "delete" => Free(toGdb[i].number))'
      <4>1. ASSUME NEW i \in DOMAIN toGdb, toGdb[i].op = "delete", NEW n, n = toGdb[i].number
            PROVE  Free(n)'
        <5>1. toGdb[i] \in Commands
          OBVIOUS
        <5>2. n \in Numbers /\ Free(n)
          BY <4>1, <5>1, CommandFacts DEF NumberInv
        <5> QED BY <3>4, <5>2
      <4> QED BY <3>1, <4>1 DEF Free
    <3>6. (\A i \in DOMAIN afterStop : afterStop[i].op = "delete" => Free(afterStop[i].number))'
      <4>1. ASSUME NEW i \in DOMAIN afterStop, afterStop[i].op = "delete", NEW n, n = afterStop[i].number
            PROVE  Free(n)'
        <5>1. afterStop[i] \in Commands
          BY ChangeFacts
        <5>2. n \in Numbers /\ Free(n)
          BY <4>1, <5>1, CommandFacts DEF NumberInv
        <5> QED BY <3>4, <5>2
      <4> QED BY <2>1, <4>1 DEF Free
    <3>7. ASSUME NEW i \in DOMAIN toUi', Answers(i)'
          PROVE  /\ toUi'[i].number \in DOMAIN table' /\ table'[toUi'[i].number] = toUi'[i].key
                 /\ \A k \in DOMAIN bps' : bps'[k].number # toUi'[i].number
                 /\ \A j \in DOMAIN toUi' : Answers(j)' /\ toUi'[j].number = toUi'[i].number => j = i
      <4>1. Answers(i + 1) /\ i + 1 \in DOMAIN toUi /\ toUi[i + 1] = toUi'[i]
        BY <1>3, <3>7 DEF Answers
      <4>2. toUi'[i].number \in DOMAIN table' /\ table'[toUi'[i].number] = toUi'[i].key
        BY <1>1, <4>1 DEF NumberInv
      <4>3. toUi'[i].number # r.number
        BY <2>5, <2>7, <3>7 DEF Answers
      <4>4. \A k \in DOMAIN bps' : bps'[k].number # toUi'[i].number
        <5>1. \A k \in DOMAIN bps : bps[k].number # toUi[i + 1].number
          BY <4>1 DEF NumberInv
        <5> HIDE DEF r
        <5> QED BY <3>2, <4>1, <4>3, <5>1
      <4>5. ASSUME NEW j \in DOMAIN toUi', Answers(j)', toUi'[j].number = toUi'[i].number
            PROVE  j = i
        <5>1. Answers(j + 1) /\ j + 1 \in DOMAIN toUi /\ toUi[j + 1] = toUi'[j]
          BY <1>3, <4>5 DEF Answers
        <5>2. i + 1 = j + 1
          BY <4>1, <4>5, <5>1 DEF NumberInv
        <5>3. i \in Nat /\ j \in Nat
          OBVIOUS
        <5> QED BY <5>2, <5>3
      <4> QED BY <4>2, <4>4, <4>5
    <3>8. \A n \in DOMAIN table' : n < gdb'.next
      BY <1>1 DEF NumberInv
    <3> QED BY <3>3, <3>5, <3>6, <3>7, <3>8 DEF NumberInv
  <2> QED BY <2>4, <2>6, <2>7, <2>3, <1>5, <2>1 DEF ReadInserted
<1> QED BY <1>4, <1>5

LEMMA NumberInvInductive ==
    ASSUME Typed, Typed', SessionInv, NumberInv, [Next]_vars
    PROVE  NumberInv'
<1>1. CASE \/ (\E k \in Keys : AddBreakpoint(k) \/ RemoveBreakpoint(k)) \/ Resume \/ Pause \/ Reset
           \/ TargetReset \/ WorkerStep \/ Hit
           \/ ReadRunning \/ ReadStopped \/ ReadConnected \/ ReadInserted \/ ReadFrames
  <2>1. CASE gdb.process = "alive"
    BY <1>1, <2>1, NumberUser, NumberQuiet, NumberRead
  <2>2. CASE gdb.process # "alive"
    <3>1. gdb'.process = gdb.process
      <4>1. CASE ReadRunning \/ ReadStopped \/ ReadConnected \/ ReadInserted \/ ReadFrames
        BY <4>1, ReadFacts
      <4>2. CASE ~ (ReadRunning \/ ReadStopped \/ ReadConnected \/ ReadInserted \/ ReadFrames)
        <5>1. Quietly
          BY <1>1, <4>2, QuietUser, QuietReset, QuietWorker DEF SessionInv, ConnectInv
        <5> QED BY <5>1 DEF Quietly
      <4> QED BY <4>1, <4>2
    <3> QED BY <2>2, <3>1 DEF NumberInv
  <2> QED BY <2>1, <2>2
<1>2. CASE ConnectGdb \/ GdbCommand \/ StopGdb
  BY <1>2, NumberGdb
<1>3. CASE ReadRefused \/ Timeout \/ \E next \in {"off", "starting"} : Load(next)
  <2>1. Restarted
    BY <1>3, StopRestarts DEF ReadRefused, Timeout
  <2>2. \A i \in DOMAIN toGdb' : toGdb'[i].op # "delete"
    BY <2>1 DEF Restarted
  <2> QED BY <2>1, <2>2 DEF Restarted, NumberInv
<1>4. CASE Finished \/ Crash
  <2>1. gdb'.process # "alive"
    BY <1>4 DEF Finished, Crash, NoGdb
  <2> QED BY <2>1 DEF NumberInv
<1>5. CASE UNCHANGED vars
  BY <1>5 DEF vars, NumberInv, Answers, Free
<1> QED BY <1>1, <1>2, <1>3, <1>4, <1>5 DEF Next, UserStep, UiStep, ReadRecord

-----------------------------------------------------------------------------
(* Breakpoints shown as set *)

LEMMA ExtendedUnder ==
    ASSUME NEW p, NEW q, NEW S, Extends(p, q, S), NEW k, NEW a, a # "frames", Under(p, a, k)
    PROVE  Under(q, a, k)
BY DEF Extends, Under

LEMMA ShiftedUnder ==
    ASSUME NEW p, NEW q, Shifted(p, q), NEW k, NEW a, a # "frames", Under(p, a, k)
    PROVE  Under(q, a, k) \/ (p[1].op = a /\ p[1].key = k)
BY DEF Shifted, Under

LEMMA AddedUnder ==
    ASSUME NEW p, NEW q, NEW k, Adds(p, q, Inserted(k))
    PROVE  Under(q, "insert", k)
BY DEF Adds, Under, Inserted

LEMMA ListUser ==
    ASSUME Typed, ListInv, ui.connected, gdb.process = "alive",
           (\E k \in Keys : AddBreakpoint(k) \/ RemoveBreakpoint(k)) \/ Resume \/ Pause \/ Reset
    PROVE  ListInv'
<1> USE DEF Typed
<1>1. UNCHANGED toUi
  BY DEF AddBreakpoint, RemoveBreakpoint, Resume, Pause, Reset
<1>2. (\E S : Extends(toGdb, toGdb', S)) /\ (\E S : Extends(afterStop, afterStop', S))
  <2>1. ASSUME NEW k \in Keys, AddBreakpoint(k) \/ RemoveBreakpoint(k)
        PROVE  \E S : Edit(S)
    BY <2>1, AddFacts, RemoveFacts
  <2>2. CASE Resume \/ Pause \/ Reset
    <3>1. UNCHANGED afterStop /\ Extends(afterStop, afterStop, {})
      BY <2>2, ExtendsSame DEF Resume, Pause, Reset
    <3>2. \A op \in {"continue", "interrupt"} : Extends(toGdb, Sent(<<[op |-> op]>>), {[op |-> op]})
      BY CommandList, SentOne
    <3>3. Extends(toGdb, toGdb, {})
      BY ExtendsSame
    <3> QED BY <2>2, <3>1, <3>2, <3>3 DEF Resume, Pause, Reset
  <2> QED BY <2>1, <2>2 DEF Edit
<1>3. \A k : Inserting(k) => Inserting(k)'
  BY <1>1, <1>2, ExtendedUnder DEF Inserting
<1>4. \A k \in DOMAIN bps' : bps'[k].state = "ok" => k \in DOMAIN bps /\ bps'[k] = bps[k]
  <2>1. ASSUME NEW j \in Keys, AddBreakpoint(j)
        PROVE  \A k \in DOMAIN bps' : bps'[k].state = "ok" => k \in DOMAIN bps /\ bps'[k] = bps[k]
    <3> DEFINE b == [number |-> None, state |-> "pending"]
    <3>1. bps' = With(bps, j, b) /\ b.state # "ok"
      BY <2>1 DEF AddBreakpoint
    <3> HIDE DEF b
    <3> QED BY <3>1 DEF With
  <2>2. ASSUME NEW j \in Keys, RemoveBreakpoint(j)
        PROVE  \A k \in DOMAIN bps' : k \in DOMAIN bps /\ bps'[k] = bps[k]
    BY <2>2 DEF RemoveBreakpoint
  <2>3. Resume \/ Pause \/ Reset => UNCHANGED bps
    BY DEF Resume, Pause, Reset
  <2> QED BY <2>1, <2>2, <2>3
<1> QED BY <1>3, <1>4 DEF ListInv

LEMMA ListRead ==
    ASSUME Typed, SessionInv, ListInv, gdb.process = "alive",
           ReadRunning \/ ReadStopped \/ ReadConnected \/ ReadInserted \/ ReadFrames
    PROVE  ListInv'
<1> USE DEF Typed, TypeOK
<1>1. /\ Shifted(toUi, toUi') /\ (ui'.connected <=> ui.connected \/ ReadConnected)
      /\ (\E S : Extends(toGdb, toGdb', S))
      /\ toUi[1].op = "inserted" => ReadInserted
  BY ReadFacts
<1>2. \A k : Under(toUi, "inserted", k) =>
          Under(toUi', "inserted", k) \/ (ReadInserted /\ toUi[1].key = k)
  <2>1. \A k : Under(toUi, "inserted", k) =>
            Under(toUi', "inserted", k) \/ (toUi[1].op = "inserted" /\ toUi[1].key = k)
    <3>1. Shifted(toUi, toUi') /\ "inserted" # "frames"
      BY <1>1
    <3> QED BY ONLY <3>1, ShiftedUnder
  <2> QED BY <1>1, <2>1
<1>3. \A k : Under(toGdb, "insert", k) => Under(toGdb', "insert", k)
  BY <1>1, ExtendedUnder
<1>4. CASE ReadConnected
  <2>1. \A k \in DOMAIN bps : Adds(toGdb, toGdb', Inserted(k))
    BY <1>4, ConnectedFacts
  <2>2. \A k \in DOMAIN bps : Under(toGdb', "insert", k)
    BY <2>1, AddedUnder
  <2> QED BY <1>4, <2>2 DEF ReadConnected, ListInv, Inserting
<1>5. CASE ReadStopped
  <2>1. ASSUME NEW k \in DOMAIN bps, Under(afterStop, "insert", k)
        PROVE  Under(toGdb', "insert", k)
    <3>1. PICK i \in DOMAIN afterStop : afterStop[i].op = "insert" /\ afterStop[i].key = k
      BY <2>1 DEF Under
    <3>2. afterStop[i] \in Commands /\ i \in 1 .. Len(afterStop) /\ Applies(afterStop[i])
      BY <3>1, ChangeFacts DEF Applies
    <3>3. Adds(toGdb, toGdb', afterStop[i])
      BY <1>5, <3>2, StoppedFacts DEF Kept
    <3> QED BY <3>1, <3>3 DEF Adds, Under
  <2>2. UNCHANGED bps /\ ~ ReadConnected /\ ~ ReadInserted
    BY <1>5 DEF ReadStopped, ReadConnected, ReadInserted, Read
  <2> QED BY <1>1, <1>2, <1>3, <2>1, <2>2 DEF ListInv, Inserting
<1>6. CASE ReadRunning \/ ReadFrames
  <2>1. UNCHANGED <<bps, afterStop>> /\ ~ ReadConnected /\ ~ ReadInserted
    BY <1>6 DEF ReadRunning, ReadFrames, ReadConnected, ReadInserted, Read
  <2> QED BY <1>1, <1>2, <1>3, <2>1 DEF ListInv, Inserting
<1>7. CASE ReadInserted
  <2>1. UNCHANGED afterStop /\ ~ ReadConnected
    BY <1>7 DEF ReadInserted, ReadConnected, Read
  <2>2. \A k \in DOMAIN bps' : k \in DOMAIN bps
    BY <1>7 DEF ReadInserted
  <2>3. \A k \in DOMAIN bps : k # toUi[1].key => bps'[k] = bps[k]
    BY <1>7 DEF ReadInserted, Read
  <2>4. ASSUME toUi[1].key \in DOMAIN bps
        PROVE  bps'[toUi[1].key].state = "error" \/ bps'[toUi[1].key].number # None
    <3>1. Head(toUi) = toUi[1]
      BY <1>7 DEF ReadInserted, Read
    <3> QED BY <1>7, <2>4, <3>1 DEF ReadInserted, Breakpoint
  <2> QED BY <1>1, <1>2, <1>3, <2>1, <2>2, <2>3, <2>4 DEF ListInv, Inserting
<1> QED BY <1>4, <1>5, <1>6, <1>7

LEMMA ListGdb ==
    ASSUME Typed, ListInv, GdbCommand \/ StopGdb
    PROVE  ListInv'
<1> USE DEF Typed, TypeOK
<1>1. /\ ui'.connected = ui.connected /\ gdb.process = "alive"
      /\ \E S : Extends(toUi, toUi', S)
      /\ IF StopGdb THEN toGdb' = toGdb ELSE toGdb # <<>> /\ toGdb' = Tail(toGdb)
  BY GdbStepFacts
<1>2. UNCHANGED <<bps, afterStop>>
  BY DEF GdbCommand, StopGdb, ContinueGdb, InterruptGdb, InsertGdb, DeleteGdb, FlushGdb, FramesGdb
<1>3. \A k : Under(toUi, "inserted", k) => Under(toUi', "inserted", k)
  BY <1>1, ExtendedUnder
<1>4. ASSUME NEW k, Under(toGdb, "insert", k)
      PROVE  Under(toGdb', "insert", k) \/ Under(toUi', "inserted", k)
  <2>1. CASE StopGdb
    BY <1>1, <1>4, <2>1
  <2>2. CASE ~ StopGdb
    <3>1. Shifted(toGdb, toGdb') /\ Head(toGdb) = toGdb[1]
      BY <1>1, <2>2, ExtendsSame, ShiftedTail
    <3>2. CASE toGdb[1].op = "insert" /\ toGdb[1].key = k
      <4>1. InsertGdb
        BY <2>2, <3>1, <3>2 DEF GdbCommand, ContinueGdb, InterruptGdb, InsertGdb, DeleteGdb,
                                FlushGdb, FramesGdb, Executes
      <4>2. PICK n : toUi' = Append(toUi, [op |-> "inserted", key |-> k, number |-> n])
        BY <3>1, <3>2, <4>1 DEF InsertGdb
      <4>3. Len(toUi) + 1 \in DOMAIN toUi' /\ toUi'[Len(toUi) + 1] = [op |-> "inserted", key |-> k, number |-> n]
        BY <4>2
      <4> QED BY <4>3 DEF Under
    <3> QED BY <1>4, <3>1, <3>2, ShiftedUnder
  <2> QED BY <2>1, <2>2
<1>5. \A k : Inserting(k) => Inserting(k)'
  BY <1>2, <1>3, <1>4 DEF Inserting
<1> QED BY <1>1, <1>2, <1>5 DEF ListInv

LEMMA ListInvInductive ==
    ASSUME Typed, SessionInv, ListInv, [Next]_vars
    PROVE  ListInv'
<1>1. CASE (\E k \in Keys : AddBreakpoint(k) \/ RemoveBreakpoint(k)) \/ Resume \/ Pause \/ Reset
  <2>1. ui'.connected = ui.connected /\ gdb'.process = gdb.process
    BY <1>1, QuietUser DEF Quietly, SessionInv, ConnectInv
  <2> QED BY <1>1, <2>1, ListUser DEF ListInv
<1>2. CASE TargetReset \/ WorkerStep \/ Hit
  <2>1. Quietly
    BY <1>2, QuietReset, QuietWorker
  <2>2. UNCHANGED <<bps, afterStop>>
    BY <1>2 DEF TargetReset, WorkerStep, TakeSet, TakeLoad, TakeReset, Hit
  <2>3. \A k : Inserting(k) => Inserting(k)'
    BY <2>1, <2>2, ExtendedUnder DEF Inserting, Quietly, Kin
  <2> QED BY <2>1, <2>2, <2>3 DEF ListInv, Quietly
<1>3. CASE ReadRunning \/ ReadStopped \/ ReadConnected \/ ReadInserted \/ ReadFrames
  BY <1>3, ListRead, ReadFacts DEF ListInv
<1>4. CASE GdbCommand \/ StopGdb
  BY <1>4, ListGdb
<1>5. CASE ConnectGdb
  <2>1. UNCHANGED ui /\ 1 \in DOMAIN toGdb /\ toGdb[1].op = "connect"
    BY <1>5 DEF ConnectGdb, Executes, Typed, TypeOK
  <2> QED BY <2>1 DEF ListInv, SessionInv, ConnectInv, CommandInv, FlagInv
<1>6. CASE ReadRefused \/ Timeout \/ \E next \in {"off", "starting"} : Load(next)
  BY <1>6, StopRestarts DEF ReadRefused, Timeout, Restarted, ListInv
<1>7. CASE Finished \/ Crash
  <2>1. gdb'.process # "alive"
    BY <1>7 DEF Finished, Crash, NoGdb
  <2> QED BY <2>1 DEF ListInv
<1>8. CASE UNCHANGED vars
  BY <1>8 DEF vars, ListInv, Inserting, Under
<1> QED BY <1>1, <1>2, <1>3, <1>4, <1>5, <1>6, <1>7, <1>8 DEF Next, UserStep, UiStep, ReadRecord

-----------------------------------------------------------------------------
(* The breakpoints in the machine *)

LEMMA MachineInvInductive ==
    ASSUME Typed, SessionInv, MachineInv, [Next]_vars
    PROVE  MachineInv'
<1> USE DEF Typed, TypeOK
<1>1. ASSUME UNCHANGED <<table, posts>>, mach'.bps = mach.bps,
             gdb'.target = "none" <=> gdb.target = "none"
      PROVE  MachineInv'
  BY <1>1 DEF MachineInv
<1>2. ASSUME NEW k \in Keys, AddBreakpoint(k) \/ RemoveBreakpoint(k)
      PROVE  MachineInv'
  <2>1. UNCHANGED <<table, mach, gdb>> /\ (ui.connected \/ ui.state # "off" => posts' = posts)
    BY <1>2, AddFacts, RemoveFacts DEF AddBreakpoint, RemoveBreakpoint
  <2>2. ui.state = "off" => gdb.target = "none"
    BY DEF SessionInv, ProcessInv
  <2> QED BY <2>1, <2>2 DEF MachineInv
<1>3. CASE Resume \/ Pause \/ TargetReset \/ Hit
  BY <1>1, <1>3 DEF Resume, Pause, TargetReset, Hit, Machine
<1>4. CASE Reset
  <2>1. \A i \in DOMAIN posts' : posts'[i] = [call |-> "reset"] \/ (i \in DOMAIN posts /\ posts'[i] = posts[i])
    BY <1>4 DEF Reset
  <2> QED BY <1>4, <2>1 DEF Reset, MachineInv
<1>5. CASE WorkerStep
  <2>1. /\ posts # <<>> /\ posts' = Tail(posts) /\ 1 \in DOMAIN posts /\ Head(posts) = posts[1]
        /\ gdb'.target = gdb.target /\ UNCHANGED table
    BY <1>5 DEF WorkerStep, TakeSet, TakeLoad, TakeReset, Gdb
  <2>2. \A i \in DOMAIN posts' : i + 1 \in DOMAIN posts /\ posts'[i] = posts[i + 1]
    BY <2>1
  <2>3. mach'.bps # mach.bps => posts[1].call # "reset"
    BY <1>5, <2>1 DEF WorkerStep, TakeSet, TakeLoad, TakeReset, Machine
  <2>4. gdb.target = "none" => DOMAIN table = {}
    BY DEF SessionInv, ProcessInv
  <2> QED BY <2>1, <2>2, <2>3, <2>4 DEF MachineInv
<1>6. CASE ReadRunning \/ ReadStopped \/ ReadConnected \/ ReadInserted \/ ReadFrames
  BY <1>1, <1>6, ReadFacts
<1>7. CASE ConnectGdb
  <2>1. DOMAIN table = {}
    <3>1. 1 \in DOMAIN toGdb /\ toGdb[1].op = "connect"
      BY <1>7 DEF ConnectGdb, Executes
    <3> QED BY <3>1 DEF SessionInv, ProcessInv, ConnectInv, CommandInv
  <2> QED BY <1>7, <2>1 DEF ConnectGdb, MachineInv
<1>8. CASE ContinueGdb \/ InterruptGdb \/ FlushGdb \/ FramesGdb \/ StopGdb
  <2>1. gdb'.target = "none" <=> gdb.target = "none"
    BY <1>8, GdbStepFacts DEF GdbCommand
  <2> QED BY <1>1, <1>8, <2>1
          DEF ContinueGdb, InterruptGdb, FlushGdb, FramesGdb, StopGdb, Machine
<1>9. CASE InsertGdb
  <2>1. UNCHANGED posts /\ (gdb'.target = "none" <=> gdb.target = "none")
    BY <1>9, GdbStepFacts DEF InsertGdb, GdbCommand
  <2>2. CASE UNCHANGED <<table, mach>>
    BY <1>1, <2>1, <2>2
  <2>3. CASE \E k : table' = With(table, gdb.next, k) /\ mach' = [mach EXCEPT !.bps = @ \cup {k}]
    <3>1. PICK k : table' = With(table, gdb.next, k) /\ mach' = [mach EXCEPT !.bps = @ \cup {k}]
      BY <2>3
    <3>2. mach'.bps = mach.bps \cup {k}
      BY <3>1 DEF Machine
    <3>3. \A n \in DOMAIN table' : table'[n] = k \/ (n \in DOMAIN table /\ table'[n] = table[n])
      BY <3>1 DEF With
    <3> QED BY <2>1, <3>2, <3>3 DEF MachineInv
  <2> QED BY <1>9, <2>2, <2>3 DEF InsertGdb
<1>10. CASE DeleteGdb
  <2>1. UNCHANGED <<posts, gdb>>
    BY <1>10 DEF DeleteGdb
  <2>2. CASE UNCHANGED <<table, mach>>
    BY <1>1, <2>1, <2>2
  <2>3. CASE ~ UNCHANGED <<table, mach>>
    <3> DEFINE n == Head(toGdb).number
               left == [m \in DOMAIN table \ {n} |-> table[m]]
    <3>1. table' = left /\ mach' = [mach EXCEPT !.bps = @ \ ({table[n]} \ Range(left))]
      BY <1>10, <2>3 DEF DeleteGdb
    <3>2. mach'.bps = mach.bps \ ({table[n]} \ Range(left))
      BY <3>1 DEF Machine
    <3>3. \A m \in DOMAIN table' : table'[m] \in Range(left) /\ table'[m] = table[m] /\ m \in DOMAIN table
      BY <3>1 DEF Range
    <3> QED BY <2>1, <3>2, <3>3 DEF MachineInv
  <2> QED BY <2>2, <2>3
<1>11. CASE ReadRefused \/ Timeout \/ \E next \in {"off", "starting"} : Load(next)
  BY <1>11, StopRestarts DEF ReadRefused, Timeout, Restarted, MachineInv
<1>12. CASE Finished
  <2>1. DOMAIN table = {} /\ gdb'.target = "none" /\ UNCHANGED table
    BY <1>12 DEF Finished, NoGdb, SessionInv, ProcessInv
  <2> QED BY <2>1 DEF MachineInv
<1>13. CASE Crash
  <2>1. table' = NoBps /\ gdb'.target = "none"
    BY <1>13 DEF Crash, NoGdb
  <2> QED BY <2>1, EmptyTypes DEF MachineInv
<1>14. CASE UNCHANGED vars
  BY <1>1, <1>14 DEF vars
<1> QED BY <1>2, <1>3, <1>4, <1>5, <1>6, <1>7, <1>8, <1>9, <1>10, <1>11, <1>12, <1>13, <1>14
        DEF Next, UserStep, UiStep, ReadRecord, GdbCommand

-----------------------------------------------------------------------------
(* What is on display *)

FlushInv(pipe) ==
    \A i \in DOMAIN pipe : pipe[i].op = "flush" =>
        \E j \in DOMAIN pipe : j > i /\ (New(pipe[j]) \/ pipe[j].op = "continue")

LEMMA KeptFlushes ==
    ASSUME NEW p, NEW q, NEW S, Extends(p, q, S), Keeps(p, q), \A c \in S : c.op # "flush",
           FlushInv(p)
    PROVE  FlushInv(q)
BY DEF Extends, Keeps, FlushInv

LEMMA AddedFlushes ==
    ASSUME NEW p, NEW q, NEW S, Extends(p, q, S), \A c \in S : c.op # "flush",
           NEW c, New(c) \/ c.op = "continue", Adds(p, q, c)
    PROVE  FlushInv(q)
<1>1. PICK j \in DOMAIN q : q[j] = c /\ \A i \in DOMAIN p : j > i
  BY DEF Adds
<1>2. \A i \in DOMAIN q : q[i].op = "flush" => i \in DOMAIN p
  BY DEF Extends
<1> QED BY <1>1, <1>2 DEF FlushInv

LEMMA TailFlushes ==
    ASSUME NEW T, NEW p \in Seq(T), p # <<>>, FlushInv(p)
    PROVE  /\ FlushInv(Tail(p))
           /\ Head(p).op = "flush" =>
                 \E j \in DOMAIN Tail(p) : New(Tail(p)[j]) \/ Tail(p)[j].op = "continue"
<1>1. /\ 1 \in DOMAIN p /\ Head(p) = p[1]
      /\ \A i \in DOMAIN Tail(p) : i \in Nat \ {0} /\ i + 1 \in DOMAIN p /\ Tail(p)[i] = p[i + 1]
      /\ \A i \in DOMAIN p : i \in Nat /\ (i > 1 => i - 1 \in DOMAIN Tail(p) /\ Tail(p)[i - 1] = p[i])
  OBVIOUS
<1>2. \A i, j \in Nat : j > i + 1 => j > 1 /\ j - 1 > i
  OBVIOUS
<1> DEFINE q == Tail(p)
<1> HIDE DEF q
<1>3. ASSUME NEW i \in DOMAIN q, q[i].op = "flush"
      PROVE  \E j \in DOMAIN q : j > i /\ (New(q[j]) \/ q[j].op = "continue")
  <2>1. PICK j \in DOMAIN p : j > i + 1 /\ (New(p[j]) \/ p[j].op = "continue")
    BY <1>1, <1>3 DEF FlushInv, q
  <2>2. j > 1 /\ j - 1 > i
    BY <1>1, <1>2, <2>1 DEF q
  <2> QED BY <1>1, <2>1, <2>2 DEF q
<1>4. ASSUME Head(p).op = "flush"
      PROVE  \E j \in DOMAIN q : New(q[j]) \/ q[j].op = "continue"
  <2>1. PICK j \in DOMAIN p : j > 1 /\ (New(p[j]) \/ p[j].op = "continue")
    BY <1>1, <1>4 DEF FlushInv
  <2> QED BY <1>1, <2>1 DEF q
<1> QED BY <1>3, <1>4 DEF FlushInv, q

\* Nothing is read of the display's refreshes.
NewKept == (\E i \in DOMAIN toGdb : New(toGdb[i])) => \E i \in DOMAIN toGdb' : New(toGdb'[i])

LEMMA FreshKept ==
    ASSUME Typed, Fresh, ui'.shown = ui.shown, NewKept,
           \/ UNCHANGED toUi
           \/ \E r : ~ New(r) /\ toUi' = Append(toUi, r)
    PROVE  Fresh'
<1> USE DEF Typed, TypeOK
<1>1. CASE \E i \in DOMAIN toGdb : New(toGdb[i])
  BY <1>1 DEF Fresh, NewKept
<1>2. /\ DOMAIN toUi \subseteq DOMAIN toUi' /\ \A i \in DOMAIN toUi : toUi'[i] = toUi[i]
      /\ \A i \in DOMAIN toUi' : New(toUi'[i]) => i \in DOMAIN toUi
  <2>1. CASE UNCHANGED toUi
    BY <2>1
  <2>2. ASSUME NEW r, ~ New(r), toUi' = Append(toUi, r)
        PROVE  /\ DOMAIN toUi \subseteq DOMAIN toUi' /\ \A i \in DOMAIN toUi : toUi'[i] = toUi[i]
               /\ \A i \in DOMAIN toUi' : New(toUi'[i]) => i \in DOMAIN toUi
    <3>1. /\ DOMAIN toUi' = DOMAIN toUi \cup {Len(toUi) + 1} /\ toUi'[Len(toUi) + 1] = r
          /\ \A i \in DOMAIN toUi : toUi'[i] = toUi[i]
      BY <2>2
    <3> QED BY <2>2, <3>1
  <2> QED BY <2>1, <2>2
<1>3. CASE \E i \in DOMAIN toUi : /\ New(toUi[i]) /\ toUi[i].data = "current"
                                 /\ \A j \in DOMAIN toUi : j > i => ~ New(toUi[j])
  BY <1>2, <1>3 DEF Fresh
<1>4. CASE ui.shown = "current" /\ \A i \in DOMAIN toUi : ~ New(toUi[i])
  BY <1>2, <1>4 DEF Fresh
<1> QED BY <1>1, <1>3, <1>4 DEF Fresh

LEMMA AddedFresh ==
    ASSUME Adds(toGdb, toGdb', Refresh)
    PROVE  Fresh'
BY CommandList DEF Adds, Fresh

LEMMA FreshRead ==
    ASSUME Typed, Fresh, toUi # <<>>, toUi' = Tail(toUi), NewKept,
           ui'.shown = IF New(Head(toUi)) THEN Head(toUi).data ELSE ui.shown
    PROVE  Fresh'
<1> USE DEF Typed, TypeOK
<1>1. /\ 1 \in DOMAIN toUi /\ Head(toUi) = toUi[1]
      /\ \A i \in DOMAIN toUi' : i \in Nat \ {0} /\ i + 1 \in DOMAIN toUi /\ toUi'[i] = toUi[i + 1]
      /\ \A i \in DOMAIN toUi : i \in Nat /\ (i # 1 => i - 1 \in DOMAIN toUi' /\ toUi'[i - 1] = toUi[i])
  OBVIOUS
<1>2. \A i, j \in Nat : (j > i - 1 => j + 1 > i) /\ (j # 0 => j + 1 > 1)
  OBVIOUS
<1>3. CASE \E i \in DOMAIN toGdb : New(toGdb[i])
  BY <1>3 DEF Fresh, NewKept
<1>4. ASSUME NEW i \in DOMAIN toUi, New(toUi[i]), toUi[i].data = "current",
             \A j \in DOMAIN toUi : j > i => ~ New(toUi[j])
      PROVE  Fresh'
  <2>1. CASE i = 1
    <3>1. ui'.shown = "current"
      BY <1>1, <1>4, <2>1
    <3>2. \A j \in DOMAIN toUi' : ~ New(toUi'[j])
      BY <1>1, <1>2, <1>4, <2>1
    <3> QED BY <3>1, <3>2 DEF Fresh
  <2>2. CASE i # 1
    <3>1. i - 1 \in DOMAIN toUi' /\ toUi'[i - 1] = toUi[i]
      BY <1>1, <2>2
    <3>2. \A j \in DOMAIN toUi' : j > i - 1 => ~ New(toUi'[j])
      BY <1>1, <1>2, <1>4
    <3> QED BY <1>4, <3>1, <3>2 DEF Fresh
  <2> QED BY <2>1, <2>2
<1>5. CASE ui.shown = "current" /\ \A i \in DOMAIN toUi : ~ New(toUi[i])
  <2>1. ui'.shown = "current"
    BY <1>1, <1>5
  <2>2. \A j \in DOMAIN toUi' : ~ New(toUi'[j])
    BY <1>1, <1>5
  <2> QED BY <2>1, <2>2 DEF Fresh
<1> QED BY <1>3, <1>4, <1>5 DEF Fresh

\* gdb's commands, without those that touch the display.
LEMMA ViewGdb ==
    ASSUME Typed, SessionInv, ViewInv, GdbCommand
    PROVE  ViewInv'
<1> USE DEF Typed, TypeOK
<1>1. /\ ui'.state = ui.state /\ ui'.connected = ui.connected
      /\ gdb.process = "alive" /\ toGdb # <<>> /\ toGdb' = Tail(toGdb)
      /\ \E S : Extends(toUi, toUi', S)
  <2>1. ~ StopGdb \/ toGdb' # toGdb
    <3>1. toGdb' = Tail(toGdb) /\ toGdb # <<>>
      BY DEF GdbCommand, ContinueGdb, InterruptGdb, InsertGdb, DeleteGdb, FlushGdb, FramesGdb, Executes
    <3>2. Len(Tail(toGdb)) # Len(toGdb)
      BY <3>1
    <3> QED BY <3>1, <3>2
  <2> QED BY <2>1, GdbStepFacts
<1>2. ui.state = "stopped" => FlushInv(toGdb)
  BY <1>1 DEF ViewInv, FlushInv
<1>3. ui.state = "stopped" => FlushInv(toGdb')
  BY <1>1, <1>2, TailFlushes
<1>4. ~ (Head(toGdb).op = "continue") /\ Standing' /\ gdb.target = "halted" => Standing
  <2>1. Shifted(toGdb, toGdb') /\ Head(toGdb) = toGdb[1]
    BY <1>1, ExtendsSame, ShiftedTail
  <2>2. Has(toGdb, "continue") /\ toGdb[1].op # "continue" => Has(toGdb', "continue")
    BY <2>1, ShiftedHas
  <2>3. Has(toUi, "stopped") => Has(toUi', "stopped")
    BY <1>1, ExtendedHas
  <2> QED BY <1>1, <2>1, <2>2, <2>3 DEF Standing
<1>5. ~ New(Head(toGdb)) => NewKept
  <2>1. /\ Head(toGdb) = toGdb[1]
        /\ \A i \in DOMAIN toGdb : i # 1 => i - 1 \in DOMAIN toGdb' /\ toGdb'[i - 1] = toGdb[i]
    BY <1>1
  <2> QED BY <2>1 DEF NewKept
<1>6. SUFFICES ASSUME Standing', gdb'.registers = "clean" PROVE Fresh'
  BY <1>1, <1>3 DEF ViewInv, FlushInv
<1>7. gdb'.target = "halted"
  BY <1>6 DEF Standing
<1>8. CASE ContinueGdb
  <2>1. gdb'.target # "halted"
    BY <1>8 DEF ContinueGdb, Gdb
  <2> QED BY <1>7, <2>1
<1>9. CASE InterruptGdb \/ DeleteGdb
  <2>1. UNCHANGED <<ui, gdb, toUi>> /\ Head(toGdb).op \in {"interrupt", "delete"}
    BY <1>9 DEF InterruptGdb, DeleteGdb, Executes
  <2>2. Standing /\ gdb.registers = "clean"
    BY <1>4, <1>6, <1>7, <2>1
  <2> QED BY <1>5, <2>1, <2>2, FreshKept DEF ViewInv, New
<1>10. CASE InsertGdb
  <2>1. /\ UNCHANGED ui /\ gdb'.registers = gdb.registers /\ gdb'.target = gdb.target
        /\ Head(toGdb).op = "insert"
    BY <1>10 DEF InsertGdb, Executes, Gdb
  <2>2. PICK k, n : toUi' = Append(toUi, [op |-> "inserted", key |-> k, number |-> n])
    BY <1>10 DEF InsertGdb
  <2>3. Standing /\ gdb.registers = "clean"
    BY <1>4, <1>6, <1>7, <2>1
  <2>4. ~ New([op |-> "inserted", key |-> k, number |-> n]) /\ ~ New(Head(toGdb))
    BY <2>1 DEF New
  <2> QED BY <1>5, <2>1, <2>2, <2>3, <2>4, FreshKept DEF ViewInv
<1>11. CASE FlushGdb
  <2>1. gdb'.target = gdb.target /\ Head(toGdb).op = "flush"
    BY <1>11 DEF FlushGdb, Executes, Gdb
  <2>2. Standing
    BY <1>4, <1>7, <1>6, <2>1
  <2>3. \E j \in DOMAIN toGdb' : New(toGdb'[j]) \/ toGdb'[j].op = "continue"
    BY <1>1, <1>2, <2>1, <2>2, TailFlushes DEF Standing
  <2>4. ~ Has(toGdb', "continue")
    BY <1>6 DEF Standing
  <2> QED BY <2>3, <2>4 DEF Has, Fresh
<1>12. CASE FramesGdb
  <2>1. /\ UNCHANGED <<ui, gdb>> /\ Head(toGdb).op = "frames"
    BY <1>12 DEF FramesGdb, Executes
  <2>2. Standing /\ gdb.registers = "clean"
    BY <1>4, <1>6, <1>7, <2>1
  <2> DEFINE r == [op |-> "frames", gen |-> Head(toGdb).gen, data |-> "current"]
  <2>3. toUi' = Append(toUi, r)
    BY <1>12, <2>2 DEF FramesGdb, Standing
  <2>4. CASE New(Head(toGdb))
    <3>1. New(r) /\ r.data = "current"
      BY <2>4 DEF New
    <3>2. /\ Len(toUi) + 1 \in DOMAIN toUi' /\ toUi'[Len(toUi) + 1] = r
          /\ \A j \in DOMAIN toUi' : ~ (j > Len(toUi) + 1)
      BY <2>3
    <3> HIDE DEF r
    <3> QED BY <3>1, <3>2 DEF Fresh
  <2>5. CASE ~ New(Head(toGdb))
    <3>1. ~ New(r)
      BY <2>1, <2>5 DEF New
    <3> HIDE DEF r
    <3> QED BY <1>5, <2>1, <2>2, <2>3, <2>5, <3>1, FreshKept DEF ViewInv
  <2> QED BY <2>4, <2>5
<1> QED BY <1>8, <1>9, <1>10, <1>11, <1>12 DEF GdbCommand

\* Steps of the UI and its user that add to gdb's input, or to nothing.
LEMMA ViewKept ==
    ASSUME Typed, ViewInv, gdb'.process = gdb.process, gdb'.target = gdb.target,
           gdb'.registers = gdb.registers, ui'.state = ui.state, ui'.connected = ui.connected,
           ui'.shown = ui.shown, UNCHANGED toUi, NEW S, Extends(toGdb, toGdb', S),
           Keeps(toGdb, toGdb'), \A c \in S : c.op # "flush"
    PROVE  ViewInv'
<1>1. gdb.process = "alive" /\ ui.state = "stopped" => FlushInv(toGdb')
  <2>1. gdb.process = "alive" /\ ui.state = "stopped" => FlushInv(toGdb)
    BY DEF ViewInv, FlushInv
  <2> QED BY <2>1, KeptFlushes
<1>2. NewKept
  BY DEF NewKept, Keeps, Extends
<1>3. Standing' => Standing
  <2>1. Has(toGdb, "continue") => Has(toGdb', "continue")
    BY ExtendedHas
  <2>2. Has(toUi, "stopped") => Has(toUi', "stopped")
    BY DEF Has
  <2> QED BY <2>1, <2>2 DEF Standing
<1>4. Standing' /\ gdb'.registers = "clean" => Fresh'
  BY <1>2, <1>3, FreshKept DEF ViewInv
<1> QED BY <1>1, <1>4 DEF ViewInv, FlushInv

LEMMA ViewUser ==
    ASSUME Typed, ViewInv,
           (\E k \in Keys : AddBreakpoint(k) \/ RemoveBreakpoint(k)) \/ Resume \/ Pause \/ Reset
    PROVE  ViewInv'
<1> USE DEF Typed, TypeOK
<1>1. UNCHANGED <<toUi, gdb>>
  BY DEF AddBreakpoint, RemoveBreakpoint, Resume, Pause, Reset
<1>2. ASSUME NEW k \in Keys, AddBreakpoint(k) \/ RemoveBreakpoint(k)
      PROVE  ViewInv'
  <2>1. PICK S : Edit(S) /\ \A c \in S : c.op # "flush"
    <3>1. CASE AddBreakpoint(k)
      <4>1. Edit({Inserted(k)})
        BY <3>1, AddFacts
      <4> QED BY <4>1 DEF Inserted
    <3>2. CASE RemoveBreakpoint(k)
      <4>1. Edit(IF ui.connected /\ bps[k].number # None THEN {Deleted(k)} ELSE {})
        BY <3>2, RemoveFacts
      <4>2. Deleted(k).op # "flush"
        BY DEF Deleted
      <4> QED BY <4>1, <4>2
    <3> QED BY <1>2, <3>1, <3>2
  <2> DEFINE U == S \cup {[op |-> "interrupt"]}
  <2>2. \A c \in U : c.op # "flush"
    BY <2>1
  <2>3. Extends(toGdb, toGdb', U)
    BY <2>1 DEF Edit
  <2> HIDE DEF U
  <2> QED BY <1>1, <2>1, <2>2, <2>3, ViewKept DEF Edit
<1>3. CASE Resume \/ Pause \/ Reset
  <2>1. ui'.state = ui.state /\ ui'.connected = ui.connected /\ ui'.shown = ui.shown
    BY <1>3 DEF Resume, Pause, Reset, Session
  <2>2. PICK S : /\ Extends(toGdb, toGdb', S) /\ Keeps(toGdb, toGdb')
                 /\ \A c \in S : c.op # "flush"
    <3>1. ASSUME NEW op \in {"continue", "interrupt"}, toGdb' = Sent(<<[op |-> op]>>)
          PROVE  /\ Extends(toGdb, toGdb', {[op |-> op]}) /\ Keeps(toGdb, toGdb')
                 /\ \A c \in {[op |-> op]} : c.op # "flush"
      <4>1. [op |-> op] \in Commands
        BY CommandList
      <4>2. Extends(toGdb, toGdb', {[op |-> op]}) /\ Keeps(toGdb, toGdb')
        BY <3>1, <4>1, SentOne
      <4>3. \A c \in {[op |-> op]} : c.op = op
        OBVIOUS
      <4> QED BY <4>2, <4>3
    <3>2. CASE UNCHANGED toGdb
      <4>1. Extends(toGdb, toGdb', {}) /\ Keeps(toGdb, toGdb')
        BY <3>2, ExtendsSame DEF Keeps
      <4> QED BY <4>1
    <3> QED BY <1>3, <3>1, <3>2 DEF Resume, Pause, Reset
  <2> QED BY <1>1, <2>1, <2>2, ViewKept
<1> QED BY <1>2, <1>3

LEMMA ViewReset ==
    ASSUME Typed, ViewInv, TargetReset
    PROVE  ViewInv'
<1>1. UNCHANGED <<ui, gdb>>
  BY DEF TargetReset
<1>2. CASE ui.connected /\ ui.state = "stopped" /\ gdb.process = "alive"
  <2>1. Adds(toGdb, toGdb', Refresh) /\ FlushInv(toGdb')
    BY <1>2, ResetFacts DEF FlushInv
  <2> QED BY <2>1, AddedFresh DEF ViewInv, FlushInv
<1>3. CASE gdb.process # "alive"
  BY <1>1, <1>3 DEF ViewInv, Standing
<1>4. CASE ~ (ui.connected /\ ui.state = "stopped")
  <2>1. UNCHANGED <<toUi, toGdb>>
    BY <1>4 DEF TargetReset
  <2> QED BY <1>1, <2>1 DEF ViewInv, Standing, Fresh, Has
<1> QED BY <1>2, <1>3, <1>4

LEMMA ViewWorker ==
    ASSUME Typed, ViewInv, WorkerStep \/ Hit
    PROVE  ViewInv'
<1>1. CASE TakeSet \/ TakeLoad \/ Hit
  <2>1. UNCHANGED <<ui, gdb, toUi, toGdb>>
    BY <1>1 DEF TakeSet, TakeLoad, Hit
  <2> QED BY <2>1 DEF ViewInv, Standing, Fresh, Has
<1>2. CASE TakeReset
  <2>1. UNCHANGED toGdb /\ ui'.state = ui.state /\ gdb'.process = gdb.process
    BY <1>2 DEF TakeReset, AgedView, Typed, TypeOK, Session, Gdb
  <2>2. ~ (gdb'.target = "halted" /\ gdb'.registers = "clean")
    BY <1>2 DEF TakeReset, Typed, TypeOK, Gdb
  <2> QED BY <2>1, <2>2 DEF ViewInv, Standing
<1> QED BY <1>1, <1>2 DEF WorkerStep

LEMMA ViewRead ==
    ASSUME Typed, SessionInv, ViewInv,
           ReadRunning \/ ReadStopped \/ ReadConnected \/ ReadInserted \/ ReadFrames
    PROVE  ViewInv'
<1> USE DEF Typed, TypeOK
<1>1. UNCHANGED gdb /\ toUi # <<>> /\ Shifted(toUi, toUi')
  BY ReadFacts
<1>2. CASE gdb.process # "alive"
  BY <1>1, <1>2 DEF ViewInv, Standing
<1>3. CASE ReadRunning
  <2>1. ui'.state # "stopped"
    BY <1>3 DEF ReadRunning, Session
  <2> QED BY <2>1 DEF ViewInv, Standing
<1>4. CASE ReadStopped /\ gdb.process = "alive"
  <2> DEFINE K == {c \in Commands : c.op \in {"insert", "delete"} /\ Kept(afterStop, Len(afterStop), c)}
             S == K \cup {[op |-> "continue"], Refresh}
             g == [op |-> "continue"]
  <2>1. Extends(toGdb, toGdb', S)
    BY <1>4, StoppedFacts
  <2>2. \A c \in S : c.op # "flush"
    BY DEF Refresh
  <2>3. Adds(toGdb, toGdb', Refresh) \/ Adds(toGdb, toGdb', g)
    BY <1>4, StoppedFacts
  <2>4. New(Refresh) /\ g.op = "continue"
    BY CommandList
  <2> HIDE DEF S, g
  <2>5. FlushInv(toGdb')
    BY <2>1, <2>2, <2>3, <2>4, AddedFlushes
  <2>6. Adds(toGdb, toGdb', g) => Has(toGdb', "continue")
    BY <2>4 DEF Adds, Has
  <2> QED BY <2>3, <2>5, <2>6, AddedFresh DEF ViewInv, FlushInv, Standing
<1>5. CASE ReadConnected /\ gdb.process = "alive"
  <2>1. Extends(toGdb, toGdb', Inserts0 \cup {Refresh}) /\ Adds(toGdb, toGdb', Refresh)
    BY <1>5, ConnectedFacts
  <2>2. \A c \in Inserts0 \cup {Refresh} : c.op # "flush"
    BY DEF Inserts0, Inserted, Refresh
  <2>3. FlushInv(toGdb')
    <3> DEFINE S == Inserts0 \cup {Refresh}
    <3> HIDE DEF S
    <3> QED BY <2>1, <2>2, CommandList, AddedFlushes DEF S
  <2> QED BY <2>1, <2>3, AddedFresh DEF ViewInv, FlushInv
<1>6. CASE ReadInserted /\ gdb.process = "alive"
  <2>1. /\ UNCHANGED ui /\ toUi' = Tail(toUi) /\ Head(toUi).op = "inserted" /\ Head(toUi) = toUi[1]
        /\ ~ New(Head(toUi))
    BY <1>6 DEF ReadInserted, Read, New
  <2>2. PICK S : /\ Extends(toGdb, toGdb', S) /\ Keeps(toGdb, toGdb')
                 /\ \A c \in S : c.op # "flush"
    <3>1. CASE UNCHANGED toGdb
      <4>1. Extends(toGdb, toGdb', {}) /\ Keeps(toGdb, toGdb')
        BY <3>1, ExtendsSame DEF Keeps
      <4> QED BY <4>1
    <3> DEFINE c == [op |-> "delete", number |-> Head(toUi).number]
    <3>2. CASE toGdb' = Sent(<<c>>) /\ Head(toUi).number # None
      <4>1. c \in Commands
        <5>1. Head(toUi).number \in Numbers
          <6>1. Head(toUi) \in Records
            BY <1>1
          <6> QED BY <2>1, <3>2, <6>1, RecordFacts
        <5> QED BY <5>1, CommandList
      <4>2. Extends(toGdb, toGdb', {c}) /\ Keeps(toGdb, toGdb')
        BY <3>2, <4>1, SentOne
      <4>3. c.op # "flush"
        OBVIOUS
      <4> HIDE DEF c
      <4> QED BY <4>2, <4>3
    <3> QED BY <1>6, <3>1, <3>2 DEF ReadInserted
  <2>3. ui.state = "stopped" => FlushInv(toGdb')
    <3>1. ui.state = "stopped" => FlushInv(toGdb)
      BY <1>6 DEF ViewInv, FlushInv
    <3> QED BY <2>2, <3>1, KeptFlushes
  <2>4. Standing' => Standing
    <3>1. Has(toUi, "stopped") => Has(toUi', "stopped")
      BY <1>1, <2>1, ShiftedHas
    <3>2. Has(toGdb, "continue") => Has(toGdb', "continue")
      BY <2>2, ExtendedHas
    <3> QED BY <1>1, <2>1, <3>1, <3>2 DEF Standing
  <2>5. NewKept
    BY <2>2 DEF NewKept, Keeps, Extends
  <2>6. Fresh => Fresh'
    BY <1>1, <2>1, <2>5, FreshRead
  <2> QED BY <1>1, <2>1, <2>3, <2>4, <2>6 DEF ViewInv, FlushInv
<1>7. CASE ReadFrames /\ gdb.process = "alive"
  <2>1. /\ UNCHANGED toGdb /\ toUi' = Tail(toUi) /\ Head(toUi).op = "frames" /\ Head(toUi) = toUi[1]
        /\ ui'.state = ui.state /\ ui'.connected = ui.connected
        /\ ui'.shown = IF New(Head(toUi)) THEN Head(toUi).data ELSE ui.shown
    BY <1>7 DEF ReadFrames, Read, New, Session
  <2>2. Standing' => Standing
    <3>1. Has(toUi, "stopped") => Has(toUi', "stopped")
      BY <1>1, <2>1, ShiftedHas
    <3>2. Has(toGdb, "continue") => Has(toGdb', "continue")
      BY <2>1 DEF Has
    <3> QED BY <1>1, <2>1, <3>1, <3>2 DEF Standing
  <2>3. NewKept
    BY <2>1 DEF NewKept
  <2>4. Fresh => Fresh'
    BY <1>1, <2>1, <2>3, FreshRead
  <2> QED BY <1>1, <2>1, <2>2, <2>4 DEF ViewInv
<1> QED BY <1>2, <1>3, <1>4, <1>5, <1>6, <1>7

LEMMA ViewInvInductive ==
    ASSUME Typed, SessionInv, ViewInv, [Next]_vars
    PROVE  ViewInv'
<1>1. CASE (\E k \in Keys : AddBreakpoint(k) \/ RemoveBreakpoint(k)) \/ Resume \/ Pause \/ Reset
  BY <1>1, ViewUser
<1>2. CASE TargetReset
  BY <1>2, ViewReset
<1>3. CASE WorkerStep \/ Hit
  BY <1>3, ViewWorker
<1>4. CASE ReadRunning \/ ReadStopped \/ ReadConnected \/ ReadInserted \/ ReadFrames
  BY <1>4, ViewRead
<1>5. CASE GdbCommand
  BY <1>5, ViewGdb
<1>6. CASE StopGdb
  <2>1. Has(toUi', "stopped")
    <3>1. Len(toUi) + 1 \in DOMAIN toUi' /\ toUi'[Len(toUi) + 1] = [op |-> "stopped"]
      BY <1>6 DEF StopGdb, Typed, TypeOK
    <3> QED BY <3>1 DEF Has
  <2>2. UNCHANGED <<ui, toGdb>> /\ gdb.process = "alive"
    BY <1>6 DEF StopGdb
  <2> QED BY <2>1, <2>2 DEF ViewInv, Standing
<1>7. CASE ConnectGdb
  <2>1. UNCHANGED ui /\ 1 \in DOMAIN toGdb /\ toGdb[1].op = "connect"
    BY <1>7 DEF ConnectGdb, Executes, Typed, TypeOK
  <2>2. ui.state = "starting"
    BY <2>1 DEF SessionInv, ConnectInv, CommandInv
  <2> QED BY <2>1, <2>2 DEF ViewInv, Standing
<1>8. CASE ReadRefused \/ Timeout \/ \E next \in {"off", "starting"} : Load(next)
  BY <1>8, StopRestarts DEF ReadRefused, Timeout, Restarted, ViewInv, Standing
<1>9. CASE Finished \/ Crash
  <2>1. gdb'.process # "alive"
    BY <1>9 DEF Finished, Crash, NoGdb
  <2> QED BY <2>1 DEF ViewInv, Standing
<1>10. CASE UNCHANGED vars
  BY <1>10 DEF vars, ViewInv, Standing, Fresh, Has
<1> QED BY <1>1, <1>2, <1>3, <1>4, <1>5, <1>6, <1>7, <1>8, <1>9, <1>10
        DEF Next, UserStep, UiStep, ReadRecord

-----------------------------------------------------------------------------
(* Theorems *)

LEMMA InitialInvariants ==
    ASSUME Init
    PROVE  /\ Typed /\ SessionInv /\ RunInv /\ SentInv /\ NumberInv /\ ListInv /\ MachineInv
           /\ ViewInv
<1>1. /\ ui.state = "off" /\ ui.connected = FALSE /\ ui.sent = FALSE
      /\ gdb.process = "none" /\ gdb.target = "none"
      /\ toUi = <<>> /\ toGdb = <<>> /\ DOMAIN table = {} /\ DOMAIN bps = {}
  BY EmptyTypes DEF Init, NoGdb
<1>2. DOMAIN toUi = {} /\ DOMAIN toGdb = {}
  BY <1>1
<1>3. SessionInv
  BY <1>1, <1>2 DEF SessionInv, ProcessInv, ConnectInv, FlagInv, CommandInv, RecordInv, Has
<1>4. RunInv /\ SentInv /\ NumberInv /\ ListInv /\ MachineInv /\ ViewInv
  BY <1>1 DEF RunInv, SentInv, NumberInv, ListInv, MachineInv, ViewInv, Standing
<1> QED BY <1>3, <1>4, Initial

LEMMA Invariants ==
    Spec => [](/\ Typed /\ SessionInv /\ RunInv /\ SentInv /\ NumberInv /\ ListInv /\ MachineInv
               /\ ViewInv)
<1> DEFINE Inv == /\ Typed /\ SessionInv /\ RunInv /\ SentInv /\ NumberInv /\ ListInv /\ MachineInv
                  /\ ViewInv
<1>1. Init => Inv
  BY InitialInvariants
<1>2. Inv /\ [Next]_vars => Inv'
  BY TypedInductive, SessionInvInductive, RunInvInductive, SentInvInductive, NumberInvInductive,
     ListInvInductive, MachineInvInductive, ViewInvInductive
<1> QED BY <1>1, <1>2, PTL DEF Spec

\* Every variable stays in its type, whatever the bounds are: pipes and queues
\* of commands, records and calls, with the numbers gdb has given out.
THEOREM TypeCorrect == Spec => []TypeOK
<1>1. Typed => TypeOK
  BY DEF Typed
<1> QED BY <1>1, Invariants, PTL

\* Once everything under way has arrived, the state and the connection that
\* the UI shows are those of gdb and its target.
THEOREM StateIsSo == Spec => []StateAgrees
<1>1. Typed /\ SessionInv /\ RunInv => StateAgrees
  <2> SUFFICES ASSUME Typed, SessionInv, RunInv, Quiet
               PROVE  /\ ui.state = "off" <=> gdb.process = "none"
                      /\ ui.state = "running" <=> gdb.target = "running"
                      /\ ui.connected <=> gdb.target # "none"
    BY DEF StateAgrees
  <2>1. DOMAIN toUi = {} /\ gdb.process \in {"none", "alive"} /\ gdb.target \in {"none", "halted", "running"}
    BY DEF Quiet, Typed, TypeOK, Gdb
  <2>2. \A a, b : ~ Has(toUi, a) /\ ~ Ends(toUi, a, b)
    BY <2>1 DEF Has, Ends
  <2>3. ui.connected <=> gdb.target # "none"
    BY <2>1, <2>2 DEF SessionInv, ProcessInv, ConnectInv, FlagInv, RecordInv
  <2>4. ui.state = "running" <=> gdb.target = "running"
    BY <2>1, <2>2, <2>3 DEF RunInv, SessionInv, ConnectInv, FlagInv
  <2> QED BY <2>3, <2>4 DEF SessionInv, ProcessInv
<1> QED BY <1>1, Invariants, PTL

\* While interruptSent_ is set, a stop is on its way.
THEOREM StopIsComing == Spec => []StopComing
<1>1. SentInv => StopComing
  BY DEF SentInv, StopComing, Has
<1> QED BY <1>1, Invariants, PTL

\* Once everything under way has arrived, a breakpoint that is shown as set
\* stops the machine.
THEOREM ListIsSo == Spec => []ListedIsSet
<1>1. Typed /\ SessionInv /\ NumberInv /\ ListInv /\ MachineInv => ListedIsSet
  <2> SUFFICES ASSUME Typed, SessionInv, NumberInv, ListInv, MachineInv, Quiet, ui.connected,
                      NEW k \in DOMAIN bps, bps[k].state = "ok"
               PROVE  k \in mach.bps
    BY DEF ListedIsSet
  <2>1. gdb.process = "alive"
    BY DEF Quiet, Typed, TypeOK, Gdb, SessionInv, ProcessInv, ConnectInv, FlagInv
  <2>2. bps[k].number # None
    BY <2>1 DEF ListInv, Inserting, Under, Quiet
  <2> QED BY <2>1, <2>2 DEF NumberInv, MachineInv
<1> QED BY <1>1, Invariants, PTL

\* Once everything under way has arrived, the stack and the variables on
\* display are those of the target as it stands, unless gdb's registers are
\* stale.
THEOREM ViewIsSo == Spec => []ViewCurrent
<1>1. Typed /\ SessionInv /\ RunInv /\ ViewInv => ViewCurrent
  <2> SUFFICES ASSUME Typed, SessionInv, RunInv, ViewInv, Quiet, ui.connected,
                      ui.state = "stopped", gdb.registers = "clean"
               PROVE  ui.shown = "current"
    BY DEF ViewCurrent
  <2>1. DOMAIN toUi = {} /\ DOMAIN toGdb = {}
    BY DEF Quiet
  <2>2. gdb.process = "alive" /\ gdb.target = "halted"
    <3>1. gdb.process = "alive"
      BY DEF Quiet, Typed, TypeOK, Gdb, SessionInv, ProcessInv
    <3>2. gdb.target # "none"
      BY <3>1 DEF SessionInv, ConnectInv, FlagInv
    <3>3. gdb.target # "running"
      BY <2>1 DEF RunInv, Ends
    <3> QED BY <3>1, <3>2, <3>3 DEF Typed, TypeOK, Gdb
  <2>3. Standing
    BY <2>1, <2>2 DEF Standing, Has
  <2> QED BY <2>1, <2>3 DEF ViewInv, Fresh
<1> QED BY <1>1, Invariants, PTL

=============================================================================
