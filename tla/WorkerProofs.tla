---------------------------- MODULE WorkerProofs ----------------------------
(***************************************************************************)
(* Proofs about Worker: its types, and that the machine is driven by one   *)
(* chain of ticks and leaves no step range behind, for any bounds on the   *)
(* queues.  The invariant is about the worker's record alone: whatever the *)
(* UI and gdb ask for, each of the worker's functions restores it.         *)
(***************************************************************************)
EXTENDS Worker, FiniteSetTheorems, TLAPS

\* OneChain and NoStaleRange, of any record w.
Driven(w) ==
    /\ w \in Worker
    /\ w.live = IF w.run = "running" THEN 1 ELSE 0
    /\ w.range = "set" => w.run = "running"

-----------------------------------------------------------------------------
(* What the worker's functions return *)

\* A reply changes nothing but the queue of replies.
LEMMA SendFacts ==
    ASSUME NEW w \in Worker, NEW a \in {"stop", "reply"}
    PROVE  /\ Send(w, a) \in Worker
           /\ Send(w, a).run = w.run /\ Send(w, a).live = w.live
           /\ Send(w, a).range = w.range
<1>1. Append(w.replies, a) \in Seq({"stop", "reply"})
  BY DEF Worker
<1> QED BY <1>1 DEF Send, Worker

\* stopped() answers gdb and leaves the run to its caller.
LEMMA StoppedFacts ==
    ASSUME NEW w \in Worker
    PROVE  /\ Stopped(w) \in Worker
           /\ Stopped(w).run = w.run /\ Stopped(w).live = w.live
           /\ Stopped(w).range = w.range
<1> DEFINE s == [w EXCEPT !.stub = "stopped"]
<1>1. s \in Worker /\ s.run = w.run /\ s.live = w.live /\ s.range = w.range
  BY DEF Worker, Runs
<1> HIDE DEF s
<1>2. Stopped(w) = w \/ Stopped(w) = Send(s, "stop")
  BY DEF Stopped, s
<1> QED BY <1>1, <1>2, SendFacts

\* A new generation leaves no live tick.
LEMMA NewGenFacts ==
    ASSUME NEW w \in Worker
    PROVE  /\ NewGen(w) \in Worker
           /\ NewGen(w).live = 0 /\ NewGen(w).run = w.run /\ NewGen(w).range = w.range
<1> DEFINE s == [w EXCEPT !.stale = @ + w.live]
<1>1. s \in Worker /\ s.run = w.run /\ s.range = w.range
  BY DEF Worker
<1>2. NewGen(w) = [s EXCEPT !.live = 0]
  BY DEF NewGen, Worker
<1> HIDE DEF s
<1> QED BY <1>1, <1>2 DEF Worker

\* setRunning sets the run, invalidates the ticks and, at a stop, the range.
LEMMA SetRunningFacts ==
    ASSUME NEW w \in Worker, NEW run \in Runs
    PROVE  /\ SetRunning(w, run) \in Worker
           /\ SetRunning(w, run).run = run /\ SetRunning(w, run).live = 0
           /\ SetRunning(w, run).range = IF run = "stopped" THEN "none" ELSE w.range
<1> DEFINE v == [w EXCEPT !.run = run]
           g == NewGen(v)
           c == [g EXCEPT !.range = "none"]
           s == IF run = "stopped" THEN Stopped(c) ELSE g
<1>1. v \in Worker /\ v.run = run /\ v.range = w.range
  BY DEF Worker
<1>2. SetRunning(w, run) = [s EXCEPT !.signals = Append(@, run)]
  BY DEF SetRunning
<1> HIDE DEF v
<1>3. g \in Worker /\ g.live = 0 /\ g.run = run /\ g.range = w.range
  BY <1>1, NewGenFacts
<1> HIDE DEF g
<1>4. c \in Worker /\ c.live = 0 /\ c.run = run /\ c.range = "none"
  BY <1>3 DEF Worker
<1> HIDE DEF c
<1>5. s \in Worker /\ s.live = 0 /\ s.run = run
      /\ s.range = IF run = "stopped" THEN "none" ELSE w.range
  BY <1>3, <1>4, StoppedFacts
<1> HIDE DEF s
<1>6. Append(s.signals, run) \in Seq(Runs)
  BY <1>5 DEF Worker
<1> QED BY <1>2, <1>5, <1>6 DEF Worker

\* A tick schedules the next one or stops the run.
LEMMA TickFacts ==
    ASSUME NEW w \in Worker, NEW stop \in QuantumEnds,
           w.live = 0, w.range = "set" => w.run = "running"
    PROVE  Driven(Tick(w, stop))
<1>1. CASE w.run = "stopped"
  BY <1>1 DEF Tick, Driven
<1>2. CASE w.run # "stopped" /\ stop = "stop"
  BY <1>2, SetRunningFacts DEF Tick, Driven, Runs
<1>3. CASE w.run # "stopped" /\ stop # "stop"
  BY <1>3 DEF Tick, Driven, Worker, Runs
<1> QED BY <1>1, <1>2, <1>3

\* However the worker was driven before a start, it is driven by one chain after.
LEMMA StartRunFacts ==
    ASSUME NEW w \in Worker, NEW stop \in QuantumEnds
    PROVE  Driven(StartRun(w, stop))
<1>1. "running" \in Runs
  BY DEF Runs
<1> QED BY <1>1, SetRunningFacts, TickFacts DEF StartRun

\* Stopping needs no assumption either.
LEMMA StopFacts ==
    ASSUME NEW w \in Worker
    PROVE  Driven(SetRunning(w, "stopped"))
BY SetRunningFacts DEF Driven, Runs

LEMMA CalledFacts ==
    ASSUME NEW w \in Worker, NEW call \in Calls, NEW stop \in QuantumEnds
    PROVE  Driven(Called(w, call, stop))
BY StartRunFacts, StopFacts DEF Called

LEMMA ReplyFacts ==
    ASSUME NEW w, Driven(w), NEW a \in {"stop", "reply"}
    PROVE  Driven(Send(w, a))
BY SendFacts DEF Driven

LEMMA HandledFacts ==
    ASSUME NEW w, Driven(w), NEW packet \in Packets, NEW stop \in QuantumEnds
    PROVE  Driven(Handled(w, packet, stop))
<1>1. w \in Worker
  BY DEF Driven
<1>2. CASE w.stub = "running"
  BY <1>1, <1>2, StopFacts DEF Handled
<1>3. CASE w.stub # "running" /\ packet = "ctrlC"
  BY <1>3 DEF Handled
<1>4. CASE w.stub # "running" /\ packet = "step"
  BY <1>4, ReplyFacts DEF Handled
<1>5. CASE w.stub # "running" /\ packet = "query"
  BY <1>5, ReplyFacts DEF Handled
<1>6. CASE w.stub # "running" /\ packet = "reset"
  <2>1. Driven(SetRunning(w, "stopped"))
    BY <1>1, StopFacts
  <2>2. Driven(Send(SetRunning(w, "stopped"), "reply"))
    BY <2>1, ReplyFacts
  <2> QED BY <1>6, <2>2 DEF Handled
<1>7. CASE w.stub # "running" /\ packet \in Resumes
  <2> DEFINE r == IF packet = "range" THEN "set" ELSE "none"
             v == [w EXCEPT !.stub = "running", !.range = r]
             u == [w EXCEPT !.stub = "running"]
  <2>1. u \in Worker
    BY <1>1 DEF Worker, Runs
  <2>2. v = [u EXCEPT !.range = r]
    BY <1>1 DEF Worker
  <2> HIDE DEF u
  <2>3. v \in Worker
    BY <2>1, <2>2 DEF Worker
  <2>4. StartResume(w, packet, stop) = StartRun(v, stop)
    BY DEF StartResume
  <2> HIDE DEF v
  <2>5. Driven(StartResume(w, packet, stop))
    BY <2>3, <2>4, StartRunFacts
  <2> QED BY <1>7, <2>5 DEF Handled, Resumes
<1> QED BY <1>2, <1>3, <1>4, <1>5, <1>6, <1>7 DEF Packets

-----------------------------------------------------------------------------
(* The steps *)

IInv == TypeOK /\ Driven(wk)

\* gdb's end touches the connection and the replies only.
LEMMA GdbGoneStep ==
    ASSUME IInv, GdbGone
    PROVE  /\ Driven(wk') /\ backlog' \in Seq({"alive", "dead"})
           /\ want' = "none" /\ toStub' \in Seq(Packets)
<1> DEFINE c == [wk EXCEPT !.conn = "ended"]
<1>1. c \in Worker /\ c.run = wk.run /\ c.live = wk.live /\ c.range = wk.range
  BY DEF IInv, Driven, Worker
<1>2. wk' = wk \/ wk' = [c EXCEPT !.replies = <<>>]
  BY DEF GdbGone, IInv, Driven, Worker
<1> HIDE DEF c
<1>3. <<>> \in Seq({"stop", "reply"})
  OBVIOUS
<1>4. Driven(wk')
  BY <1>1, <1>2, <1>3 DEF IInv, Driven, Worker
<1>5. backlog' \in Seq({"alive", "dead"})
  <2>1. backlog \in Seq({"alive", "dead"})
    BY DEF IInv, TypeOK
  <2>2. DOMAIN backlog = 1 .. Len(backlog) /\ Len(backlog) \in Nat
    BY <2>1
  <2> QED BY <2>2 DEF GdbGone
<1> QED BY <1>4, <1>5 DEF GdbGone, IInv, TypeOK

LEMMA WorkerStepInv ==
    ASSUME IInv, WorkerStep
    PROVE  IInv'
<1> USE DEF IInv, TypeOK
<1>1. CASE TakePost
  <2>1. Head(posts) \in Calls /\ Tail(posts) \in Seq(Calls)
    BY <1>1 DEF TakePost
  <2>2. PICK stop \in QuantumEnds : wk' = Called(wk, Head(posts), stop)
    BY <1>1 DEF TakePost
  <2>3. Driven(wk')
    BY <2>1, <2>2, CalledFacts
  <2> QED BY <1>1, <2>1, <2>3 DEF TakePost, Driven
<1>2. CASE LiveTick
  <2> DEFINE w == [wk EXCEPT !.live = @ - 1]
             v == [wk EXCEPT !.live = 0]
  <2>1. PICK stop \in QuantumEnds : wk' = Tick(w, stop)
    BY <1>2 DEF LiveTick
  <2>2. wk.live - 1 = 0
    BY <1>2 DEF LiveTick, Driven
  <2>3. w = v
    BY <2>2
  <2> HIDE DEF w
  <2>4. v \in Worker /\ v.live = 0 /\ v.run = wk.run /\ v.range = wk.range
    BY DEF Driven, Worker
  <2> HIDE DEF v
  <2>5. Driven(wk')
    BY <2>1, <2>3, <2>4, TickFacts DEF Driven
  <2> QED BY <1>2, <2>5 DEF LiveTick, Driven
<1>3. CASE StaleTick
  <2> DEFINE n == wk.stale - 1
  <2>1. n \in Nat
    BY <1>3 DEF StaleTick, Driven, Worker
  <2>2. wk' = [wk EXCEPT !.stale = n]
    BY <1>3 DEF StaleTick
  <2> HIDE DEF n
  <2>3. Driven(wk')
    BY <2>1, <2>2 DEF Driven, Worker
  <2> QED BY <1>3, <2>3 DEF StaleTick, Driven
<1>4. CASE Feed
  <2>1. Head(toStub) \in Packets /\ Tail(toStub) \in Seq(Packets)
    BY <1>4 DEF Feed
  <2>2. PICK stop \in QuantumEnds : wk' = Handled(wk, Head(toStub), stop)
    BY <1>4 DEF Feed
  <2>3. Driven(wk')
    BY <2>1, <2>2, HandledFacts
  <2> QED BY <1>4, <2>1, <2>3 DEF Feed, Driven
<1>5. CASE Disconnected
  BY <1>5 DEF Disconnected, Driven, Worker
<1>6. CASE Accept
  <2> DEFINE o == [wk EXCEPT !.conn = "open"]
             e == [wk EXCEPT !.conn = "ended"]
  <2>1. /\ o \in Worker /\ o.run = wk.run /\ o.live = wk.live /\ o.range = wk.range
        /\ e \in Worker /\ e.run = wk.run /\ e.live = wk.live /\ e.range = wk.range
    BY DEF Driven, Worker
  <2>2. wk' = [o EXCEPT !.stub = "stopped"] \/ wk' = [e EXCEPT !.stub = "stopped"]
    BY <1>6 DEF Accept, Driven, Worker
  <2> HIDE DEF o, e
  <2>3. Driven(wk')
    BY <2>1, <2>2 DEF Driven, Worker, Runs
  <2>4. Tail(backlog) \in Seq({"alive", "dead"})
    BY <1>6 DEF Accept
  <2>5. <<"query">> \in Seq(Packets)
    BY DEF Packets
  <2> QED BY <1>6, <2>3, <2>4, <2>5 DEF Accept, Driven
<1>7. CASE Refuse
  BY <1>7 DEF Refuse, Driven
<1> QED BY <1>1, <1>2, <1>3, <1>4, <1>5, <1>6, <1>7 DEF WorkerStep

LEMMA UiStepInv ==
    ASSUME IInv, UiStep
    PROVE  IInv'
<1> USE DEF IInv, TypeOK
<1>1. ASSUME NEW call \in Calls, NEW run \in Runs, Ask(call, run)
      PROVE  IInv'
  BY <1>1 DEF Ask, Driven
<1>2. CASE Load
  <2>1. "loadPath" \in Calls
    BY DEF Calls
  <2> QED BY <1>2, <2>1, GdbGoneStep DEF Load, Driven
<1>3. CASE SessionLost
  BY <1>3, GdbGoneStep DEF SessionLost, Driven
<1>4. CASE RunStateChanged
  <2>1. Head(wk.signals) \in Runs /\ Tail(wk.signals) \in Seq(Runs)
    BY <1>4 DEF RunStateChanged, Driven, Worker
  <2>2. Driven(wk')
    BY <1>4, <2>1 DEF RunStateChanged, Driven, Worker
  <2> QED BY <1>4, <2>1, <2>2 DEF RunStateChanged, Driven
<1> QED BY <1>1, <1>2, <1>3, <1>4 DEF UiStep, Calls, Runs

LEMMA GdbStepInv ==
    ASSUME IInv, GdbStep
    PROVE  IInv'
<1> USE DEF IInv, TypeOK
<1>1. CASE Connect
  BY <1>1 DEF Connect, Driven
<1>2. ASSUME NEW packet \in Packets, Request(packet)
      PROVE  IInv'
  BY <1>2 DEF Request, Driven
<1>3. CASE Interrupt
  <2>1. "ctrlC" \in Packets
    BY DEF Packets
  <2> QED BY <1>3, <2>1 DEF Interrupt, Driven
<1>4. CASE Receive
  <2>1. Tail(wk.replies) \in Seq({"stop", "reply"})
    BY <1>4 DEF Receive, Driven, Worker
  <2>2. Driven(wk')
    BY <1>4, <2>1 DEF Receive, Driven, Worker
  <2> QED BY <1>4, <2>2 DEF Receive, Driven
<1> QED BY <1>1, <1>2, <1>3, <1>4 DEF GdbStep

LEMMA Inductive ==
    ASSUME IInv, [Next]_vars
    PROVE  IInv'
<1>1. CASE Next
  BY <1>1, WorkerStepInv, UiStepInv, GdbStepInv DEF Next
<1>2. CASE UNCHANGED vars
  BY <1>2 DEF vars, IInv, TypeOK, Driven
<1> QED BY <1>1, <1>2

LEMMA Initial == Init => IInv
<1> SUFFICES ASSUME Init PROVE IInv
  OBVIOUS
<1>1. wk \in Worker
  BY DEF Init, Worker, Runs
<1> QED BY <1>1 DEF Init, IInv, TypeOK, Driven, Runs

-----------------------------------------------------------------------------
(* Sequences that hold no, or exactly one, member of a set *)

Absent(s, S) == \A i \in DOMAIN s : s[i] \notin S

Single(s, S) == \E i \in DOMAIN s : s[i] \in S /\ \A j \in DOMAIN s : s[j] \in S => j = i

LEMMA AppendAbsent ==
    ASSUME NEW T, NEW s \in Seq(T), NEW e \in T, NEW S, Absent(s, S), e \notin S
    PROVE  Absent(Append(s, e), S)
<1>1. \A i \in DOMAIN Append(s, e) : i \in DOMAIN s \/ i = Len(s) + 1
  OBVIOUS
<1>2. Append(s, e)[Len(s) + 1] = e /\ \A i \in DOMAIN s : Append(s, e)[i] = s[i]
  OBVIOUS
<1> QED BY <1>1, <1>2 DEF Absent

LEMMA AppendSingle ==
    ASSUME NEW T, NEW s \in Seq(T), NEW e \in T, NEW S,
           (Single(s, S) /\ e \notin S) \/ (Absent(s, S) /\ e \in S)
    PROVE  Single(Append(s, e), S)
<1> DEFINE t == Append(s, e)
           l == Len(s) + 1
<1>1. l \in DOMAIN t /\ l \notin DOMAIN s /\ \A i \in DOMAIN t : i \in DOMAIN s \/ i = l
  OBVIOUS
<1>2. t[l] = e /\ \A i \in DOMAIN s : i \in DOMAIN t /\ t[i] = s[i]
  OBVIOUS
<1> HIDE DEF t, l
<1>3. CASE Absent(s, S) /\ e \in S
  <2>1. \A j \in DOMAIN t : t[j] \in S => j = l
    BY <1>1, <1>2, <1>3 DEF Absent
  <2> QED BY <1>1, <1>2, <1>3, <2>1 DEF Single
<1>4. CASE Single(s, S) /\ e \notin S
  BY <1>1, <1>2, <1>4 DEF Single
<1> QED BY <1>3, <1>4 DEF t

LEMMA TailPositions ==
    ASSUME NEW T, NEW s \in Seq(T), s # <<>>
    PROVE  /\ 1 \in DOMAIN s /\ Head(s) = s[1]
           /\ \A i \in DOMAIN Tail(s) : i \in Nat /\ i + 1 \in DOMAIN s /\ Tail(s)[i] = s[i + 1]
           /\ \A i \in DOMAIN s : i # 1 => i - 1 \in DOMAIN Tail(s) /\ Tail(s)[i - 1] = s[i]
OBVIOUS

LEMMA TailAbsent ==
    ASSUME NEW T, NEW s \in Seq(T), s # <<>>, NEW S, Absent(s, S)
    PROVE  Absent(Tail(s), S) /\ Head(s) \notin S
BY TailPositions DEF Absent

LEMMA TailSingle ==
    ASSUME NEW T, NEW s \in Seq(T), s # <<>>, NEW S, Single(s, S)
    PROVE  IF Head(s) \in S THEN Absent(Tail(s), S) ELSE Single(Tail(s), S)
<1>1. PICK i \in DOMAIN s : s[i] \in S /\ \A j \in DOMAIN s : s[j] \in S => j = i
  BY DEF Single
<1>2. CASE Head(s) \in S
  <2>1. i = 1
    BY <1>1, <1>2, TailPositions
  <2>2. ASSUME NEW j \in DOMAIN Tail(s)
        PROVE  Tail(s)[j] \notin S
    <3>1. j \in Nat /\ j + 1 \in DOMAIN s /\ Tail(s)[j] = s[j + 1] /\ DOMAIN Tail(s) = 1 .. Len(s) - 1
      BY TailPositions
    <3>2. j + 1 # 1
      BY <3>1
    <3> QED BY <1>1, <2>1, <3>1, <3>2
  <2> QED BY <1>2, <2>2 DEF Absent
<1>3. CASE Head(s) \notin S
  <2>1. i # 1 /\ i - 1 \in DOMAIN Tail(s) /\ Tail(s)[i - 1] = s[i]
    BY <1>1, <1>3, TailPositions
  <2>2. ASSUME NEW j \in DOMAIN Tail(s), Tail(s)[j] \in S
        PROVE  j = i - 1
    <3>1. j \in Nat /\ j + 1 \in DOMAIN s /\ Tail(s)[j] = s[j + 1]
      BY TailPositions
    <3>2. j + 1 = i
      BY <1>1, <2>2, <3>1
    <3> QED BY <3>1, <3>2
  <2> QED BY <1>1, <1>3, <2>1, <2>2 DEF Single
<1> QED BY <1>2, <1>3

-----------------------------------------------------------------------------
(* What the worker's functions tell gdb and the UI *)

\* The last thing the UI will hear is the state of the run.
Told(w) == w.signals # <<>> => Last(w.signals) = w.run

\* w became v with no word to gdb, or with the stop reply of a resumed run.
Settled(w, v) ==
    /\ v.conn = w.conn
    /\ \/ v.stub = w.stub /\ v.replies = w.replies
       \/ /\ w.stub = "running" /\ v.stub = "stopped"
          /\ v.replies = IF w.conn = "open" THEN Append(w.replies, "stop") ELSE w.replies

LEMMA SendTalk ==
    ASSUME NEW w \in Worker, NEW a \in {"stop", "reply"}
    PROVE  /\ Send(w, a).conn = w.conn /\ Send(w, a).stub = w.stub
           /\ Send(w, a).signals = w.signals /\ Send(w, a).run = w.run
           /\ Send(w, a).replies = IF w.conn = "open" THEN Append(w.replies, a) ELSE w.replies
BY DEF Send, Worker

LEMMA StoppedTalk ==
    ASSUME NEW w \in Worker
    PROVE  /\ Settled(w, Stopped(w)) /\ Stopped(w).stub = "stopped"
           /\ Stopped(w).signals = w.signals
<1> DEFINE s == [w EXCEPT !.stub = "stopped"]
<1>1. s \in Worker /\ s.conn = w.conn /\ s.stub = "stopped" /\ s.replies = w.replies
      /\ s.signals = w.signals
  BY DEF Worker, Runs
<1> HIDE DEF s
<1>2. CASE w.stub = "stopped"
  BY <1>2 DEF Stopped, Settled
<1>3. CASE w.stub = "running"
  <2>1. Stopped(w) = Send(s, "stop")
    BY <1>3 DEF Stopped, s
  <2> QED BY <1>1, <1>3, <2>1, SendTalk DEF Settled
<1> QED BY <1>2, <1>3 DEF Worker, Runs

\* setRunning tells the UI, and gdb if a run it has resumed ends.
LEMMA SetRunningTalk ==
    ASSUME NEW w \in Worker, NEW run \in Runs
    PROVE  /\ Settled(w, SetRunning(w, run)) /\ Told(SetRunning(w, run))
           /\ SetRunning(w, run).signals # <<>>
           /\ run = "running" => /\ SetRunning(w, run).stub = w.stub
                                 /\ SetRunning(w, run).replies = w.replies
           /\ run = "stopped" => SetRunning(w, run).stub = "stopped"
<1> DEFINE v == [w EXCEPT !.run = run]
           g == NewGen(v)
           c == [g EXCEPT !.range = "none"]
           s == IF run = "stopped" THEN Stopped(c) ELSE g
           Same(x) == /\ x.conn = w.conn /\ x.stub = w.stub /\ x.replies = w.replies
                      /\ x.signals = w.signals
<1>1. v \in Worker /\ Same(v)
  BY DEF Worker
<1>2. SetRunning(w, run) = [s EXCEPT !.signals = Append(@, run)]
  BY DEF SetRunning
<1> HIDE DEF v
<1>3. g \in Worker /\ Same(g)
  BY <1>1, NewGenFacts DEF NewGen, Worker
<1> HIDE DEF g
<1>4. c \in Worker /\ Same(c)
  BY <1>3 DEF Worker
<1> HIDE DEF c
<1>5. /\ s \in Worker /\ Settled(w, s) /\ s.signals = w.signals
      /\ run = "running" => s.stub = w.stub /\ s.replies = w.replies
      /\ run = "stopped" => s.stub = "stopped"
  <2>1. CASE run = "stopped"
    BY <1>4, <2>1, StoppedTalk, StoppedFacts DEF Settled
  <2>2. CASE run = "running"
    BY <1>3, <2>2 DEF Settled
  <2> QED BY <2>1, <2>2 DEF Runs
<1> HIDE DEF s
<1> DEFINE n == Append(s.signals, run)
<1>6. n # <<>> /\ Last(n) = run
  BY <1>5 DEF Worker, Last
<1>7. SetRunning(w, run) = [s EXCEPT !.signals = n]
  BY <1>2
<1> HIDE DEF n
<1>8. /\ SetRunning(w, run).signals = n /\ SetRunning(w, run).stub = s.stub
      /\ SetRunning(w, run).conn = s.conn /\ SetRunning(w, run).replies = s.replies
  BY <1>5, <1>7 DEF Worker
<1>9. SetRunning(w, run).run = run
  BY SetRunningFacts
<1> QED BY <1>5, <1>6, <1>8, <1>9 DEF Settled, Told

LEMMA TickTalk ==
    ASSUME NEW w \in Worker, NEW stop \in QuantumEnds, Told(w)
    PROVE  /\ Settled(w, Tick(w, stop)) /\ Told(Tick(w, stop))
           /\ w.signals # <<>> => Tick(w, stop).signals # <<>>
           /\ Tick(w, stop).run # w.run => Tick(w, stop).signals # <<>>
           /\ Tick(w, stop).run = "running" =>
                 w.run = "running" /\ Tick(w, stop).stub = w.stub
<1>1. CASE w.run = "stopped"
  BY <1>1 DEF Tick, Settled
<1>2. CASE w.run # "stopped" /\ stop = "stop"
  <2>1. Tick(w, stop) = SetRunning(w, "stopped") /\ "stopped" \in Runs
    BY <1>2 DEF Tick, Runs
  <2> QED BY <2>1, SetRunningTalk, SetRunningFacts
<1>3. CASE w.run # "stopped" /\ stop # "stop"
  <2>1. Tick(w, stop) = [w EXCEPT !.live = @ + 1]
    BY <1>3 DEF Tick
  <2> QED BY <1>3, <2>1 DEF Settled, Told, Worker, Runs
<1> QED BY <1>1, <1>2, <1>3

\* A started run was announced, and belongs to gdb only if gdb asked for it.
LEMMA StartRunTalk ==
    ASSUME NEW w \in Worker, NEW stop \in QuantumEnds
    PROVE  /\ Settled(w, StartRun(w, stop)) /\ Told(StartRun(w, stop))
           /\ StartRun(w, stop).signals # <<>>
           /\ StartRun(w, stop).run = "running" => StartRun(w, stop).stub = w.stub
<1> DEFINE v == SetRunning(w, "running")
<1>1. "running" \in Runs
  BY DEF Runs
<1>2. v \in Worker
  BY <1>1, SetRunningFacts
<1>3. /\ v.conn = w.conn /\ v.stub = w.stub /\ v.replies = w.replies
      /\ Told(v) /\ v.signals # <<>>
  BY <1>1, SetRunningTalk DEF Settled
<1>4. StartRun(w, stop) = Tick(v, stop)
  BY DEF StartRun
<1> HIDE DEF v
<1> QED BY <1>2, <1>3, <1>4, TickTalk DEF Settled

LEMMA CalledTalk ==
    ASSUME NEW w \in Worker, NEW call \in Calls, NEW stop \in QuantumEnds
    PROVE  /\ Settled(w, Called(w, call, stop)) /\ Told(Called(w, call, stop))
           /\ Called(w, call, stop).signals # <<>>
           /\ call # "startRun" => Called(w, call, stop).run = "stopped"
           /\ Called(w, call, stop).run = "running" => Called(w, call, stop).stub = w.stub
<1>1. "stopped" \in Runs
  BY DEF Runs
<1>2. CASE call = "startRun"
  BY <1>2, StartRunTalk DEF Called
<1>3. CASE call # "startRun"
  BY <1>1, <1>3, SetRunningTalk, SetRunningFacts DEF Called
<1> QED BY <1>2, <1>3

-----------------------------------------------------------------------------
(* The UI hears of every change *)

Announced(w, v) == Told(v) /\ (v.signals = <<>> => w.signals = <<>> /\ v.run = w.run)

LEMMA HandledAnnounced ==
    ASSUME NEW w \in Worker, NEW packet \in Packets, NEW stop \in QuantumEnds, Told(w)
    PROVE  Announced(w, Handled(w, packet, stop))
<1>1. "stopped" \in Runs
  BY DEF Runs
<1>2. CASE w.stub = "running"
  BY <1>1, <1>2, SetRunningTalk DEF Handled, Announced
<1>3. CASE w.stub # "running" /\ packet \in {"step", "query", "ctrlC"}
  <2>1. Handled(w, packet, stop) = w \/ \E a \in {"stop", "reply"} : Handled(w, packet, stop) = Send(w, a)
    BY <1>3 DEF Handled
  <2> QED BY <2>1, SendTalk DEF Announced, Told
<1>4. CASE w.stub # "running" /\ packet = "reset"
  <2>1. Handled(w, packet, stop) = Send(SetRunning(w, "stopped"), "reply")
    BY <1>4 DEF Handled
  <2>2. SetRunning(w, "stopped") \in Worker
    BY <1>1, SetRunningFacts
  <2> QED BY <1>1, <2>1, <2>2, SendTalk, SetRunningTalk DEF Announced, Told
<1>5. CASE w.stub # "running" /\ packet \in Resumes
  <2> DEFINE r == IF packet = "range" THEN "set" ELSE "none"
             u == [w EXCEPT !.stub = "running", !.range = r]
  <2>1. u \in Worker
    BY DEF Worker, Runs
  <2>2. Handled(w, packet, stop) = StartRun(u, stop)
    BY <1>5 DEF Handled, StartResume, Resumes
  <2> HIDE DEF u
  <2> QED BY <2>1, <2>2, StartRunTalk DEF Announced
<1> QED BY <1>2, <1>3, <1>4, <1>5 DEF Packets

UiInv == Told(wk) /\ (wk.signals = <<>> /\ posts = <<>> => uiRunning = wk.run)

LEMMA UiInvInductive ==
    ASSUME IInv, UiInv, [Next]_vars
    PROVE  UiInv'
<1> USE DEF IInv, TypeOK, UiInv
<1>1. CASE TakePost
  <2>1. PICK stop \in QuantumEnds : wk' = Called(wk, Head(posts), stop)
    BY <1>1 DEF TakePost
  <2>2. Head(posts) \in Calls
    BY <1>1 DEF TakePost
  <2> QED BY <2>1, <2>2, CalledTalk
<1>2. CASE LiveTick
  <2> DEFINE w == [wk EXCEPT !.live = @ - 1]
  <2>1. PICK stop \in QuantumEnds : wk' = Tick(w, stop)
    BY <1>2 DEF LiveTick
  <2>2. w \in Worker /\ w.run = wk.run /\ w.signals = wk.signals
    <3>1. wk.live - 1 \in Nat
      BY <1>2 DEF LiveTick, Worker
    <3> QED BY <3>1 DEF Worker
  <2> HIDE DEF w
  <2>3. Told(w)
    BY <2>2 DEF Told
  <2>4. UNCHANGED <<posts, uiRunning>>
    BY <1>2 DEF LiveTick
  <2> QED BY <2>1, <2>2, <2>3, <2>4, TickTalk
<1>3. CASE Feed
  <2>1. PICK stop \in QuantumEnds : wk' = Handled(wk, Head(toStub), stop)
    BY <1>3 DEF Feed
  <2>2. Head(toStub) \in Packets /\ UNCHANGED <<posts, uiRunning>>
    BY <1>3 DEF Feed
  <2> QED BY <2>1, <2>2, HandledAnnounced DEF Announced
<1>4. CASE StaleTick \/ Disconnected \/ Accept \/ Refuse \/ SessionLost \/ Connect \/ Interrupt
           \/ (\E packet \in Packets : Request(packet)) \/ Receive
  <2>1. wk'.run = wk.run /\ wk'.signals = wk.signals /\ UNCHANGED <<posts, uiRunning>>
    BY <1>4 DEF StaleTick, Disconnected, Accept, Refuse, SessionLost, GdbGone, Connect, Interrupt,
       Request, Receive, Worker
  <2> QED BY <2>1 DEF Told
<1>5. CASE Load \/ \E call \in Calls, run \in Runs : Ask(call, run)
  <2>1. wk'.run = wk.run /\ wk'.signals = wk.signals
    BY <1>5 DEF Load, GdbGone, Ask, Worker
  <2>2. posts' # <<>>
    BY <1>5 DEF Load, Ask
  <2> QED BY <2>1, <2>2 DEF Told
<1>6. CASE RunStateChanged
  <2> DEFINE t == Tail(wk.signals)
  <2>1. wk.signals \in Seq(Runs) /\ wk.signals # <<>>
    BY <1>6 DEF RunStateChanged, Worker
  <2>2. wk'.run = wk.run /\ wk'.signals = t /\ uiRunning' = Head(wk.signals)
    BY <1>6 DEF RunStateChanged, Worker
  <2>3. t # <<>> => Last(t) = Last(wk.signals)
    BY <2>1 DEF Last
  <2>4. t = <<>> => Head(wk.signals) = Last(wk.signals)
    <3>1. Len(t) = Len(wk.signals) - 1 /\ Len(wk.signals) \in Nat
      BY <2>1
    <3>2. Len(<<>>) = 0
      OBVIOUS
    <3> HIDE DEF t
    <3>3. t = <<>> => Len(wk.signals) = 1
      BY <3>1, <3>2
    <3> QED BY <2>1, <3>3 DEF Last
  <2> QED BY <2>1, <2>2, <2>3, <2>4 DEF Told
<1>7. CASE UNCHANGED vars
  BY <1>7 DEF vars, Told
<1> QED BY <1>1, <1>2, <1>3, <1>4, <1>5, <1>6, <1>7
        DEF Next, WorkerStep, UiStep, GdbStep, Calls, Runs

-----------------------------------------------------------------------------
(* The balance of requests and answers *)

Kinds == {"reply", "stop"}

\* The packets that are answered by a stop reply, and by a reply.
Asks(k) == IF k = "reply" THEN {"query", "reset"} ELSE Resumes \cup {"step"}

Halted(w, k) == k = "stop" => w.stub = "stopped"

\* A request waits in the queue q, its run is under way, or it is answered.
Nothing(w, q, k)  == Absent(q, Asks(k)) /\ Absent(w.replies, {k}) /\ Halted(w, k)
Asked(w, q, k)    == Single(q, Asks(k)) /\ Absent(w.replies, {k}) /\ Halted(w, k)
Resumed(w, q, k)  == Absent(q, Asks(k)) /\ Absent(w.replies, {k}) /\ ~ Halted(w, k)
Answered(w, q, k) == Absent(q, Asks(k)) /\ Single(w.replies, {k}) /\ Halted(w, k)

Owing(w, q, k) == Asked(w, q, k) \/ Resumed(w, q, k) \/ Answered(w, q, k)

Balanced(w, q, wanted) ==
    \A k \in Kinds : IF wanted = k THEN Owing(w, q, k) ELSE Nothing(w, q, k)

\* A packet that asks for nothing changes no balance.
LEMMA DropBalance ==
    ASSUME NEW w, NEW q \in Seq(Packets), q # <<>>, NEW wanted,
           Balanced(w, q, wanted), Head(q) \notin Asks("reply") \cup Asks("stop")
    PROVE  Balanced(w, Tail(q), wanted)
<1> SUFFICES ASSUME NEW k \in Kinds
             PROVE  IF wanted = k THEN Owing(w, Tail(q), k) ELSE Nothing(w, Tail(q), k)
  BY DEF Balanced
<1>1. Head(q) \notin Asks(k)
  BY DEF Kinds
<1>2. Absent(q, Asks(k)) => Absent(Tail(q), Asks(k))
  BY TailAbsent
<1>3. Single(q, Asks(k)) => Single(Tail(q), Asks(k))
  BY <1>1, TailSingle
<1> QED BY <1>2, <1>3 DEF Balanced, Owing, Nothing, Asked, Resumed, Answered

\* The end of a resumed run moves its debt to the replies.
LEMMA SettledBalance ==
    ASSUME NEW w \in Worker, NEW v, NEW q, NEW wanted,
           w.conn = "open", Settled(w, v), Balanced(w, q, wanted)
    PROVE  Balanced(v, q, wanted)
<1>1. CASE v.stub = w.stub /\ v.replies = w.replies
  BY <1>1 DEF Balanced, Owing, Nothing, Asked, Resumed, Answered, Halted
<1>2. CASE w.stub = "running" /\ v.stub = "stopped" /\ v.replies = Append(w.replies, "stop")
  <2>1. w.replies \in Seq(Kinds) /\ "stop" \in Kinds /\ "reply" \in Kinds
    BY DEF Worker, Kinds
  <2>2. wanted = "stop" /\ Resumed(w, q, "stop")
    BY <1>2, <2>1 DEF Balanced, Owing, Nothing, Asked, Answered, Halted
  <2>3. Answered(v, q, "stop")
    <3>1. Single(v.replies, {"stop"})
      BY <1>2, <2>1, <2>2, AppendSingle DEF Resumed
    <3> QED BY <1>2, <2>2, <3>1 DEF Answered, Resumed, Halted
  <2>4. Nothing(v, q, "reply")
    <3>1. Nothing(w, q, "reply")
      BY <2>1, <2>2 DEF Balanced
    <3>2. Absent(v.replies, {"reply"})
      BY <1>2, <2>1, <3>1, AppendAbsent DEF Nothing
    <3> QED BY <3>1, <3>2 DEF Nothing, Halted
  <2> QED BY <2>2, <2>3, <2>4 DEF Balanced, Owing, Kinds
<1> QED BY <1>1, <1>2 DEF Settled

\* Whoever asks is wanted, and nothing else of the kind is under way.
LEMMA AskedByHead ==
    ASSUME NEW w, NEW q \in Seq(Packets), q # <<>>, NEW wanted, NEW k \in Kinds,
           Balanced(w, q, wanted), Head(q) \in Asks(k)
    PROVE  wanted = k /\ Asked(w, q, k) /\ Absent(Tail(q), Asks(k))
<1>1. ~ Absent(q, Asks(k))
  BY TailAbsent
<1>2. wanted = k /\ Asked(w, q, k)
  BY <1>1 DEF Balanced, Owing, Nothing, Resumed, Answered
<1> QED BY <1>2, TailSingle DEF Asked

LEMMA OtherKind ==
    ASSUME NEW w, NEW q \in Seq(Packets), q # <<>>, NEW wanted, NEW k \in Kinds, wanted # k,
           Balanced(w, q, wanted)
    PROVE  /\ Nothing(w, q, k) /\ Absent(Tail(q), Asks(k)) /\ Head(q) \notin Asks(k)
BY TailAbsent DEF Balanced, Nothing

\* A request that is answered at once.
LEMMA AnswerBalance ==
    ASSUME NEW w \in Worker, NEW v, NEW q \in Seq(Packets), q # <<>>, NEW wanted,
           NEW k \in Kinds, Balanced(w, q, wanted), Head(q) \in Asks(k),
           w.stub = "stopped", v.stub = "stopped", v.replies = Append(w.replies, k)
    PROVE  Balanced(v, Tail(q), wanted)
<1>1. wanted = k /\ Asked(w, q, k) /\ Absent(Tail(q), Asks(k))
  BY AskedByHead
<1>2. w.replies \in Seq(Kinds)
  BY DEF Worker, Kinds
<1>3. Answered(v, Tail(q), k)
  <2>1. Single(v.replies, {k})
    BY <1>1, <1>2, AppendSingle DEF Asked
  <2> QED BY <1>1, <2>1 DEF Answered, Halted
<1>4. ASSUME NEW l \in Kinds, l # k
      PROVE  Nothing(v, Tail(q), l)
  <2>1. Nothing(w, q, l) /\ Absent(Tail(q), Asks(l))
    BY <1>1, <1>4, OtherKind
  <2>2. Absent(v.replies, {l})
    BY <1>2, <1>4, <2>1, AppendAbsent DEF Nothing
  <2> QED BY <2>1, <2>2 DEF Nothing, Halted
<1> QED BY <1>1, <1>3, <1>4 DEF Balanced, Owing

\* A resume whose run goes on.
LEMMA ResumeBalance ==
    ASSUME NEW w \in Worker, NEW v, NEW q \in Seq(Packets), q # <<>>, NEW wanted,
           Balanced(w, q, wanted), Head(q) \in Asks("stop"),
           v.stub = "running", v.replies = w.replies
    PROVE  Balanced(v, Tail(q), wanted)
<1>0. "stop" \in Kinds /\ "reply" \in Kinds
  BY DEF Kinds
<1>1. wanted = "stop" /\ Asked(w, q, "stop") /\ Absent(Tail(q), Asks("stop"))
  BY <1>0, AskedByHead
<1>2. Resumed(v, Tail(q), "stop")
  BY <1>1 DEF Resumed, Asked, Halted
<1>3. Nothing(v, Tail(q), "reply")
  <2>1. Nothing(w, q, "reply") /\ Absent(Tail(q), Asks("reply"))
    BY <1>0, <1>1, OtherKind
  <2> QED BY <2>1 DEF Nothing, Halted
<1> QED BY <1>1, <1>2, <1>3 DEF Balanced, Owing, Kinds

LEMMA HandledBalance ==
    ASSUME NEW w \in Worker, NEW q \in Seq(Packets), q # <<>>, NEW wanted,
           NEW stop \in QuantumEnds, w.conn = "open", Balanced(w, q, wanted)
    PROVE  /\ Balanced(Handled(w, Head(q), stop), Tail(q), wanted)
           /\ Handled(w, Head(q), stop).conn = "open"
<1> DEFINE p == Head(q)
           v == Handled(w, p, stop)
<1>1. p \in Packets /\ "stopped" \in Runs /\ "stop" \in Kinds /\ "reply" \in Kinds
  BY DEF Runs, Kinds
<1>2. CASE w.stub = "running"
  <2>1. p \notin Asks("reply") \cup Asks("stop")
    BY <1>1, <1>2, AskedByHead DEF Asked, Halted, Balanced, Nothing, Owing
  <2>2. p = "ctrlC"
    BY <1>1, <2>1 DEF Asks, Packets, Resumes
  <2>3. v = SetRunning(w, "stopped")
    BY <1>2, <2>2 DEF Handled
  <2>4. Settled(w, v)
    BY <1>1, <2>3, SetRunningTalk
  <2>5. Balanced(w, Tail(q), wanted)
    BY <2>1, DropBalance
  <2> QED BY <2>4, <2>5, SettledBalance DEF Settled
<1>3. CASE w.stub = "stopped" /\ p = "ctrlC"
  <2>1. v = w
    BY <1>3 DEF Handled
  <2>2. p \notin Asks("reply") \cup Asks("stop")
    BY <1>3 DEF Asks, Resumes
  <2> QED BY <2>1, <2>2, DropBalance
<1>4. CASE w.stub = "stopped" /\ p \in {"step", "query"}
  <2> DEFINE k == IF p = "step" THEN "stop" ELSE "reply"
  <2>1. k \in Kinds /\ p \in Asks(k) /\ v = Send(w, k)
    BY <1>4 DEF Handled, Kinds, Asks
  <2>2. v.stub = "stopped" /\ v.replies = Append(w.replies, k) /\ v.conn = "open"
    BY <1>4, <2>1, SendTalk DEF Kinds
  <2> HIDE DEF k
  <2> QED BY <1>4, <2>1, <2>2, AnswerBalance
<1>5. CASE w.stub = "stopped" /\ p = "reset"
  <2> DEFINE u == SetRunning(w, "stopped")
  <2>1. u \in Worker /\ u.conn = "open" /\ u.stub = "stopped" /\ u.replies = w.replies
    BY <1>1, <1>5, SetRunningFacts, SetRunningTalk DEF Settled
  <2>2. v = Send(u, "reply")
    BY <1>5 DEF Handled
  <2> HIDE DEF u
  <2>3. v.stub = "stopped" /\ v.replies = Append(w.replies, "reply") /\ v.conn = "open"
    BY <2>1, <2>2, SendTalk
  <2>4. p \in Asks("reply")
    BY <1>5 DEF Asks
  <2> QED BY <1>1, <1>5, <2>3, <2>4, AnswerBalance
<1>6. CASE w.stub = "stopped" /\ p \in Resumes
  <2> DEFINE r == IF p = "range" THEN "set" ELSE "none"
             u == [w EXCEPT !.stub = "running", !.range = r]
  <2>1. u \in Worker /\ u.conn = "open" /\ u.stub = "running" /\ u.replies = w.replies
    BY DEF Worker, Runs
  <2>2. v = StartRun(u, stop)
    BY <1>6 DEF Handled, StartResume, Resumes
  <2> HIDE DEF u
  <2>3. Settled(u, v)
    BY <2>1, <2>2, StartRunTalk
  <2>4. p \in Asks("stop")
    BY <1>6 DEF Asks
  <2>5. CASE v.stub = "running" /\ v.replies = w.replies
    BY <2>1, <2>3, <2>4, <2>5, ResumeBalance DEF Settled
  <2>6. CASE v.stub = "stopped" /\ v.replies = Append(w.replies, "stop")
    BY <1>1, <1>6, <2>1, <2>3, <2>4, <2>6, AnswerBalance DEF Settled
  <2> QED BY <2>1, <2>3, <2>5, <2>6 DEF Settled
<1>7. w.stub \in Runs
  BY DEF Worker
<1> QED BY <1>1, <1>2, <1>3, <1>4, <1>5, <1>6, <1>7 DEF Packets, Runs

-----------------------------------------------------------------------------
(* The connection and the session *)

GdbInv ==
    /\ wk.conn = "open" => Balanced(wk, toStub, want) /\ session \in {"connecting", "on"}
    /\ wk.conn # "open" => wk.replies = <<>> /\ want = "none" /\ session # "on"
    /\ wk.conn = "none" => toStub = <<>>
    /\ \/ Absent(backlog, {"alive"})
       \/ Single(backlog, {"alive"}) /\ session = "connecting" /\ wk.conn # "open"

LEMMA HandledUnheard ==
    ASSUME NEW w \in Worker, NEW packet \in Packets, NEW stop \in QuantumEnds, w.conn # "open"
    PROVE  /\ Handled(w, packet, stop).conn = w.conn
           /\ Handled(w, packet, stop).replies = w.replies
<1> DEFINE v == Handled(w, packet, stop)
           Same(x) == x.conn = w.conn /\ x.replies = w.replies
           s == SetRunning(w, "stopped")
<1>1. s \in Worker /\ Same(s)
  BY SetRunningFacts, SetRunningTalk DEF Runs, Settled
<1>2. Send(w, "stop") = w /\ Send(w, "reply") = w /\ Send(s, "reply") = s
  BY <1>1 DEF Send
<1>3. CASE packet \in Resumes /\ w.stub # "running"
  <2> DEFINE r == IF packet = "range" THEN "set" ELSE "none"
             u == [w EXCEPT !.stub = "running", !.range = r]
  <2>1. u \in Worker /\ Same(u)
    BY DEF Worker, Runs
  <2>2. v = StartRun(u, stop)
    BY <1>3 DEF Handled, StartResume, Resumes
  <2> HIDE DEF u
  <2> QED BY <2>1, <2>2, StartRunTalk DEF Settled
<1>4. CASE packet \notin Resumes \/ w.stub = "running"
  BY <1>1, <1>2, <1>4 DEF Handled, Packets
<1> QED BY <1>3, <1>4

\* Steps that the connection sees as nothing, or as the end of a resumed run.
LEMMA SettledInv ==
    ASSUME IInv, GdbInv, Settled(wk, wk'), UNCHANGED <<session, backlog, want, toStub>>
    PROVE  GdbInv'
<1>1. wk \in Worker
  BY DEF IInv, TypeOK
<1>2. wk.conn = "open" => Balanced(wk', toStub, want)
  BY <1>1, SettledBalance DEF GdbInv
<1>3. wk.conn # "open" => wk'.replies = wk.replies
  BY DEF Settled
<1> QED BY <1>2, <1>3 DEF GdbInv, Settled

LEMMA WorkerStepGdbInv ==
    ASSUME IInv, GdbInv, WorkerStep
    PROVE  GdbInv'
<1> USE DEF IInv, TypeOK
<1>1. CASE TakePost
  <2>1. PICK stop \in QuantumEnds : wk' = Called(wk, Head(posts), stop)
    BY <1>1 DEF TakePost
  <2>2. Head(posts) \in Calls
    BY <1>1 DEF TakePost
  <2>3. Settled(wk, wk')
    BY <2>1, <2>2, CalledTalk
  <2> QED BY <1>1, <2>3, SettledInv DEF TakePost
<1>2. CASE LiveTick
  <2> DEFINE w == [wk EXCEPT !.live = @ - 1]
  <2>1. PICK stop \in QuantumEnds : wk' = Tick(w, stop)
    BY <1>2 DEF LiveTick
  <2>2. /\ w \in Worker /\ w.conn = wk.conn /\ w.stub = wk.stub /\ w.replies = wk.replies
        /\ w.run = wk.run
    <3>1. wk.live - 1 \in Nat
      BY <1>2 DEF LiveTick, Worker
    <3> QED BY <3>1 DEF Worker
  <2> HIDE DEF w
  <2>3. Settled(w, wk')
    <3>1. CASE w.run = "stopped"
      BY <2>1, <3>1 DEF Tick, Settled
    <3>2. CASE w.run # "stopped" /\ wk' = SetRunning(w, "stopped")
      BY <2>2, <3>2, SetRunningTalk DEF Runs
    <3>3. CASE w.run # "stopped" /\ wk' = [w EXCEPT !.live = @ + 1]
      BY <2>2, <3>3 DEF Settled, Worker
    <3> QED BY <2>1, <3>1, <3>2, <3>3 DEF Tick
  <2>4. Settled(wk, wk')
    BY <2>2, <2>3 DEF Settled
  <2> QED BY <1>2, <2>4, SettledInv DEF LiveTick
<1>3. CASE StaleTick
  <2>1. Settled(wk, wk')
    BY <1>3 DEF StaleTick, Settled, Worker
  <2> QED BY <1>3, <2>1, SettledInv DEF StaleTick
<1>4. CASE Feed
  <2>1. PICK stop \in QuantumEnds : wk' = Handled(wk, Head(toStub), stop)
    BY <1>4 DEF Feed
  <2>2. toStub # <<>> /\ Head(toStub) \in Packets /\ wk.conn # "none"
    BY <1>4 DEF Feed
  <2>3. toStub' = Tail(toStub) /\ UNCHANGED <<session, backlog, want>>
    BY <1>4 DEF Feed
  <2>4. CASE wk.conn = "open"
    <3>1. Balanced(wk', toStub', want) /\ wk'.conn = "open"
      BY <2>1, <2>2, <2>3, <2>4, HandledBalance DEF GdbInv
    <3> QED BY <2>3, <2>4, <3>1 DEF GdbInv
  <2>5. CASE wk.conn # "open"
    <3>1. wk'.conn = wk.conn /\ wk'.replies = wk.replies
      BY <2>1, <2>2, <2>5, HandledUnheard
    <3> QED BY <2>2, <2>3, <2>5, <3>1 DEF GdbInv
  <2> QED BY <2>4, <2>5
<1>5. CASE Disconnected
  BY <1>5 DEF Disconnected, GdbInv, Worker
<1>6. CASE Accept
  <2>1. backlog # <<>> /\ wk.conn = "none" /\ backlog' = Tail(backlog) /\ UNCHANGED session
    BY <1>6 DEF Accept
  <2>2. toStub = <<>> /\ wk.replies = <<>> /\ want = "none" /\ session # "on"
    BY <2>1 DEF GdbInv
  <2>3. CASE Head(backlog) = "alive"
    <3>1. ~ Absent(backlog, {"alive"})
      BY <2>1, <2>3, TailAbsent
    <3>2. session = "connecting" /\ Absent(backlog', {"alive"})
      BY <2>1, <2>3, <3>1, TailSingle DEF GdbInv
    <3>3. /\ wk'.conn = "open" /\ wk'.stub = "stopped" /\ wk'.replies = <<>>
          /\ want' = "reply" /\ toStub' = <<"query">>
      BY <1>6, <2>2, <2>3 DEF Accept, Worker
    <3>4. Asked(wk', toStub', "reply")
      BY <3>3 DEF Asked, Single, Absent, Asks, Halted
    <3>5. Nothing(wk', toStub', "stop")
      BY <3>3 DEF Nothing, Absent, Asks, Halted, Resumes
    <3>6. Balanced(wk', toStub', want')
      BY <3>3, <3>4, <3>5 DEF Balanced, Owing, Kinds
    <3> QED BY <2>1, <3>2, <3>3, <3>6 DEF GdbInv
  <2>4. CASE Head(backlog) # "alive"
    <3>1. wk'.conn = "ended" /\ wk'.replies = <<>> /\ UNCHANGED <<want, toStub>>
      BY <1>6, <2>2, <2>4 DEF Accept, Worker
    <3>2. \/ Absent(backlog', {"alive"})
          \/ Single(backlog', {"alive"}) /\ session = "connecting"
      BY <2>1, <2>4, TailAbsent, TailSingle DEF GdbInv
    <3> QED BY <2>1, <2>2, <3>1, <3>2 DEF GdbInv
  <2> QED BY <2>3, <2>4
<1>7. CASE Refuse
  <2>1. backlog # <<>> /\ wk.conn # "none" /\ backlog' = Tail(backlog)
        /\ UNCHANGED <<wk, want, toStub>>
    BY <1>7 DEF Refuse
  <2>2. CASE Head(backlog) = "alive"
    <3>1. ~ Absent(backlog, {"alive"})
      BY <2>1, <2>2, TailAbsent
    <3>2. wk.conn # "open" /\ Absent(backlog', {"alive"}) /\ session' = "off"
      BY <1>7, <2>1, <2>2, <3>1, TailSingle DEF GdbInv, Refuse
    <3> QED BY <2>1, <3>2 DEF GdbInv
  <2>3. CASE Head(backlog) # "alive"
    <3>1. session' = session
      BY <1>7, <2>3 DEF Refuse
    <3>2. \/ Absent(backlog', {"alive"})
          \/ Single(backlog', {"alive"}) /\ session = "connecting" /\ wk.conn # "open"
      BY <2>1, <2>3, TailAbsent, TailSingle DEF GdbInv
    <3> QED BY <2>1, <3>1, <3>2 DEF GdbInv
  <2> QED BY <2>2, <2>3
<1> QED BY <1>1, <1>2, <1>3, <1>4, <1>5, <1>6, <1>7 DEF WorkerStep

\* With gdb its connection, its answers and what it waits for are gone.
LEMMA GdbGoneGdbInv ==
    ASSUME IInv, GdbInv, GdbGone, session' \in {"off", "starting"}
    PROVE  GdbInv'
<1>1. /\ wk'.conn # "open" /\ wk'.replies = <<>>
      /\ wk'.conn = "none" => wk.conn = "none"
  BY DEF GdbGone, GdbInv, IInv, TypeOK, Worker
<1>2. Absent(backlog', {"alive"})
  BY DEF GdbGone, Absent
<1> QED BY <1>1, <1>2 DEF GdbGone, GdbInv

LEMMA UiStepGdbInv ==
    ASSUME IInv, GdbInv, UiStep
    PROVE  GdbInv'
<1>1. CASE \E call \in Calls, run \in Runs : Ask(call, run)
  BY <1>1 DEF Ask, GdbInv
<1>2. CASE Load \/ SessionLost
  BY <1>2, GdbGoneGdbInv DEF Load, SessionLost
<1>3. CASE RunStateChanged
  <2>1. Settled(wk, wk')
    BY <1>3 DEF RunStateChanged, Settled, IInv, TypeOK, Worker
  <2> QED BY <1>3, <2>1, SettledInv DEF RunStateChanged
<1> QED BY <1>1, <1>2, <1>3 DEF UiStep, Calls, Runs

LEMMA GdbStepGdbInv ==
    ASSUME IInv, GdbInv, GdbStep
    PROVE  GdbInv'
<1> USE DEF IInv, TypeOK
<1>1. CASE Connect
  <2>1. session = "starting" /\ session' = "connecting" /\ wk.conn # "open"
        /\ UNCHANGED <<wk, want, toStub>>
    BY <1>1 DEF Connect, GdbInv
  <2>2. Absent(backlog, {"alive"}) /\ backlog' = Append(backlog, "alive")
    BY <1>1, <2>1 DEF Connect, GdbInv
  <2>3. Single(backlog', {"alive"})
    BY <2>2, AppendSingle
  <2> QED BY <2>1, <2>3 DEF GdbInv
<1>2. ASSUME NEW packet \in Packets \ {"ctrlC"}, Request(packet)
      PROVE  GdbInv'
  <2> DEFINE k == IF packet \in {"query", "reset"} THEN "reply" ELSE "stop"
  <2>1. /\ session = "on" /\ wk.conn = "open" /\ want = "none" /\ want' = k
        /\ toStub' = Append(toStub, packet) /\ UNCHANGED <<wk, session, backlog>>
    BY <1>2 DEF Request, GdbInv
  <2>2. packet \in Asks(k) /\ \A l \in Kinds : l # k => packet \notin Asks(l)
    BY DEF Asks, Kinds, Packets, Resumes
  <2>3. k \in Kinds
    BY DEF Kinds
  <2> HIDE DEF k
  <2>4. \A l \in Kinds : Nothing(wk, toStub, l)
    BY <2>1 DEF GdbInv, Balanced, Kinds
  <2>5. Asked(wk, toStub', k)
    BY <2>1, <2>2, <2>3, <2>4, AppendSingle DEF Nothing, Asked
  <2>6. \A l \in Kinds : l # k => Nothing(wk, toStub', l)
    BY <2>1, <2>2, <2>4, AppendAbsent DEF Nothing
  <2>7. Balanced(wk, toStub', want')
    BY <2>1, <2>5, <2>6 DEF Balanced, Owing
  <2> QED BY <2>1, <2>7 DEF GdbInv
<1>3. CASE Interrupt
  <2>1. /\ wk.conn = "open" /\ toStub' = Append(toStub, "ctrlC")
        /\ UNCHANGED <<wk, session, backlog, want>>
    BY <1>3 DEF Interrupt, GdbInv
  <2>2. "ctrlC" \in Packets /\ \A k \in Kinds : "ctrlC" \notin Asks(k)
    BY DEF Packets, Asks, Kinds, Resumes
  <2>3. ASSUME NEW k \in Kinds
        PROVE  /\ Absent(toStub, Asks(k)) => Absent(toStub', Asks(k))
               /\ Single(toStub, Asks(k)) => Single(toStub', Asks(k))
    BY <2>1, <2>2, AppendAbsent, AppendSingle
  <2>4. Balanced(wk, toStub', want)
    BY <2>1, <2>3 DEF GdbInv, Balanced, Owing, Nothing, Asked, Resumed, Answered
  <2> QED BY <2>1, <2>4 DEF GdbInv
<1>4. CASE Receive
  <2> DEFINE a == Head(wk.replies)
  <2>1. /\ wk.conn = "open" /\ wk.replies # <<>> /\ wk.replies \in Seq(Kinds)
        /\ UNCHANGED <<backlog, toStub>> /\ want' = "none" /\ session' = "on"
    BY <1>4 DEF Receive, Worker, Kinds
  <2>2. wk'.conn = "open" /\ wk'.stub = wk.stub /\ wk'.replies = Tail(wk.replies)
    BY <1>4, <2>1 DEF Receive, Worker
  <2>3. a \in Kinds
    BY <2>1
  <2>4. ~ Absent(wk.replies, {a})
    BY <2>1, TailAbsent
  <2> HIDE DEF a
  <2>5. want = a /\ Answered(wk, toStub, a)
    BY <2>1, <2>3, <2>4 DEF GdbInv, Balanced, Owing, Nothing, Asked, Resumed
  <2>6. Nothing(wk', toStub, a)
    <3>1. Absent(wk'.replies, {a})
      BY <2>1, <2>2, <2>5, TailSingle DEF Answered, a
    <3> QED BY <2>2, <2>5, <3>1 DEF Nothing, Answered, Halted
  <2>7. ASSUME NEW k \in Kinds, k # a
        PROVE  Nothing(wk', toStub, k)
    <3>1. Nothing(wk, toStub, k)
      BY <2>1, <2>5, <2>7 DEF GdbInv, Balanced
    <3>2. Absent(wk'.replies, {k})
      BY <2>1, <2>2, <3>1, TailAbsent DEF Nothing
    <3> QED BY <2>2, <3>1, <3>2 DEF Nothing, Halted
  <2>8. Balanced(wk', toStub, "none")
    BY <2>6, <2>7 DEF Balanced, Kinds
  <2> QED BY <2>1, <2>2, <2>8 DEF GdbInv
<1> QED BY <1>1, <1>2, <1>3, <1>4 DEF GdbStep

LEMMA GdbInvInitial == Init => GdbInv
<1> SUFFICES ASSUME Init PROVE GdbInv
  OBVIOUS
<1>1. Absent(backlog, {"alive"})
  BY DEF Init, Absent
<1> QED BY <1>1 DEF Init, GdbInv

LEMMA GdbInvInductive ==
    ASSUME IInv, GdbInv, [Next]_vars
    PROVE  GdbInv'
<1>1. CASE Next
  BY <1>1, WorkerStepGdbInv, UiStepGdbInv, GdbStepGdbInv DEF Next
<1>2. CASE UNCHANGED vars
  BY <1>2 DEF vars, GdbInv
<1> QED BY <1>1, <1>2

-----------------------------------------------------------------------------
(* From the balance to the count of answers *)

LEMMA Count ==
    ASSUME NEW s, NEW S
    PROVE  /\ Absent(s, S) => Cardinality({i \in DOMAIN s : s[i] \in S}) = 0
           /\ Single(s, S) => Cardinality({i \in DOMAIN s : s[i] \in S}) = 1
<1> DEFINE P == {i \in DOMAIN s : s[i] \in S}
<1>1. ASSUME Absent(s, S) PROVE Cardinality(P) = 0
  <2>1. P = {}
    BY <1>1 DEF Absent
  <2> QED BY <2>1, FS_EmptySet
<1>2. ASSUME Single(s, S) PROVE Cardinality(P) = 1
  <2>1. PICK i : P = {i}
    BY <1>2 DEF Single
  <2> QED BY <2>1, FS_Singleton
<1> QED BY <1>1, <1>2

LEMMA BalanceCounts ==
    ASSUME NEW k \in Kinds, IF want = k THEN Owing(wk, toStub, k) ELSE Nothing(wk, toStub, k)
    PROVE  /\ Owed(Asks(k), k) \in Nat
           /\ Owed(Asks(k), k) + (IF Halted(wk, k) THEN 0 ELSE 1) = IF want = k THEN 1 ELSE 0
<1> DEFINE asked == Cardinality({i \in DOMAIN toStub : toStub[i] \in Asks(k)})
           told == Cardinality({i \in DOMAIN wk.replies : wk.replies[i] = k})
<1>1. {i \in DOMAIN wk.replies : wk.replies[i] = k} = {i \in DOMAIN wk.replies : wk.replies[i] \in {k}}
  OBVIOUS
<1>2. /\ Absent(toStub, Asks(k)) => asked = 0
      /\ Single(toStub, Asks(k)) => asked = 1
      /\ Absent(wk.replies, {k}) => told = 0
      /\ Single(wk.replies, {k}) => told = 1
  BY <1>1, Count
<1>3. Owed(Asks(k), k) = asked + told
  BY DEF Owed
<1> HIDE DEF asked, told
<1>4. CASE want = k
  BY <1>2, <1>3, <1>4 DEF Owing, Asked, Resumed, Answered
<1>5. CASE want # k
  BY <1>2, <1>3, <1>5 DEF Nothing
<1> QED BY <1>4, <1>5

LEMMA GdbInvAnswers ==
    ASSUME IInv, GdbInv
    PROVE  OneAnswer
<1> SUFFICES ASSUME wk.conn = "open"
             PROVE  /\ Owed({"query", "reset"}, "reply") = IF want = "reply" THEN 1 ELSE 0
                    /\ Owed(Resumes \cup {"step"}, "stop") + (IF wk.stub = "running" THEN 1 ELSE 0)
                          = IF want = "stop" THEN 1 ELSE 0
  BY DEF OneAnswer
<1>1. /\ Asks("reply") = {"query", "reset"} /\ Asks("stop") = Resumes \cup {"step"}
      /\ "reply" \in Kinds /\ "stop" \in Kinds
  BY DEF Asks, Kinds
<1>2. Balanced(wk, toStub, want)
  BY DEF GdbInv
<1>3. Owed(Asks("reply"), "reply") = IF want = "reply" THEN 1 ELSE 0
  <2>1. Halted(wk, "reply")
    BY DEF Halted
  <2>2. Owed(Asks("reply"), "reply") + 0 = IF want = "reply" THEN 1 ELSE 0
    BY <1>1, <1>2, <2>1, BalanceCounts DEF Balanced
  <2>3. Owed(Asks("reply"), "reply") \in Nat
    BY <1>1, <1>2, BalanceCounts DEF Balanced
  <2> QED BY <2>2, <2>3
<1>4. Owed(Asks("stop"), "stop") + (IF wk.stub = "running" THEN 1 ELSE 0) = IF want = "stop" THEN 1 ELSE 0
  <2>1. Halted(wk, "stop") <=> ~ (wk.stub = "running")
    BY DEF IInv, TypeOK, Worker, Runs, Halted
  <2> QED BY <1>1, <1>2, <2>1, BalanceCounts DEF Balanced
<1> QED BY <1>1, <1>3, <1>4

-----------------------------------------------------------------------------
(* A session starts with a reload, which undoes every Run before it *)

Loading == \E i \in DOMAIN posts : posts[i] = "loadPath"

Idle == wk.run = "stopped" \/ (wk.stub = "running" /\ want = "stop")

SessionInv ==
    session # "off" =>
        /\ \A i \in DOMAIN posts : posts[i] = "startRun" =>
              \E j \in DOMAIN posts : j > i /\ posts[j] = "loadPath"
        /\ ~ Loading => Idle
        /\ ~ Loading /\ wk.conn = "ended" => toStub = <<>>

\* Steps that leave the calls alone.
LEMMA IdleInv ==
    ASSUME SessionInv, UNCHANGED posts,
           session' # "off" => session # "off",
           session' # "off" /\ ~ Loading =>
               (Idle => Idle') /\ (wk'.conn = "ended" => toStub' = <<>>)
    PROVE  SessionInv'
BY DEF SessionInv, Loading

LEMMA TakePostSession ==
    ASSUME IInv, SessionInv, TakePost
    PROVE  SessionInv'
<1> USE DEF IInv, TypeOK
<1> SUFFICES ASSUME session # "off"
             PROVE  SessionInv'
  BY DEF SessionInv, TakePost
<1>1. PICK stop \in QuantumEnds : wk' = Called(wk, Head(posts), stop)
  BY DEF TakePost
<1>2. /\ posts # <<>> /\ posts' = Tail(posts) /\ Head(posts) \in Calls /\ toStub' = toStub
      /\ wk.conn = "ended" /\ toStub # <<>> => Head(posts) = "reset"
  BY DEF TakePost
<1>3. /\ wk'.conn = wk.conn
      /\ Head(posts) # "startRun" => wk'.run = "stopped"
  BY <1>1, <1>2, CalledTalk DEF Settled
<1>4. ASSUME NEW i \in DOMAIN posts', posts'[i] = "startRun"
      PROVE  \E j \in DOMAIN posts' : j > i /\ posts'[j] = "loadPath"
  <2>1. i \in Nat /\ i + 1 \in DOMAIN posts /\ posts[i + 1] = "startRun"
    BY <1>2, <1>4, TailPositions
  <2>2. PICK j \in DOMAIN posts : j > i + 1 /\ posts[j] = "loadPath"
    BY <2>1 DEF SessionInv
  <2>3. j \in Nat /\ j # 1 /\ j - 1 > i
    BY <2>1, <2>2
  <2>4. j - 1 \in DOMAIN posts' /\ posts'[j - 1] = "loadPath"
    BY <1>2, <2>2, <2>3, TailPositions
  <2> QED BY <2>3, <2>4
<1>5. ASSUME ~ Loading'
      PROVE  Head(posts) # "startRun" /\ (Loading => Head(posts) = "loadPath")
  <2>1. ASSUME NEW j \in DOMAIN posts, posts[j] = "loadPath", j # 1
        PROVE  FALSE
    <3>1. j - 1 \in DOMAIN posts' /\ posts'[j - 1] = "loadPath"
      BY <1>2, <2>1, TailPositions
    <3> QED BY <1>5, <3>1 DEF Loading
  <2>2. 1 \in DOMAIN posts /\ Head(posts) = posts[1] /\ ~ (1 > 1)
    BY <1>2, TailPositions
  <2>3. posts[1] # "startRun"
    BY <2>1, <2>2 DEF SessionInv
  <2> QED BY <2>1, <2>2, <2>3 DEF Loading
<1>6. ~ Loading' => Idle'
  BY <1>3, <1>5 DEF Idle
<1>7. ~ Loading' /\ wk'.conn = "ended" => toStub' = <<>>
  BY <1>2, <1>3, <1>5 DEF SessionInv
<1> QED BY <1>4, <1>6, <1>7 DEF SessionInv

\* A packet starts the machine only for a gdb that then waits for a stop.
LEMMA FeedSession ==
    ASSUME IInv, GdbInv, SessionInv, Feed
    PROVE  SessionInv'
<1> USE DEF IInv, TypeOK
<1> SUFFICES ASSUME session # "off", ~ Loading
             PROVE  (Idle => Idle') /\ (wk'.conn = "ended" => toStub' = <<>>)
  BY IdleInv DEF Feed
<1>1. PICK stop \in QuantumEnds : wk' = Handled(wk, Head(toStub), stop)
  BY DEF Feed
<1>2. toStub # <<>> /\ Head(toStub) \in Packets /\ wk.conn \in {"none", "open", "ended"}
      /\ wk.conn # "none" /\ want' = want
  BY DEF Feed, Worker
<1>3. wk.conn = "open"
  BY <1>2 DEF SessionInv
<1>4. wk'.conn = "open" /\ Balanced(wk, toStub, want)
  BY <1>1, <1>2, <1>3, HandledBalance DEF GdbInv
<1> DEFINE p == Head(toStub)
           s == SetRunning(wk, "stopped")
<1>5. s \in Worker /\ s.run = "stopped"
  BY SetRunningFacts DEF Runs
<1>6. ASSUME Idle PROVE Idle'
  <2>1. CASE wk.stub = "running"
    BY <1>1, <1>2, <1>5, <1>6, <2>1 DEF Handled, Idle
  <2>2. CASE wk.stub # "running" /\ p \in Resumes
    <3> DEFINE r == IF p = "range" THEN "set" ELSE "none"
               u == [wk EXCEPT !.stub = "running", !.range = r]
    <3>1. u \in Worker /\ u.stub = "running"
      BY DEF Worker, Runs
    <3>2. wk' = StartRun(u, stop)
      BY <1>1, <2>2 DEF Handled, StartResume, Resumes
    <3> HIDE DEF u
    <3>3. StartRun(u, stop) \in Worker /\ (StartRun(u, stop).run = "running" => StartRun(u, stop).stub = "running")
      BY <3>1, StartRunTalk, StartRunFacts DEF Driven
    <3>4. want = "stop"
      <4>1. p \in Asks("stop") /\ "stop" \in Kinds
        BY <2>2 DEF Asks, Kinds
      <4> QED BY <1>2, <1>4, <4>1, AskedByHead
    <3> QED BY <1>2, <3>2, <3>3, <3>4 DEF Idle, Worker, Runs
  <2>3. CASE wk.stub # "running" /\ p \notin Resumes
    <3>1. wk.run = "stopped"
      BY <1>6, <2>3 DEF Idle
    <3>2. wk' \in {wk, Send(wk, "stop"), Send(wk, "reply"), Send(s, "reply")}
      BY <1>1, <1>2, <2>3 DEF Handled, Packets
    <3> QED BY <1>5, <3>1, <3>2, SendTalk DEF Idle
  <2> QED BY <2>1, <2>2, <2>3
<1> QED BY <1>4, <1>6

LEMMA SessionInvInductive ==
    ASSUME IInv, UiInv, GdbInv, SessionInv, [Next]_vars
    PROVE  SessionInv'
<1> USE DEF IInv, TypeOK
<1>1. CASE TakePost
  BY <1>1, TakePostSession
<1>2. CASE LiveTick
  <2> DEFINE w == [wk EXCEPT !.live = @ - 1]
  <2>1. PICK stop \in QuantumEnds : wk' = Tick(w, stop)
    BY <1>2 DEF LiveTick
  <2>2. /\ w \in Worker /\ w.conn = wk.conn /\ w.stub = wk.stub /\ w.run = wk.run
        /\ w.signals = wk.signals
    <3>1. wk.live - 1 \in Nat
      BY <1>2 DEF LiveTick, Worker
    <3> QED BY <3>1 DEF Worker
  <2>3. Told(w)
    BY <2>2 DEF UiInv, Told
  <2> HIDE DEF w
  <2>4. /\ wk'.conn = wk.conn
        /\ wk'.run = "running" => wk.run = "running" /\ wk'.stub = wk.stub
    BY <2>1, <2>2, <2>3, TickTalk DEF Settled
  <2>5. wk'.run \in Runs
    BY Inductive DEF Worker
  <2>6. UNCHANGED <<posts, session, want, toStub>>
    BY <1>2 DEF LiveTick
  <2>7. Idle => Idle'
    BY <2>4, <2>5, <2>6 DEF Idle, Runs
  <2> QED BY <2>4, <2>6, <2>7, IdleInv DEF SessionInv
<1>3. CASE StaleTick \/ Disconnected \/ RunStateChanged
  <2>1. /\ UNCHANGED <<posts, session, want, toStub>> /\ wk'.run = wk.run /\ wk'.stub = wk.stub
        /\ wk'.conn = "ended" => wk.conn = "ended"
    BY <1>3 DEF StaleTick, Disconnected, RunStateChanged, Worker
  <2> QED BY <2>1, IdleInv DEF SessionInv, Idle
<1>4. CASE Feed
  BY <1>4, FeedSession
<1>5. CASE Accept
  <2>1. /\ wk.conn = "none" /\ wk'.run = wk.run /\ UNCHANGED <<posts, session>>
        /\ wk'.conn = "ended" => toStub' = toStub
    BY <1>5 DEF Accept, Worker
  <2>2. want = "none" /\ toStub = <<>>
    BY <2>1 DEF GdbInv
  <2> QED BY <2>1, <2>2, IdleInv DEF Idle
<1>6. CASE Refuse
  BY <1>6, IdleInv DEF Refuse, SessionInv, Idle
<1>7. ASSUME NEW call \in Calls, NEW run \in Runs, Ask(call, run)
      PROVE  SessionInv'
  <2> SUFFICES ASSUME session # "off"
               PROVE  SessionInv'
    BY <1>7 DEF SessionInv, Ask
  <2>1. posts' = Append(posts, call) /\ call = "reset" /\ UNCHANGED <<wk, session, want, toStub>>
    BY <1>7 DEF Ask
  <2> DEFINE l == Len(posts) + 1
  <2>2. /\ \A i \in DOMAIN posts' : i \in DOMAIN posts \/ i = l
        /\ \A i \in DOMAIN posts : i \in DOMAIN posts' /\ posts'[i] = posts[i]
        /\ posts'[l] = call
    BY <2>1
  <2> HIDE DEF l
  <2>3. Loading' <=> Loading
    BY <2>1, <2>2 DEF Loading
  <2> QED BY <2>1, <2>2, <2>3 DEF SessionInv, Idle
<1>8. CASE Load
  <2>1. posts' = Append(posts, "loadPath")
    BY <1>8 DEF Load
  <2> DEFINE l == Len(posts) + 1
  <2>2. /\ l \in DOMAIN posts' /\ posts'[l] = "loadPath"
        /\ \A i \in DOMAIN posts' : i = l \/ l > i
    BY <2>1
  <2> HIDE DEF l
  <2> QED BY <2>2 DEF SessionInv, Loading
<1>9. CASE SessionLost
  BY <1>9 DEF SessionLost, SessionInv
<1>10. CASE Connect
  BY <1>10, IdleInv DEF Connect, SessionInv, Idle
<1>11. ASSUME NEW packet \in Packets, Request(packet)
       PROVE  SessionInv'
  <2>1. /\ session = "on" /\ want = "none" /\ UNCHANGED <<wk, posts, session>>
    BY <1>11 DEF Request
  <2>2. wk.conn = "open"
    BY <2>1 DEF GdbInv
  <2> QED BY <2>1, <2>2, IdleInv DEF Idle
<1>12. CASE Interrupt
  <2>1. session = "on" /\ UNCHANGED <<wk, posts, session, want>>
    BY <1>12 DEF Interrupt
  <2>2. wk.conn = "open"
    BY <2>1 DEF GdbInv
  <2> QED BY <2>1, <2>2, IdleInv DEF Idle
<1>13. CASE Receive
  <2> DEFINE a == Head(wk.replies)
  <2>1. /\ wk.conn = "open" /\ wk.replies # <<>> /\ wk.replies \in Seq(Kinds)
        /\ UNCHANGED <<posts, toStub>>
    BY <1>13 DEF Receive, Worker, Kinds
  <2>2. wk'.conn = "open" /\ wk'.run = wk.run
    BY <1>13, <2>1 DEF Receive, Worker
  <2>3. a \in Kinds
    BY <2>1
  <2>4. ~ Absent(wk.replies, {a})
    BY <2>1, TailAbsent
  <2> HIDE DEF a
  <2>5. want = a /\ Answered(wk, toStub, a) /\ session # "off"
    BY <2>1, <2>3, <2>4 DEF GdbInv, Balanced, Owing, Nothing, Asked, Resumed
  <2>6. Idle => wk.run = "stopped"
    BY <2>5 DEF Idle, Answered, Halted
  <2> QED BY <2>1, <2>2, <2>5, <2>6, IdleInv DEF Idle
<1>14. CASE UNCHANGED vars
  BY <1>14, IdleInv DEF vars, SessionInv, Idle
<1> QED BY <1>1, <1>2, <1>3, <1>4, <1>5, <1>6, <1>7, <1>8, <1>9, <1>10, <1>11, <1>12, <1>13, <1>14
        DEF Next, WorkerStep, UiStep, GdbStep, Calls, Runs

-----------------------------------------------------------------------------

LEMMA Invariance == Spec => []IInv
BY Initial, Inductive, PTL DEF Spec

\* Every queue and field keeps its type, whatever the bounds.
THEOREM TypeCorrect == Spec => []TypeOK
<1>1. IInv => TypeOK
  BY DEF IInv
<1> QED BY <1>1, Invariance, PTL

\* A running machine has exactly one tick of its run scheduled, a stopped one
\* none (runGen_, scheduleTick, setRunning).
THEOREM SingleChain == Spec => []OneChain
<1>1. IInv => OneChain
  BY DEF IInv, Driven, OneChain
<1> QED BY <1>1, Invariance, PTL

\* No stopped machine has a step range (setRunning's clearStepRange).
THEOREM RangeCleared == Spec => []NoStaleRange
<1>1. IInv => NoStaleRange
  BY DEF IInv, Driven, NoStaleRange
<1> QED BY <1>1, Invariance, PTL

\* Once all calls and signals are through, the UI shows the worker's run
\* (runStateChanged against run, pause, step and reset of the controller).
THEOREM UiAgreement == Spec => []UiAgrees
<1>1. Init => UiInv
  BY DEF Init, UiInv, Told
<1>2. IInv /\ UiInv /\ [Next]_vars => UiInv'
  BY UiInvInductive
<1>3. UiInv => UiAgrees
  BY DEF UiInv, UiAgrees
<1> QED BY <1>1, <1>2, <1>3, Invariance, PTL DEF Spec

\* gdb gets one answer to each request and none it did not ask for
\* (GdbStub::stopped, connected and handlePacket).
THEOREM AnswersMatch == Spec => []OneAnswer
<1>1. Init => GdbInv
  BY GdbInvInitial
<1>2. IInv /\ GdbInv /\ [Next]_vars => GdbInv'
  BY GdbInvInductive
<1>3. IInv /\ GdbInv => OneAnswer
  BY GdbInvAnswers
<1> QED BY <1>1, <1>2, <1>3, Invariance, PTL DEF Spec

\* A gdb that waits for no stop finds the machine halted, but for the reload
\* of its own session (loadPath, GdbStub::connected and feed).
THEOREM NothingRunsBehindGdb == Spec => []HaltedForGdb
<1>1. Init => GdbInv /\ UiInv /\ SessionInv
  BY GdbInvInitial DEF Init, UiInv, Told, SessionInv
<1>2. IInv /\ GdbInv /\ [Next]_vars => GdbInv'
  BY GdbInvInductive
<1>3. IInv /\ UiInv /\ [Next]_vars => UiInv'
  BY UiInvInductive
<1>4. IInv /\ UiInv /\ GdbInv /\ SessionInv /\ [Next]_vars => SessionInv'
  BY SessionInvInductive
<1>5. IInv /\ SessionInv => HaltedForGdb
  <2> SUFFICES ASSUME IInv, SessionInv, session = "on", want # "stop", ~ Contains(posts, "loadPath")
               PROVE  wk.run = "stopped" /\ ~ Contains(posts, "startRun")
    BY DEF HaltedForGdb
  <2>1. posts \in Seq(Calls) /\ DOMAIN posts = 1 .. Len(posts)
    BY DEF IInv, TypeOK
  <2>2. ~ Loading
    BY <2>1 DEF Loading, Contains
  <2> QED BY <2>1, <2>2 DEF SessionInv, Loading, Idle, Contains
<1> QED BY <1>1, <1>2, <1>3, <1>4, <1>5, Invariance, PTL DEF Spec

=============================================================================
