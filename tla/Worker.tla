------------------------------- MODULE Worker -------------------------------
(***************************************************************************)
(* Who runs the machine: MachineWorker on its thread, driven by calls the  *)
(* UI thread queues, by its own scheduled ticks and by a gdb that talks to *)
(* GdbStub through the TCP server GdbServer.  The machine is only "a tick  *)
(* may stop".  gdb is the external program the debug session starts; its   *)
(* packets are resumes (vCont;c and the range step vCont;r), single steps, *)
(* Ctrl-C, "monitor reset" and everything else that is answered at once.   *)
(***************************************************************************)
EXTENDS Naturals, FiniteSets, SequencesExt

CONSTANTS
    MaxPosts,     \* bound: calls queued by the UI and not yet taken
    MaxSignals,   \* bound: run state changes the UI has not seen yet
    MaxStale      \* bound: ticks of earlier runs still in the event queue

ASSUME WorkerAssumption == {MaxPosts, MaxSignals, MaxStale} \subseteq Nat \ {0}

VARIABLES
    wk,         \* the worker, its stub and its server: see Worker below
    posts,      \* calls queued for the worker (QMetaObject::invokeMethod)
    uiRunning,  \* EmulatorController::running_, "running" or "stopped"
    session,    \* DebugSession: "off", "starting", "connecting", "on"
    backlog,    \* connections the server has not accepted: "alive" or "dead"
    want,       \* what gdb waits for: "none", "reply" or "stop"
    toStub      \* packets gdb has sent, in order

vars == <<wk, posts, uiRunning, session, backlog, want, toStub>>

Runs == {"running", "stopped"}
Calls == {"startRun", "pause", "step", "reset", "loadPath"}
Resumes == {"continue", "range"}
Packets == Resumes \cup {"step", "query", "reset", "ctrlC"}

(* run, stub.running_ and the step range; the scheduled ticks whose runGen_ *)
(* is the present one and those of earlier runs (runGen_ only grows, so a   *)
(* stale tick stays stale); the server's client_ ("ended": gdb is gone, the *)
(* socket has not said so yet); replies to gdb and signals to the UI.       *)
Worker == [run : Runs, stub : Runs, range : {"none", "set"}, live : Nat, stale : Nat,
           conn : {"none", "open", "ended"},
           replies : Seq({"stop", "reply"}), signals : Seq(Runs)]

TypeOK ==
    /\ wk \in Worker
    /\ posts \in Seq(Calls)
    /\ uiRunning \in Runs
    /\ session \in {"off", "starting", "connecting", "on"}
    /\ backlog \in Seq({"alive", "dead"})
    /\ want \in {"none", "reply", "stop"}
    /\ toStub \in Seq(Packets)

Init ==
    /\ wk = [run |-> "stopped", stub |-> "stopped", range |-> "none", live |-> 0, stale |-> 0,
             conn |-> "none", replies |-> <<>>, signals |-> <<>>]
    /\ posts = <<>> /\ uiRunning = "stopped" /\ session = "off"
    /\ backlog = <<>> /\ want = "none" /\ toStub = <<>>

-----------------------------------------------------------------------------
(* The worker's functions, on the record w *)

\* GdbServer's send: without a client the bytes go nowhere.
Send(w, answer) ==
    IF w.conn = "open" THEN [w EXCEPT !.replies = Append(@, answer)] ELSE w

\* GdbStub::stopped
Stopped(w) ==
    IF w.stub = "stopped" THEN w ELSE Send([w EXCEPT !.stub = "stopped"], "stop")

\* Mutants of NewGen: no new generation; a tick taken for granted.
NewGenSame(w) == w
NewGenSurely(w) == [w EXCEPT !.stale = @ + 1, !.live = @ - 1]

\* ++runGen_: what is scheduled now belongs to an earlier run.
NewGen(w) == [w EXCEPT !.stale = @ + w.live, !.live = 0]

\* Mutants of SetRunning: the step range outlives the run; stops are not told.
SetRunningKeepsRange(w, run) ==
    LET g == NewGen([w EXCEPT !.run = run])
        s == IF run = "stopped" THEN Stopped(g) ELSE g
    IN [s EXCEPT !.signals = Append(@, run)]

SetRunningQuiet(w, run) ==
    LET g == NewGen([w EXCEPT !.run = run])
    IN IF run = "stopped" THEN Stopped([g EXCEPT !.range = "none"])
       ELSE [g EXCEPT !.signals = Append(@, run)]

SetRunning(w, run) ==
    LET g == NewGen([w EXCEPT !.run = run])
        s == IF run = "stopped" THEN Stopped([g EXCEPT !.range = "none"]) ELSE g
    IN [s EXCEPT !.signals = Append(@, run)]

\* How a quantum may end: with nothing to report, or with a breakpoint, a
\* fault or the end of a step range, which all stop the run.
QuantumEnds == {"quantum", "stop"}

Tick(w, stop) ==
    IF w.run = "stopped" THEN w
    ELSE IF stop = "stop" THEN SetRunning(w, "stopped")
    ELSE [w EXCEPT !.live = @ + 1]                  \* scheduleTick

\* The first tick is made at once, not scheduled.
StartRun(w, stop) == Tick(SetRunning(w, "running"), stop)

\* Mutant of Called: a firmware is loaded under the running machine.
CalledLoadRuns(w, call, stop) ==
    CASE call = "startRun" -> StartRun(w, stop)
      [] call = "loadPath" -> w
      [] OTHER             -> SetRunning(w, "stopped")

\* The queued calls: each stops the run, whatever else it does to the machine.
Called(w, call, stop) ==
    IF call = "startRun" THEN StartRun(w, stop) ELSE SetRunning(w, "stopped")

\* GdbStub::startResume and Target::resume
StartResume(w, packet, stop) ==
    LET r == IF packet = "range" THEN "set" ELSE "none"
    IN StartRun([w EXCEPT !.stub = "running", !.range = r], stop)

\* Mutant of Handled: nothing is read while the target runs.
HandledDeaf(w, packet, stop) ==
    IF w.stub = "running" THEN w
    ELSE CASE packet = "ctrlC"   -> w
           [] packet = "step"    -> Send(w, "stop")
           [] packet = "query"   -> Send(w, "reply")
           [] packet = "reset"   -> Send(SetRunning(w, "stopped"), "reply")
           [] OTHER              -> StartResume(w, packet, stop)

\* GdbStub::feed and handlePacket: while the target runs only Ctrl-C counts,
\* while it is stopped everything else.
Handled(w, packet, stop) ==
    IF w.stub = "running"
    THEN IF packet = "ctrlC" THEN SetRunning(w, "stopped") ELSE w
    ELSE CASE packet = "ctrlC"   -> w
           [] packet = "step"    -> Send(w, "stop")
           [] packet = "query"   -> Send(w, "reply")
           [] packet = "reset"   -> Send(SetRunning(w, "stopped"), "reply")
           [] OTHER              -> StartResume(w, packet, stop)

-----------------------------------------------------------------------------
(* The worker's event loop                                                  *)

\* A packet of a gdb that has ended reached the worker before the UI, which
\* waits for that end, queued its next call: only a Reset can be older.

TakePost ==
    /\ posts # <<>>
    /\ wk.conn = "ended" /\ toStub # <<>> => Head(posts) = "reset"
    /\ posts' = Tail(posts)
    /\ \E stop \in QuantumEnds : wk' = Called(wk, Head(posts), stop)
    /\ UNCHANGED <<uiRunning, session, backlog, want, toStub>>

LiveTick ==
    /\ wk.live > 0
    /\ \E stop \in QuantumEnds : wk' = Tick([wk EXCEPT !.live = @ - 1], stop)
    /\ UNCHANGED <<posts, uiRunning, session, backlog, want, toStub>>

\* gen # runGen_: nothing is done.
StaleTick ==
    /\ wk.stale > 0
    /\ wk' = [wk EXCEPT !.stale = @ - 1]
    /\ UNCHANGED <<posts, uiRunning, session, backlog, want, toStub>>

\* readyRead
Feed ==
    /\ wk.conn # "none" /\ toStub # <<>>
    /\ toStub' = Tail(toStub)
    /\ \E stop \in QuantumEnds : wk' = Handled(wk, Head(toStub), stop)
    /\ UNCHANGED <<posts, uiRunning, session, backlog, want>>

\* disconnected: a running machine keeps running.
Disconnected ==
    /\ wk.conn = "ended" /\ toStub = <<>>
    /\ wk' = [wk EXCEPT !.conn = "none"]
    /\ UNCHANGED <<posts, uiRunning, session, backlog, want, toStub>>

\* Mutant of Accept: the stub is not told of the new connection.
AcceptStillRunning ==
    /\ backlog # <<>> /\ wk.conn = "none"
    /\ backlog' = Tail(backlog)
    /\ IF Head(backlog) = "alive"
       THEN /\ wk' = [wk EXCEPT !.conn = "open"]
            /\ want' = "reply" /\ toStub' = <<"query">>
       ELSE /\ wk' = [wk EXCEPT !.conn = "ended"]
            /\ UNCHANGED <<want, toStub>>
    /\ UNCHANGED <<posts, uiRunning, session>>

\* onNewConnection, the first client: connected() forgets what the last gdb
\* was waiting for.  gdb starts with questions.
Accept ==
    /\ backlog # <<>> /\ wk.conn = "none"
    /\ backlog' = Tail(backlog)
    /\ IF Head(backlog) = "alive"
       THEN /\ wk' = [wk EXCEPT !.conn = "open", !.stub = "stopped"]
            /\ want' = "reply" /\ toStub' = <<"query">>
       ELSE /\ wk' = [wk EXCEPT !.conn = "ended", !.stub = "stopped"]
            /\ UNCHANGED <<want, toStub>>
    /\ UNCHANGED <<posts, uiRunning, session>>

\* onNewConnection, one debugger at a time: gdb reports that it cannot
\* connect, and the session stops.
Refuse ==
    /\ backlog # <<>> /\ wk.conn # "none"
    /\ backlog' = Tail(backlog)
    /\ session' = IF Head(backlog) = "alive" THEN "off" ELSE session
    /\ UNCHANGED <<wk, posts, uiRunning, want, toStub>>

-----------------------------------------------------------------------------
(* The UI thread *)

Room ==
    /\ Len(posts) < MaxPosts
    /\ Len(wk.signals) < MaxSignals
    /\ wk.stale < MaxStale

\* Run, Pause and Step without a debug session, Reset always: the UI shows
\* the new state before the worker has it.
Ask(call, run) ==
    /\ Room
    /\ session = "off" \/ call = "reset"
    /\ uiRunning' = run
    /\ posts' = Append(posts, call)
    /\ UNCHANGED <<wk, session, backlog, want, toStub>>

\* gdb is gone: exited, killed or crashed.
GdbGone ==
    /\ wk' = IF wk.conn = "open" THEN [wk EXCEPT !.conn = "ended", !.replies = <<>>] ELSE wk
    /\ backlog' = [i \in DOMAIN backlog |-> "dead"]
    /\ want' = "none"
    /\ UNCHANGED toStub

\* loadAndDebug and loadBuiltin: the old session is stopped first, the new
\* one needs an ELF and a gdb.
Load ==
    /\ Room /\ Len(backlog) < 2
    /\ GdbGone
    /\ posts' = Append(posts, "loadPath")
    /\ session' \in {"off", "starting"}
    /\ UNCHANGED uiRunning

\* gdb crashes, or has not connected within 15 s.
SessionLost ==
    /\ session # "off"
    /\ session' = "off"
    /\ GdbGone
    /\ UNCHANGED <<posts, uiRunning>>

\* runStateChanged
RunStateChanged ==
    /\ wk.signals # <<>>
    /\ uiRunning' = Head(wk.signals)
    /\ wk' = [wk EXCEPT !.signals = Tail(@)]
    /\ UNCHANGED <<posts, session, backlog, want, toStub>>

-----------------------------------------------------------------------------
(* gdb *)

Connect ==
    /\ session = "starting"
    /\ session' = "connecting"
    /\ backlog' = Append(backlog, "alive")
    /\ UNCHANGED <<wk, posts, uiRunning, want, toStub>>

\* One request at a time.
Request(packet) ==
    /\ session = "on" /\ want = "none" /\ Room
    /\ toStub' = Append(toStub, packet)
    /\ want' = IF packet \in {"query", "reset"} THEN "reply" ELSE "stop"
    /\ UNCHANGED <<wk, posts, uiRunning, session, backlog>>

\* Ctrl-C for the request gdb waits for is behind it in the queue.
CtrlCLast == toStub # <<>> /\ Last(toStub) = "ctrlC"

\* -exec-interrupt, once per run; the answer may already be under way.
Interrupt ==
    /\ session = "on" /\ want = "stop" /\ ~ CtrlCLast /\ Room
    /\ toStub' = Append(toStub, "ctrlC")
    /\ UNCHANGED <<wk, posts, uiRunning, session, backlog, want>>

Receive ==
    /\ wk.conn = "open" /\ wk.replies # <<>>
    /\ wk' = [wk EXCEPT !.replies = Tail(@)]
    /\ want' = "none"
    /\ session' = "on"
    /\ UNCHANGED <<posts, uiRunning, backlog, toStub>>

-----------------------------------------------------------------------------

WorkerStep == TakePost \/ LiveTick \/ StaleTick \/ Feed \/ Disconnected \/ Accept \/ Refuse

UiStep ==
    \/ Ask("startRun", "running")
    \/ \E call \in {"pause", "step", "reset"} : Ask(call, "stopped")
    \/ Load \/ SessionLost \/ RunStateChanged

GdbStep ==
    \/ Connect
    \/ \E packet \in Packets \ {"ctrlC"} : Request(packet)
    \/ Interrupt \/ Receive

Next == WorkerStep \/ UiStep \/ GdbStep

Spec == Init /\ [][Next]_vars

(* The worker's event loop serves its queue and its sockets, and gdb and    *)
(* the UI read what they are sent.  Nobody has to press a button, and no    *)
(* firmware has to reach a breakpoint: fairness of LiveTick would demand    *)
(* that, since a quantum with nothing to report changes no variable here.   *)
FairSpec ==
    /\ Spec
    /\ WF_vars(TakePost) /\ WF_vars(Feed) /\ WF_vars(StaleTick)
    /\ WF_vars(Disconnected) /\ WF_vars(Accept) /\ WF_vars(Refuse)
    /\ WF_vars(RunStateChanged) /\ WF_vars(Receive)

-----------------------------------------------------------------------------
(* Properties *)

\* A running machine has exactly one tick of its run in the event queue, and
\* a stopped one has none: the run neither stalls nor runs twice as fast,
\* however Run, Pause, Reset and gdb's resumes follow each other.  This is
\* what runGen_ and scheduleTick are for.
OneChain == wk.live = IF wk.run = "running" THEN 1 ELSE 0

\* A stopped machine has no step range left, so that the next Run does not
\* end where an abandoned gdb step would have (setRunning, clearStepRange).
NoStaleRange == wk.range = "set" => wk.run = "running"

\* What a run still owes gdb: the packet that asks for it, the run itself or
\* its stop reply.
Owed(packets, answer) ==
    Cardinality({i \in DOMAIN toStub : toStub[i] \in packets})
    + Cardinality({i \in DOMAIN wk.replies : wk.replies[i] = answer})

\* gdb gets exactly one answer to each request and none it did not ask for:
\* one stop reply per resume or step, whether a breakpoint, Ctrl-C, the UI's
\* Reset or a reload stops the machine, and none for the run of an earlier
\* gdb (GdbStub::stopped, connected, handlePacket's running_ check).
OneAnswer ==
    wk.conn = "open" =>
        /\ Owed({"query", "reset"}, "reply") = IF want = "reply" THEN 1 ELSE 0
        /\ Owed(Resumes \cup {"step"}, "stop") + (IF wk.stub = "running" THEN 1 ELSE 0)
              = IF want = "stop" THEN 1 ELSE 0

\* A gdb that believes the machine halted is right, but for the reload that
\* its session started with and that the worker may not have taken yet; no
\* Run of the time before the session can start the machine behind it.
HaltedForGdb ==
    session = "on" /\ want # "stop" =>
        \/ Contains(posts, "loadPath")
        \/ wk.run = "stopped" /\ ~ Contains(posts, "startRun")

\* Once all calls and signals are through, the UI shows the worker's state,
\* although it changes its own copy first (EmulatorController::run, pause,
\* step, reset and the runStateChanged slot).
UiAgrees == posts = <<>> /\ wk.signals = <<>> => uiRunning = wk.run

\* Pause is never lost among gdb's packets: a Ctrl-C sent for the present
\* run leads to its stop reply or to the end of the session, while a late one
\* is dropped and the next run goes on (feed's check of running_).
InterruptAnswered == (want = "stop" /\ CtrlCLast) ~> (want # "stop")

=============================================================================
