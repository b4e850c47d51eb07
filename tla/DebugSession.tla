---------------------------- MODULE DebugSession ----------------------------
(***************************************************************************)
(* The UI's debugger: DebugSession drives a gdb process over two pipes     *)
(* (MI commands one way, records the other), gdb keeps its breakpoints in  *)
(* the machine, and without a session EmulatorController sets the address  *)
(* breakpoints on the machine itself.  gdb is external: it executes its    *)
(* commands in order, cannot change breakpoints while the target runs, and *)
(* may crash or never connect.                                             *)
(***************************************************************************)
EXTENDS Naturals, SequencesExt

CONSTANTS
    Lines,        \* source breakpoints: file and line
    Addresses,    \* address breakpoints
    MaxNumber,    \* bound: breakpoint numbers gdb gives out in one session
    MaxCommands,  \* bound: commands waiting in gdb's input when the user acts
    MaxPosts      \* bound: calls queued for the machine's worker

ASSUME DebugAssumption ==
    /\ {MaxNumber, MaxCommands, MaxPosts} \subseteq Nat
    /\ Lines \cap Addresses = {}

Keys == Lines \cup Addresses
Numbers == Nat \ {0}
None == 0                \* "no number": -1 in the code, and the answer ^error

VARIABLES
    ui,        \* state_, connected_, interruptSent_ and the rows on display
    bps,       \* the list of breakpoints: number and state of each
    afterStop, \* changes that wait for the target to stop
    toGdb,     \* commands gdb has not executed
    toUi,      \* records the UI has not read; each result has its callback
    gdb,       \* the process: what it thinks of the target, its registers
    table,     \* gdb's breakpoints, by number
    mach,      \* the machine: does it run, with which breakpoints
    posts,     \* calls queued for the worker
    resets     \* targetReset signals the UI has not seen

vars == <<ui, bps, afterStop, toGdb, toUi, gdb, table, mach, posts, resets>>

\* shown: where the stack and variables on display come from.  "current": read
\* from the target as it stands; "past": it has run or was reset since.
Shown == {"nothing", "current", "past"}

Changes == [op : {"insert"}, key : Keys] \cup [op : {"delete"}, number : Numbers]

Commands ==
    [op : {"connect", "continue", "interrupt", "flush"}]
    \cup Changes
    \cup [op : {"frames"}, gen : {"new", "old"}]

Records ==
    [op : {"running", "stopped", "connected", "refused"}]
    \cup [op : {"inserted"}, key : Keys, number : Numbers \cup {None}]
    \cup [op : {"frames"}, gen : {"new", "old"}, data : Shown]

Session == [state : {"off", "starting", "stopped", "running"}, connected : BOOLEAN,
            sent : BOOLEAN, shown : Shown]
Breakpoint == [number : Numbers \cup {None}, state : {"pending", "ok", "error"}]
Gdb == [process : {"none", "alive", "dead"}, target : {"none", "halted", "running"},
        registers : {"clean", "stale"}, next : Numbers]
Machine == [run : {"stopped", "running"}, bps : SUBSET Keys]
Calls == [call : {"load", "reset"}] \cup [call : {"set"}, keys : SUBSET Addresses]

TypeOK ==
    /\ ui \in Session
    /\ DOMAIN bps \subseteq Keys /\ bps \in [DOMAIN bps -> Breakpoint]
    /\ afterStop \in Seq(Changes)
    /\ toGdb \in Seq(Commands)
    /\ toUi \in Seq(Records)
    /\ gdb \in Gdb
    /\ DOMAIN table \subseteq Numbers /\ table \in [DOMAIN table -> Keys]
    /\ mach \in Machine
    /\ posts \in Seq(Calls)
    /\ resets \in Nat

NoGdb == [process |-> "none", target |-> "none", registers |-> "clean", next |-> 1]
NoBps == [k \in {} |-> 0]

\* The function f with an entry for k, a new one or another.
With(f, k, value) == [x \in DOMAIN f \cup {k} |-> IF x = k THEN value ELSE f[x]]

Init ==
    /\ ui = [state |-> "off", connected |-> FALSE, sent |-> FALSE, shown |-> "nothing"]
    /\ bps = NoBps /\ afterStop = <<>> /\ toGdb = <<>> /\ toUi = <<>>
    /\ gdb = NoGdb /\ table = NoBps
    /\ mach = [run |-> "stopped", bps |-> {}]
    /\ posts = <<>> /\ resets = 0

-----------------------------------------------------------------------------
(* The session's functions *)

\* command(): lost unless gdb runs.
Sent(commands) == IF gdb.process = "alive" THEN toGdb \o commands ELSE toGdb

\* ++gen_: refreshes under way will be dropped when they are answered.
Outdated(pipe) ==
    [i \in DOMAIN pipe |->
        IF pipe[i].op = "frames" THEN [pipe[i] EXCEPT !.gen = "old"] ELSE pipe[i]]

Refresh == [op |-> "frames", gen |-> "new"]

\* insertBreakpoint(indexOf(b)): nothing if b was removed meanwhile.
Applicable(changes) ==
    LET kept[i \in 0..Len(changes)] ==
            IF i = 0 THEN <<>>
            ELSE IF changes[i].op = "insert" => changes[i].key \in DOMAIN bps
                 THEN Append(kept[i - 1], changes[i]) ELSE kept[i - 1]
    IN kept[Len(changes)]

\* stop() ends gdb, waits for it, and forgets everything that was under way.
\* The addresses then go to the machine.
Stop ==
    /\ bps' = [k \in DOMAIN bps |->
                  [number |-> None,
                   state |-> IF bps[k].state = "ok" THEN "pending" ELSE bps[k].state]]
    /\ afterStop' = <<>> /\ toUi' = <<>>
    /\ table' = NoBps

SetAddresses(listed) == [call |-> "set", keys |-> listed \cap Addresses]

Off == [state |-> "off", connected |-> FALSE, sent |-> FALSE, shown |-> "nothing"]

StopForGood ==
    /\ Stop
    /\ ui' = Off /\ toGdb' = <<>> /\ gdb' = NoGdb
    /\ posts' = Append(posts, SetAddresses(DOMAIN bps))
    /\ UNCHANGED <<mach, resets>>

\* Mutant of WhenStopped: the interrupt is noted and not sent.
WhenStoppedSilent(change) ==
    IF ui.state = "stopped"
    THEN toGdb' = Sent(<<change>>) /\ UNCHANGED <<afterStop, ui>>
    ELSE /\ afterStop' = Append(afterStop, change)
         /\ ui' = [ui EXCEPT !.sent = TRUE]
         /\ UNCHANGED toGdb

\* whenStopped, for a connected session.  resumeAfterStop_ is set exactly
\* while afterStop_ is not empty.
WhenStopped(change) ==
    IF ui.state = "stopped"
    THEN /\ toGdb' = Sent(<<change>>)
         /\ UNCHANGED <<afterStop, ui>>
    ELSE /\ afterStop' = Append(afterStop, change)
         /\ ui' = [ui EXCEPT !.sent = TRUE]
         /\ toGdb' = IF ui.sent THEN toGdb ELSE Sent(<<[op |-> "interrupt"]>>)

\* addressBreakpointsChanged and the slot connected to it.
AddressesChanged(key, listed) ==
    posts' = IF key \in Addresses /\ ui.state = "off"
             THEN Append(posts, SetAddresses(listed)) ELSE posts

-----------------------------------------------------------------------------
(* The user *)

\* Numbers that the inserts under way will take.
Inserts(pipe) == Len(SelectSeq(pipe, LAMBDA c : c.op = "insert"))

Room ==
    /\ Len(toGdb) + Len(toUi) < MaxCommands
    /\ Len(posts) < MaxPosts

\* toggleBreakpoint and addAddressBreakpoint, for one that is not listed.
AddBreakpoint(k) ==
    /\ Room /\ k \notin DOMAIN bps
    /\ gdb.next + Inserts(toGdb) + Inserts(afterStop) <= MaxNumber
    /\ bps' = With(bps, k, [number |-> None,
                            state |-> IF k \in Addresses /\ ~ ui.connected
                                      THEN "ok" ELSE "pending"])
    /\ IF ui.connected
       THEN WhenStopped([op |-> "insert", key |-> k]) /\ UNCHANGED posts
       ELSE AddressesChanged(k, DOMAIN bps \cup {k}) /\ UNCHANGED <<ui, afterStop, toGdb>>
    /\ UNCHANGED <<toUi, gdb, table, mach, resets>>

\* Mutant of RemoveBreakpoint: a breakpoint without a number is deleted too.
RemoveUnnumbered(k) ==
    /\ Room /\ k \in DOMAIN bps
    /\ bps' = [j \in DOMAIN bps \ {k} |-> bps[j]]
    /\ IF ui.connected
       THEN WhenStopped([op |-> "delete", number |-> bps[k].number]) /\ UNCHANGED posts
       ELSE AddressesChanged(k, DOMAIN bps \ {k}) /\ UNCHANGED <<ui, afterStop, toGdb>>
    /\ UNCHANGED <<toUi, gdb, table, mach, resets>>

\* removeBreakpoint
RemoveBreakpoint(k) ==
    /\ Room /\ k \in DOMAIN bps
    /\ bps' = [j \in DOMAIN bps \ {k} |-> bps[j]]
    /\ IF ui.connected /\ bps[k].number # None
       THEN WhenStopped([op |-> "delete", number |-> bps[k].number])
       ELSE UNCHANGED <<ui, afterStop, toGdb>>
    /\ IF ui.connected THEN UNCHANGED posts ELSE AddressesChanged(k, DOMAIN bps \ {k})
    /\ UNCHANGED <<toUi, gdb, table, mach, resets>>

\* continueRun, stepOver, stepInto, stepInstruction, stepOut.
Resume ==
    /\ Room /\ ui.state \in {"stopped", "starting"}
    /\ toGdb' = Sent(<<[op |-> "continue"]>>)
    /\ UNCHANGED <<ui, bps, afterStop, toUi, gdb, table, mach, posts, resets>>

\* Mutant of Pause: the state is not looked at.
PauseAnyState ==
    /\ Room /\ ~ ui.sent
    /\ ui' = [ui EXCEPT !.sent = TRUE]
    /\ toGdb' = Sent(<<[op |-> "interrupt"]>>)
    /\ UNCHANGED <<bps, afterStop, toUi, gdb, table, mach, posts, resets>>

Pause ==
    /\ Room /\ ui.state = "running" /\ ~ ui.sent
    /\ ui' = [ui EXCEPT !.sent = TRUE]
    /\ toGdb' = Sent(<<[op |-> "interrupt"]>>)
    /\ UNCHANGED <<bps, afterStop, toUi, gdb, table, mach, posts, resets>>

Reset ==
    /\ Room /\ resets = 0
    /\ posts' = Append(posts, [call |-> "reset"])
    /\ UNCHANGED <<ui, bps, afterStop, toGdb, toUi, gdb, table, mach, resets>>

\* loadAndDebug and loadBuiltin: stop(), loadPath, and the addresses again,
\* by start()'s own stop() or because there is no session.  (Those that the
\* first stop() posts are undone by loadPath at once.)
Load(next) ==
    /\ Room /\ Len(posts) + 2 <= MaxPosts
    /\ Stop
    /\ ui' = [Off EXCEPT !.state = next]
    /\ IF next = "starting"
       THEN /\ toGdb' = <<[op |-> "connect"]>>
            /\ gdb' = [NoGdb EXCEPT !.process = "alive"]
       ELSE toGdb' = <<>> /\ gdb' = NoGdb
    /\ posts' = posts \o <<[call |-> "load"], SetAddresses(DOMAIN bps)>>
    /\ UNCHANGED <<mach, resets>>

-----------------------------------------------------------------------------
(* The UI's event loop: records, the timer, the end of gdb, resets *)

Read(op) == toUi # <<>> /\ Head(toUi).op = op

ReadRunning ==
    /\ Read("running")
    /\ ui' = [ui EXCEPT !.state = "running"]
    /\ toUi' = Outdated(Tail(toUi)) /\ toGdb' = Outdated(toGdb)
    /\ UNCHANGED <<bps, afterStop, gdb, table, mach, posts, resets>>

\* onStopped: changes that waited are applied and the target goes on,
\* otherwise the stop is shown.
ReadStopped ==
    /\ Read("stopped")
    /\ ui' = [ui EXCEPT !.state = "stopped", !.sent = FALSE]
    /\ toUi' = Outdated(Tail(toUi))
    /\ toGdb' = Outdated(toGdb) \o
          (IF gdb.process # "alive" THEN <<>>
           ELSE IF afterStop # <<>> THEN Applicable(afterStop) \o <<[op |-> "continue"]>>
           ELSE <<Refresh>>)
    /\ afterStop' = <<>>
    /\ UNCHANGED <<bps, gdb, table, mach, posts, resets>>

\* The answers to -target-select: connected, with all breakpoints to insert,
\* or an error, which ends the session.
ReadConnected ==
    /\ Read("connected")
    /\ ui' = [ui EXCEPT !.state = "stopped", !.connected = TRUE]
    /\ toUi' = Outdated(Tail(toUi))
    /\ LET inserts == {[op |-> "insert", key |-> k] : k \in DOMAIN bps}
       IN toGdb' = IF gdb.process = "alive"
                   THEN Outdated(toGdb) \o SetToSeq(inserts) \o <<Refresh>> ELSE toGdb
    /\ UNCHANGED <<bps, afterStop, gdb, table, mach, posts, resets>>

ReadRefused == Read("refused") /\ StopForGood

\* Mutant of ReadInserted: an error is not noticed.
ReadInsertedOk ==
    /\ Read("inserted")
    /\ toUi' = Tail(toUi)
    /\ LET r == Head(toUi)
       IN IF r.key \in DOMAIN bps
          THEN bps' = [bps EXCEPT ![r.key] = [number |-> r.number, state |-> "ok"]]
               /\ UNCHANGED toGdb
          ELSE UNCHANGED <<bps, toGdb>>
    /\ UNCHANGED <<ui, afterStop, gdb, table, mach, posts, resets>>

\* insertBreakpoint's callback: the breakpoint may have been removed.
ReadInserted ==
    /\ Read("inserted")
    /\ toUi' = Tail(toUi)
    /\ LET r == Head(toUi)
       IN IF r.key \in DOMAIN bps
          THEN /\ bps' = [bps EXCEPT ![r.key] =
                             IF r.number = None THEN [@ EXCEPT !.state = "error"]
                             ELSE [number |-> r.number, state |-> "ok"]]
               /\ UNCHANGED toGdb
          ELSE /\ toGdb' = IF r.number = None THEN toGdb
                           ELSE Sent(<<[op |-> "delete", number |-> r.number]>>)
               /\ UNCHANGED bps
    /\ UNCHANGED <<ui, afterStop, gdb, table, mach, posts, resets>>

\* refresh's callbacks: dropped if gen_ has moved on.
ReadFrames ==
    /\ Read("frames")
    /\ toUi' = Tail(toUi)
    /\ ui' = IF Head(toUi).gen = "new" THEN [ui EXCEPT !.shown = Head(toUi).data] ELSE ui
    /\ UNCHANGED <<bps, afterStop, toGdb, gdb, table, mach, posts, resets>>

\* The single shot of start(): 15 s without a connection.
Timeout == ui.state = "starting" /\ ~ ui.connected /\ StopForGood

\* Mutant of Finished: connected_ stays.
FinishedConnected ==
    /\ gdb.process = "dead" /\ toUi = <<>>
    /\ gdb' = NoGdb
    /\ ui' = [ui EXCEPT !.state = "off"]
    /\ UNCHANGED <<bps, afterStop, toGdb, toUi, table, mach, posts, resets>>

\* QProcess::finished, after everything gdb wrote has been read.
Finished ==
    /\ gdb.process = "dead" /\ toUi = <<>>
    /\ gdb' = NoGdb
    /\ ui' = [ui EXCEPT !.state = "off", !.connected = FALSE]
    /\ UNCHANGED <<bps, afterStop, toGdb, toUi, table, mach, posts, resets>>

\* Mutant of TargetReset: the registers are flushed, the views stay.
TargetResetNoRefresh ==
    /\ resets > 0
    /\ resets' = resets - 1
    /\ toGdb' = IF ui.connected /\ ui.state = "stopped" THEN Sent(<<[op |-> "flush"]>>) ELSE toGdb
    /\ UNCHANGED <<ui, bps, afterStop, toUi, gdb, table, mach, posts>>

\* targetChanged: a running target reports its stop by itself.
TargetReset ==
    /\ resets > 0
    /\ resets' = resets - 1
    /\ IF ui.connected /\ ui.state = "stopped"
       THEN /\ toUi' = Outdated(toUi)
            /\ toGdb' = IF gdb.process = "alive"
                        THEN Outdated(toGdb) \o <<[op |-> "flush"], Refresh>> ELSE toGdb
       ELSE UNCHANGED <<toUi, toGdb>>
    /\ UNCHANGED <<ui, bps, afterStop, gdb, table, mach, posts>>

-----------------------------------------------------------------------------
(* gdb *)

Executes(op) == gdb.process = "alive" /\ toGdb # <<>> /\ Head(toGdb).op = op

\* What has been read from the target is past now.
Aged(data) == IF data = "current" THEN "past" ELSE data
AgedPipe == [i \in DOMAIN toUi |->
                IF toUi[i].op = "frames" THEN [toUi[i] EXCEPT !.data = Aged(@)] ELSE toUi[i]]
AgedView == [ui EXCEPT !.shown = Aged(@)]

\* gdb needs longer to start and to read the ELF than the worker to take what
\* was queued before.
ConnectGdb ==
    /\ Executes("connect")
    /\ \A i \in DOMAIN posts : posts[i].call = "reset"
    /\ toGdb' = Tail(toGdb)
    /\ \/ /\ gdb' = [gdb EXCEPT !.target = "halted"]
          /\ toUi' = toUi \o <<[op |-> "stopped"], [op |-> "connected"]>>
       \/ /\ toUi' = Append(toUi, [op |-> "refused"])
          /\ UNCHANGED gdb
    /\ UNCHANGED <<ui, bps, afterStop, table, mach, posts, resets>>

ContinueGdb ==
    /\ Executes("continue")
    /\ toGdb' = Tail(toGdb)
    /\ IF gdb.target = "halted"
       THEN /\ gdb' = [gdb EXCEPT !.target = "running"]
            /\ mach' = [mach EXCEPT !.run = "running"]
            /\ toUi' = Append(AgedPipe, [op |-> "running"])
            /\ ui' = AgedView
       ELSE UNCHANGED <<gdb, mach, toUi, ui>>
    /\ UNCHANGED <<bps, afterStop, table, posts, resets>>

\* Ctrl-C: the stub drops it if the machine has stopped.
InterruptGdb ==
    /\ Executes("interrupt")
    /\ toGdb' = Tail(toGdb)
    /\ mach' = IF gdb.target = "running" THEN [mach EXCEPT !.run = "stopped"] ELSE mach
    /\ UNCHANGED <<ui, bps, afterStop, toUi, gdb, table, posts, resets>>

\* A line may have no code; a running target cannot be changed.
InsertGdb ==
    /\ Executes("insert")
    /\ toGdb' = Tail(toGdb)
    /\ LET k == Head(toGdb).key
           Answer(n) == toUi' = Append(toUi, [op |-> "inserted", key |-> k, number |-> n])
       IN \/ /\ gdb.target = "halted"
             /\ Answer(gdb.next)
             /\ table' = With(table, gdb.next, k)
             /\ gdb' = [gdb EXCEPT !.next = @ + 1]
             /\ mach' = [mach EXCEPT !.bps = @ \cup {k}]
          \/ /\ gdb.target # "halted" \/ k \in Lines
             /\ Answer(None)
             /\ UNCHANGED <<table, gdb, mach>>
    /\ UNCHANGED <<ui, bps, afterStop, posts, resets>>

\* A place with another breakpoint stays set in the machine.
DeleteGdb ==
    /\ Executes("delete")
    /\ toGdb' = Tail(toGdb)
    /\ LET n == Head(toGdb).number
           left == [m \in DOMAIN table \ {n} |-> table[m]]
       IN IF gdb.target = "halted" /\ n \in DOMAIN table
          THEN /\ table' = left
               /\ mach' = [mach EXCEPT !.bps = @ \ ({table[n]} \ Range(left))]
          ELSE UNCHANGED <<table, mach>>
    /\ UNCHANGED <<ui, bps, afterStop, toUi, gdb, posts, resets>>

FlushGdb ==
    /\ Executes("flush")
    /\ toGdb' = Tail(toGdb)
    /\ gdb' = [gdb EXCEPT !.registers = "clean"]
    /\ UNCHANGED <<ui, bps, afterStop, toUi, table, mach, posts, resets>>

FramesGdb ==
    /\ Executes("frames")
    /\ toGdb' = Tail(toGdb)
    /\ LET data == IF gdb.target # "halted" THEN "nothing"
                   ELSE IF gdb.registers = "clean" THEN "current" ELSE "past"
       IN toUi' = Append(toUi, [op |-> "frames", gen |-> Head(toGdb).gen, data |-> data])
    /\ UNCHANGED <<ui, bps, afterStop, gdb, table, mach, posts, resets>>

\* The machine's stop reply.
StopGdb ==
    /\ gdb.process = "alive" /\ gdb.target = "running" /\ mach.run = "stopped"
    /\ gdb' = [gdb EXCEPT !.target = "halted", !.registers = "clean"]
    /\ toUi' = Append(toUi, [op |-> "stopped"])
    /\ UNCHANGED <<ui, bps, afterStop, toGdb, table, mach, posts, resets>>

Crash ==
    /\ gdb.process = "alive"
    /\ gdb' = [NoGdb EXCEPT !.process = "dead"]
    /\ toGdb' = <<>> /\ table' = NoBps
    /\ UNCHANGED <<ui, bps, afterStop, toUi, mach, posts, resets>>

-----------------------------------------------------------------------------
(* The machine and its worker *)

\* A breakpoint, a fault or the end of a step.
Hit ==
    /\ mach.run = "running"
    /\ mach' = [mach EXCEPT !.run = "stopped"]
    /\ UNCHANGED <<ui, bps, afterStop, toGdb, toUi, gdb, table, posts, resets>>

TakeSet ==
    /\ posts # <<>> /\ Head(posts).call = "set"
    /\ posts' = Tail(posts)
    /\ mach' = [mach EXCEPT !.bps = Head(posts).keys]
    /\ UNCHANGED <<ui, bps, afterStop, toGdb, toUi, gdb, table, resets>>

TakeLoad ==
    /\ posts # <<>> /\ Head(posts).call = "load"
    /\ posts' = Tail(posts)
    /\ mach' = [run |-> "stopped", bps |-> {}]
    /\ UNCHANGED <<ui, bps, afterStop, toGdb, toUi, gdb, table, resets>>

\* The registers that gdb has read of a halted target are stale.
TakeReset ==
    /\ posts # <<>> /\ Head(posts).call = "reset"
    /\ posts' = Tail(posts)
    /\ resets' = resets + 1
    /\ mach' = [mach EXCEPT !.run = "stopped"]
    /\ ui' = AgedView /\ toUi' = AgedPipe
    /\ gdb' = IF gdb.target = "halted" THEN [gdb EXCEPT !.registers = "stale"] ELSE gdb
    /\ UNCHANGED <<bps, afterStop, toGdb, table>>

-----------------------------------------------------------------------------

UserStep ==
    \/ \E k \in Keys : AddBreakpoint(k) \/ RemoveBreakpoint(k)
    \/ Resume \/ Pause \/ Reset
    \/ \E next \in {"off", "starting"} : Load(next)

ReadRecord ==
    ReadRunning \/ ReadStopped \/ ReadConnected \/ ReadRefused \/ ReadInserted \/ ReadFrames

UiStep == ReadRecord \/ Timeout \/ Finished \/ TargetReset

GdbCommand ==
    ContinueGdb \/ InterruptGdb \/ InsertGdb \/ DeleteGdb \/ FlushGdb \/ FramesGdb

WorkerStep == TakeSet \/ TakeLoad \/ TakeReset

Next ==
    \/ UserStep \/ UiStep
    \/ ConnectGdb \/ GdbCommand \/ StopGdb \/ Crash
    \/ WorkerStep \/ Hit

Spec == Init /\ [][Next]_vars

(* The UI reads its records, gdb executes what it can and hears of the      *)
(* machine's stops; it may hang while it connects.                          *)
FairSpec ==
    /\ Spec
    /\ WF_vars(ReadRecord) /\ WF_vars(Finished)
    /\ WF_vars(GdbCommand) /\ WF_vars(StopGdb)

-----------------------------------------------------------------------------
(* Properties *)

\* Nothing is under way between the UI, gdb and the machine.
Quiet ==
    /\ toGdb = <<>> /\ toUi = <<>> /\ afterStop = <<>> /\ posts = <<>> /\ resets = 0
    /\ gdb.process # "dead"
    /\ gdb.target = "running" => mach.run = "running"

\* What the user is shown of the session is so: off, connected, running or
\* stopped, after any order of Run, Pause, Reset, reloads, timeouts, crashes
\* and breakpoints hit while something else was asked (state_, connected_).
StateAgrees ==
    Quiet => /\ ui.state = "off" <=> gdb.process = "none"
             /\ ui.state = "running" <=> gdb.target = "running"
             /\ ui.connected <=> gdb.target # "none"

\* A breakpoint shown as set stops the machine, although it may have been
\* removed and added again before gdb answered, or while the target ran, and
\* gdb refuses what it gets while the target runs (insertBreakpoint).
ListedIsSet ==
    Quiet /\ ui.connected =>
        \A k \in DOMAIN bps : bps[k].state = "ok" => k \in mach.bps

\* interruptSent_ makes Pause and whenStopped wait for a stop that is already
\* on its way: then there is one.  If it could be left set, Pause would be
\* dead for the rest of the run.
StopComing ==
    ui.sent /\ ui.connected /\ gdb.process = "alive" =>
        \/ \E i \in DOMAIN toGdb : toGdb[i].op = "interrupt"
        \/ \E i \in DOMAIN toUi : toUi[i].op = "stopped"
        \/ gdb.target = "running" /\ mach.run = "stopped"

\* The stack and the variables on display are those of the target as it
\* stands, and not of an earlier stop or of the time before a reset; with one
\* exception: gdb's registers are stale if the UI heard of a reset before it
\* read that the target had stopped, for targetChanged does nothing then.
ViewCurrent ==
    Quiet /\ ui.connected /\ ui.state = "stopped" /\ gdb.registers = "clean" =>
        ui.shown = "current"

\* An interrupt always ends: its stop is read, and changes that waited for it
\* are on their way to gdb, or the session is over.
InterruptEnds == (ui.sent /\ ui.connected) ~> ~ (ui.sent /\ ui.connected)

\* What the list no longer has does not stop the machine.  (The manual test:
\* the x of a breakpoint, then Run, runs without stopping.)
NoGhost == Quiet => mach.bps \subseteq DOMAIN bps

=============================================================================
