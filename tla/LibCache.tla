------------------------------ MODULE LibCache ------------------------------
(***************************************************************************)
(* The cache of library objects of ArmGccBuilder::compile.  A build that   *)
(* finds the stamp of its own configuration (compiler, flags, list of       *)
(* libraries, project headers) takes the objects that exist as they are.   *)
(* gcc may fail or be killed, and the program may end at any step.         *)
(***************************************************************************)

CONSTANTS
    Files,     \* library sources
    Configs    \* what the stamp is a hash of

VARIABLES
    objects,   \* the object files in libDir
    stamp,     \* the stamp file
    build,     \* the build under way
    deleted    \* history: somebody has deleted an object

cacheVars == <<objects, stamp, build, deleted>>

\* What the constants may be.
Distinct == Configs \cap {"missing", "partial", "none"} = {}

\* "partial": an interrupted write has left a part of the file.
Contents == Configs \cup {"missing", "partial"}

NoConfig == "none"

CacheTypeOK ==
    /\ objects \in [Files -> Contents]
    /\ stamp \in Contents
    /\ build \in [phase : {"idle", "compile", "stamp", "link"}, config : Configs \cup {NoConfig},
                  valid : {"yes", "no"}, todo : SUBSET Files, running : SUBSET Files,
                  result : {"ok", "failed", "noticed"}]
    /\ deleted \in {"yes", "no"}

NoBuild == [phase |-> "idle", config |-> NoConfig, valid |-> "no", todo |-> {},
            running |-> {}, result |-> "ok"]

CacheInit ==
    /\ objects = [f \in Files |-> "missing"]
    /\ stamp = "missing" /\ build = NoBuild /\ deleted = "no"

-----------------------------------------------------------------------------

\* Mutant of Cached: that the objects exist is enough.
CachedIfThere(config) == {f \in Files : objects[f] # "missing"}

\* Library files that need no job: the stamp is right and the object exists.
Cached(config) == {f \in Files : stamp = config /\ objects[f] # "missing"}

\* compileAndLoad, one at a time (building_): the jobs are chosen, and a stamp
\* that is not this build's is removed before the first of them runs.
Begin(config) ==
    /\ build.phase = "idle"
    /\ build' = [phase |-> "compile", config |-> config,
                 valid |-> IF stamp = config THEN "yes" ELSE "no",
                 todo |-> Files \ Cached(config), running |-> {}, result |-> "ok"]
    /\ stamp' = IF stamp = config THEN stamp ELSE "missing"
    /\ UNCHANGED <<objects, deleted>>

\* Several jobs run at once.
Start(f) ==
    /\ build.phase = "compile" /\ build.result # "noticed"
    /\ f \in build.todo
    /\ build' = [build EXCEPT !.todo = @ \ {f}, !.running = @ \cup {f}]
    /\ UNCHANGED <<objects, stamp, deleted>>

Compiled(f) ==
    /\ build.phase = "compile" /\ f \in build.running
    /\ objects' = [objects EXCEPT ![f] = build.config]
    /\ build' = [build EXCEPT !.running = @ \ {f}]
    /\ UNCHANGED <<stamp, deleted>>

\* What a gcc that did not succeed has left of an object.
Remains(content) == {content, "missing", "partial"}

\* An error of gcc, a crash of it, or 120 s without an end.
Failed(f) ==
    /\ build.phase = "compile" /\ f \in build.running
    /\ \E left \in Remains(objects[f]) : objects' = [objects EXCEPT ![f] = left]
    /\ build' = [build EXCEPT !.running = @ \ {f},
                              !.result = IF build.result = "ok" THEN "failed" ELSE build.result]
    /\ UNCHANGED <<stamp, deleted>>

\* The jobs of the project's own files fail like those of the libraries.
ProjectFailed ==
    /\ build.phase = "compile" /\ build.result = "ok"
    /\ build' = [build EXCEPT !.result = "failed"]
    /\ UNCHANGED <<objects, stamp, deleted>>

\* Results are looked at in the order of the jobs, so later jobs may have been
\* started since.
Notice ==
    /\ build.phase = "compile" /\ build.result = "failed"
    /\ build' = [build EXCEPT !.result = "noticed"]
    /\ UNCHANGED <<objects, stamp, deleted>>

\* The jobs that run are waited for.
GiveUp ==
    /\ build.phase = "compile" /\ build.result = "noticed" /\ build.running = {}
    /\ build' = NoBuild
    /\ UNCHANGED <<objects, stamp, deleted>>

AllCompiled ==
    /\ build.phase = "compile" /\ build.result = "ok"
    /\ build.todo = {} /\ build.running = {}
    /\ build' = [build EXCEPT !.phase = IF build.valid = "yes" THEN "link" ELSE "stamp"]
    /\ UNCHANGED <<objects, stamp, deleted>>

\* The stamp is truncated and written; that it cannot be opened is no error.
TruncateStamp ==
    /\ build.phase = "stamp" /\ stamp # "partial"
    /\ stamp' = "partial"
    /\ UNCHANGED <<objects, build, deleted>>

WriteStamp ==
    /\ build.phase = "stamp"
    /\ \/ stamp = "partial" /\ stamp' = build.config
       \/ stamp # "partial" /\ UNCHANGED stamp
    /\ build' = [build EXCEPT !.phase = "link"]
    /\ UNCHANGED <<objects, deleted>>

Link ==
    /\ build.phase = "link"
    /\ build' = NoBuild
    /\ UNCHANGED <<objects, stamp, deleted>>

\* The program, and the compilers it runs, are killed.
Killed ==
    /\ build.phase # "idle"
    /\ build' = NoBuild
    /\ objects' \in [Files -> Contents]
    /\ \A f \in Files :
          IF f \in build.running THEN objects'[f] \in Remains(objects[f]) \cup {build.config}
          ELSE objects'[f] = objects[f]
    /\ UNCHANGED <<stamp, deleted>>

\* By hand, between two builds.
Delete(f) ==
    /\ build.phase = "idle" /\ objects[f] # "missing"
    /\ objects' = [objects EXCEPT ![f] = "missing"]
    /\ deleted' = "yes"
    /\ UNCHANGED <<stamp, build>>

CacheNext ==
    \/ \E config \in Configs : Begin(config)
    \/ \E f \in Files : Start(f) \/ Compiled(f) \/ Failed(f) \/ Delete(f)
    \/ ProjectFailed \/ Notice \/ GiveUp \/ AllCompiled
    \/ TruncateStamp \/ WriteStamp \/ Link \/ Killed

CacheSpec == CacheInit /\ [][CacheNext]_cacheVars

-----------------------------------------------------------------------------
(* Properties *)

\* Whatever builds have failed or been killed before, and for whichever
\* configurations, what is linked has been compiled for this configuration.
\* One case is left: an object that was deleted by hand under a valid stamp,
\* whose compilation was then interrupted, is taken for a good one.
NoStaleObject ==
    build.phase \in {"stamp", "link"} =>
        \A f \in Files :
            objects[f] = build.config \/ (deleted = "yes" /\ objects[f] = "partial")

=============================================================================
