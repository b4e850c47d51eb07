---------------------------- MODULE ProjectFiles ----------------------------
(***************************************************************************)
(* One file of the project (ProjectModel of ui/bridge/Models.cpp): the text *)
(* in the editor, which is saved 200 ms after the last key and by Ctrl+S    *)
(* and Build, and the file on disk, which other programs write, replace and *)
(* remove.  The watcher reports every write, the program's own as well;     *)
(* writing_ tells it for 100 ms after a save to take no notice.  Its watch  *)
(* ends with the file, and any opening of the file may fail.               *)
(***************************************************************************)
EXTENDS Integers, Sequences, SequencesExt

CONSTANTS
    Texts,      \* contents of the file
    Empty,      \* the one that is shown for a file that cannot be read
    Absent,     \* no file: not on disk, or not in the project
    SaveDelay,  \* of saveTimer_, 200 ms
    Window,     \* how long a save keeps the path in writing_, 100 ms
    Latency,    \* bound: how long the watcher takes
    MaxSaves    \* bound: saves within one Window

\* A report of a save arrives before its window ends.
FilesAssumption ==
    /\ Empty \in Texts /\ Absent \notin Texts
    /\ {SaveDelay, Window, Latency, MaxSaves} \subseteq Nat /\ Latency < Window

VARIABLES
    disk,       \* the file's content, or Absent
    editor,     \* content and dirty of the ProjectFile
    saveIn,     \* time until saveTimer_ fires; -1 when it is stopped
    writing,    \* the path is in writing_
    windows,    \* time until each single shot of flushSaves removes it
    watched,    \* the path is one of watcher_->files()
    notices,    \* reports of the watcher under way: by whom, when at the latest,
                \* and whether the file that was watched is gone (removed or replaced)
    missed,     \* history: a change was taken for a save, or could not be read
    refused     \* history: the file could not be opened for writing

fileVars == <<disk, editor, saveIn, writing, windows, watched, notices, missed, refused>>

Stopped == -1

FilesTypeOK ==
    /\ disk \in Texts \cup {Absent}
    /\ editor \in [text : Texts \cup {Absent}, dirty : BOOLEAN]
    /\ saveIn \in Stopped .. SaveDelay
    /\ writing \in BOOLEAN /\ windows \in Seq(0 .. Window) /\ Len(windows) <= MaxSaves
    /\ watched \in BOOLEAN
    /\ notices \subseteq [by : {"us", "other"}, gone : BOOLEAN, left : 0 .. Latency]
    /\ missed \in BOOLEAN /\ refused \in BOOLEAN

FilesInit ==
    /\ disk \in Texts /\ editor = [text |-> disk, dirty |-> FALSE]
    /\ saveIn = Stopped /\ writing = FALSE /\ windows = <<>>
    /\ watched = TRUE /\ notices = {}
    /\ missed = FALSE /\ refused = FALSE

-----------------------------------------------------------------------------

\* A change is reported while the file is watched that was there when the
\* watch was put on.
Heard == watched /\ \A n \in notices : ~ n.gone

Reported(by, gone) ==
    IF Heard THEN notices \cup {[by |-> by, gone |-> gone, left |-> Latency]} ELSE notices

\* flushSaves for a file whose content is text; the file is there then, and watched.
Saved(text) ==
    /\ Len(windows) < MaxSaves
    /\ disk' = text /\ editor' = [text |-> text, dirty |-> FALSE]
    /\ writing' = TRUE /\ windows' = Append(windows, Window)
    /\ watched' = TRUE /\ notices' = Reported("us", FALSE)
    /\ missed' = FALSE /\ refused' = FALSE

\* The path leaves writing_ at once if the file cannot be opened.
Refused(text) ==
    /\ editor' = [text |-> text, dirty |-> TRUE]
    /\ writing' = FALSE /\ refused' = TRUE
    /\ UNCHANGED <<disk, windows, watched, notices, missed>>

FlushSaves(text, dirty) ==
    \/ dirty /\ (Saved(text) \/ Refused(text))
    \/ ~ dirty /\ UNCHANGED <<disk, editor, writing, windows, watched, notices, missed, refused>>

\* setCurrentContent
Type(text) ==
    /\ editor.text \notin {Absent, text}
    /\ editor' = [text |-> text, dirty |-> TRUE]
    /\ saveIn' = SaveDelay /\ refused' = FALSE
    /\ UNCHANGED <<disk, writing, windows, watched, notices, missed>>

\* saveAll: Ctrl+S, Build, and before files are renamed or removed.
SaveAll == saveIn' = Stopped /\ FlushSaves(editor.text, editor.dirty)

SaveTimer == saveIn = 0 /\ SaveAll

\* setFileContent, for the code of the clock configurator.
SetFileContent(text) ==
    /\ editor.text \notin {Absent, text}
    /\ saveIn' = Stopped /\ FlushSaves(text, TRUE)

\* loadFromDirectory: a file that is not there leaves the project, one that
\* cannot be opened is shown empty.
Load(text, reports) ==
    /\ editor' \in {[text |-> shown, dirty |-> FALSE] :
                     shown \in IF text = Absent THEN {Absent} ELSE {text, Empty}}
    /\ missed' = (editor'.text # text)
    /\ watched' = (text # Absent)
    /\ notices' \in IF text = Absent THEN {{}} ELSE SUBSET {[n EXCEPT !.gone = FALSE] : n \in reports}

\* openPath of the project that is open already: it is saved and read again.
\* The watch is put on anew, and reports under way may be lost with the old one.
OpenAgain ==
    /\ saveIn' = Stopped
    /\ \/ /\ editor.dirty /\ Len(windows) < MaxSaves
          /\ disk' = editor.text
          /\ writing' = TRUE /\ windows' = Append(windows, Window) /\ refused' = FALSE
          /\ Load(editor.text, Reported("us", FALSE))
       \/ /\ disk' = disk /\ UNCHANGED windows
          /\ writing' = (writing /\ ~ editor.dirty) /\ refused' = editor.dirty
          /\ Load(disk, notices)

\* Another program writes, creates, replaces or removes the file.
OtherWrites(text, gone) ==
    /\ text # disk /\ (text = Absent => gone)
    /\ disk' = text /\ notices' = Reported("other", gone)
    /\ UNCHANGED <<editor, saveIn, writing, windows, watched, missed, refused>>

\* Mutant of Ignored: the program does not know its own writes.
IgnoredNever == FALSE

Ignored == writing

\* reloadFromDisk.  The watcher drops the path of a file that is gone, and
\* with it the reports under way; it is told again if there is a file.
ReloadFromDisk(notice) ==
    /\ watched' = ((watched /\ ~ notice.gone) \/ disk # Absent)
    /\ notices' = IF watched' THEN notices \ {notice} ELSE {}
    /\ \/ /\ Ignored
          /\ missed' = (missed \/ (notice.by = "other" /\ disk # editor.text))
          /\ UNCHANGED editor
       \/ /\ ~ Ignored                       \* the file cannot be opened
          /\ missed' = (missed \/ disk # editor.text)
          /\ UNCHANGED editor
       \/ /\ ~ Ignored /\ disk # Absent
          /\ editor' = IF disk = editor.text THEN editor ELSE [text |-> disk, dirty |-> FALSE]
          /\ missed' = FALSE
    /\ UNCHANGED <<disk, saveIn, writing, windows, refused>>

\* The single shot of a save, whichever save put the path there last.
Expire(i) ==
    /\ windows[i] = 0
    /\ windows' = RemoveAt(windows, i) /\ writing' = FALSE
    /\ UNCHANGED <<disk, editor, saveIn, watched, notices, missed, refused>>

\* 50 ms pass; what is due happens before.
Pass ==
    /\ saveIn # 0
    /\ \A i \in DOMAIN windows : windows[i] > 0
    /\ \A n \in notices : n.left > 0
    /\ saveIn' = IF saveIn = Stopped THEN Stopped ELSE saveIn - 1
    /\ windows' = [i \in DOMAIN windows |-> windows[i] - 1]
    /\ notices' = {[n EXCEPT !.left = @ - 1] : n \in notices}
    /\ UNCHANGED <<disk, editor, writing, watched, missed, refused>>

FilesNext ==
    \/ \E text \in Texts : Type(text) \/ SetFileContent(text)
    \/ \E text \in Texts \cup {Absent}, gone \in BOOLEAN : OtherWrites(text, gone)
    \/ SaveAll \/ SaveTimer \/ OpenAgain
    \/ \E notice \in notices : ReloadFromDisk(notice)
    \/ \E i \in DOMAIN windows : Expire(i)
    \/ Pass

FilesSpec == FilesInit /\ [][FilesNext]_fileVars

-----------------------------------------------------------------------------
(* Properties *)

\* A report of the watcher throws away what the user has typed only for the
\* text of another program; with one exception, the single shot (or refusal)
\* of one save that took the path of another out of writing_ before its time:
\* the late report of a save then undoes the keys pressed since.
DiscardStep ==
    \A n \in notices :
        ReloadFromDisk(n) /\ editor.dirty /\ ~ editor'.dirty =>
            \/ \E other \in notices : other.by = "other"
            \/ windows # <<>> /\ ~ writing

\* What was typed is saved in the end; and when nothing is under way, the
\* editor shows the file it watches, unless the last change of another program
\* came just after a save, or could not be read.
InStep ==
    /\ editor.dirty => saveIn # Stopped \/ refused
    /\ watched /\ notices = {} /\ ~ editor.dirty => disk = editor.text \/ missed

\* A watch is given up only where there is no file.
WatchStep == watched /\ ~ watched' => disk' = Absent

EditsKept == [][DiscardStep /\ WatchStep /\ InStep']_fileVars

=============================================================================
