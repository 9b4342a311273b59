---------------------------- MODULE ResponseLog ----------------------------
(***************************************************************************)
(* The response log (type Logger, infinitive.go) of a program started with *)
(* --rlog: the reader logs every frame it decodes to the file of the hour, *)
(* and main's deferred Close() closes it when webserver() has returned,    *)
(* while the reader is still running and without a lock.                   *)
(*                                                                         *)
(* The clock is read once in CheckRotate() and once more in Open().  It is *)
(* local time and may go back.  The operating system may fail to open a    *)
(* file or to write to it; files are opened with O_APPEND, without O_TRUNC.*)
(***************************************************************************)
EXTENDS Integers, SequencesExt

CONSTANTS
  Hours,      \* hours of the clock, as they appear in the name of a file
  MaxFrames,  \* bound: frames decoded
  MaxOpens    \* bound: files opened

ASSUME ResponseLogAssumption == MaxFrames \in Nat /\ MaxOpens \in Nat \ {0}

VARIABLES
  now,     \* the hour
  opened,  \* the hour in the name of every file opened, in order: a handle is
           \* a position in it
  open,    \* handles not closed
  f,       \* l.f, a handle or NoFile
  tds,     \* l.tds
  lines,   \* the frames in the file of each hour, by number
  frames,  \* frames decoded
  pc,      \* where the reader is in Log(), and main in Close()
  got,     \* the handle Open() has just got
  of,      \* the one it has replaced
  lost,    \* history: frames whose line the system did not write
  shown,   \* history: hours the clock has shown since Log() was called
  failed   \* history: Open() has failed since

historyVars == <<lost, shown, failed>>
logger == <<opened, open, f, tds>>
local == <<pc, got, of>>
logVars == <<now, logger, lines, frames, local, historyVars>>

LogUsers == {"reader", "main"}
NoFile == 0

LogTypeOK ==
  /\ now \in Hours /\ tds \in Hours
  /\ opened \in Seq(Hours)
  /\ open \subseteq DOMAIN opened
  /\ f \in DOMAIN opened \cup {NoFile}
  /\ lines \in [Hours -> Seq(1 .. frames)]
  /\ pc \in [LogUsers ->
       {"idle", "check", "open", "install", "closeOld", "use", "clear", "done"}]
  /\ got \in [LogUsers -> DOMAIN opened \cup {NoFile}]
  /\ of \in [LogUsers -> DOMAIN opened \cup {NoFile}]
  /\ lost \subseteq 1 .. frames /\ shown \subseteq Hours /\ failed \in BOOLEAN

\* main: Open() has succeeded.
LogInit ==
  /\ now \in Hours
  /\ opened = <<now>> /\ open = {1} /\ f = 1 /\ tds = now
  /\ lines = [h \in Hours |-> <<>>] /\ frames = 0
  /\ pc = [g \in LogUsers |-> "idle"]
  /\ got = [g \in LogUsers |-> NoFile]
  /\ of = [g \in LogUsers |-> NoFile]
  /\ lost = {} /\ shown = {} /\ failed = FALSE

-----------------------------------------------------------------------------

Goto(g, label) == pc' = [pc EXCEPT ![g] = label]

Clock ==
  /\ now' \in Hours
  /\ shown' = shown \cup {now'}
  /\ UNCHANGED <<logger, lines, frames, local, lost, failed>>

Log ==
  /\ pc["reader"] = "idle" /\ frames < MaxFrames
  /\ frames' = frames + 1
  /\ shown' = {now} /\ failed' = FALSE
  /\ Goto("reader", "check")
  /\ UNCHANGED <<now, logger, lines, got, of, lost>>

Close ==
  /\ pc["main"] = "idle"
  /\ Goto("main", "check")
  /\ UNCHANGED <<now, logger, lines, frames, got, of, historyVars>>

CheckRotate(g) ==
  /\ pc[g] = "check"
  /\ Goto(g, IF tds # now THEN "open" ELSE "use")
  /\ UNCHANGED <<now, logger, lines, frames, got, of, historyVars>>

\* Mutant of OpenFile: the file is truncated.
OpenFileTruncated(g) ==
  /\ pc[g] = "open" /\ Len(opened) < MaxOpens
  /\ opened' = Append(opened, now)
  /\ open' = open \cup {Len(opened')}
  /\ got' = [got EXCEPT ![g] = Len(opened')]
  /\ lines' = [lines EXCEPT ![now] = <<>>]
  /\ Goto(g, "install")
  /\ UNCHANGED <<now, f, tds, frames, of, historyVars>>

OpenFile(g) ==
  /\ pc[g] = "open" /\ Len(opened) < MaxOpens
  /\ opened' = Append(opened, now)
  /\ open' = open \cup {Len(opened')}
  /\ got' = [got EXCEPT ![g] = Len(opened')]
  /\ Goto(g, "install")
  /\ UNCHANGED <<now, f, tds, lines, frames, of, historyVars>>

\* Open() when the file cannot be opened leaves this file and hour behind.
OpenFileWith(g, file, hour) ==
  /\ pc[g] = "open"
  /\ f' = file /\ tds' = hour
  /\ failed' = (failed \/ g = "reader")
  /\ Goto(g, "use")
  /\ UNCHANGED <<now, opened, open, lines, frames, got, of, lost, shown>>

\* Mutants of OpenFails: nil is assigned unchecked; the hour is.
OpenFailsToNil(g) == OpenFileWith(g, NoFile, tds)
OpenFailsForGood(g) == OpenFileWith(g, f, now)

\* The file in use stays in use, and the next frame tries again.
OpenFails(g) == OpenFileWith(g, f, tds)

\* The rest of Open().
Install(g) ==
  /\ pc[g] = "install"
  /\ f' = got[g] /\ tds' = opened[got[g]]
  /\ of' = [of EXCEPT ![g] = f]
  /\ Goto(g, IF f = NoFile THEN "use" ELSE "closeOld")
  /\ UNCHANGED <<now, opened, open, lines, frames, got, historyVars>>

\* Mutant of CloseOld: it is forgotten.
CloseNothing(g) ==
  /\ pc[g] = "closeOld"
  /\ Goto(g, "use")
  /\ UNCHANGED <<now, logger, lines, frames, got, of, historyVars>>

CloseOld(g) ==
  /\ pc[g] = "closeOld"
  /\ open' = open \ {of[g]}
  /\ Goto(g, "use")
  /\ UNCHANGED <<now, opened, f, tds, lines, frames, got, of, historyVars>>

\* The rest of Log(): without a file nothing is written; a write may fail, and
\* does on a file that is closed.
WriteString ==
  /\ pc["reader"] = "use"
  /\ Goto("reader", "idle")
  /\ \/ /\ f \in open
        /\ lines' = [lines EXCEPT ![opened[f]] = Append(@, frames)]
        /\ UNCHANGED lost
     \/ /\ f # NoFile
        /\ lost' = lost \cup {frames}
        /\ UNCHANGED lines
     \/ f = NoFile /\ UNCHANGED <<lost, lines>>
  /\ UNCHANGED <<now, logger, frames, got, of, shown, failed>>

\* The rest of Close(), which forgets the file only if it could close it.
CloseFile ==
  /\ pc["main"] = "use"
  /\ open' = open \ {f}
  /\ Goto("main", IF f \in open THEN "clear" ELSE "done")
  /\ UNCHANGED <<now, opened, f, tds, lines, frames, got, of, historyVars>>

ClearFile ==
  /\ pc["main"] = "clear"
  /\ f' = NoFile
  /\ Goto("main", "done")
  /\ UNCHANGED <<now, opened, open, tds, lines, frames, got, of, historyVars>>

\* The program ends when main has returned.
LogNext ==
  /\ pc["main"] # "done"
  /\ \/ Clock \/ Log \/ Close \/ WriteString \/ CloseFile \/ ClearFile
     \/ \E g \in LogUsers :
          CheckRotate(g) \/ OpenFile(g) \/ OpenFails(g) \/ Install(g) \/ CloseOld(g)

LogSpec == LogInit /\ [][LogNext]_logVars

-----------------------------------------------------------------------------
(* Properties.                                                             *)

Running == pc["main"] = "idle"

\* Between two frames one file is open, the one that is written to, however often
\* the hour changed and opening failed.
OneFileIsOpen == Running /\ pc["reader"] = "idle" => open = {f}

\* README.md:82, "log all requests and responses seen": each frame decoded has a
\* line in one file, unless the system refused to write it.
FramesAreLogged ==
  Running /\ pc["reader"] = "idle" =>
    \A n \in (1 .. frames) \ lost : Cardinality({h \in Hours : Contains(lines[h], n)}) = 1

\* "in an hourly log file": a line goes to the file of an hour the clock has shown
\* while it was being logged, unless that file could not be opened just then.
LinesAreInTheirHour ==
  [][Running => \A h \in Hours : lines'[h] # lines[h] => h \in shown \/ failed]_logVars

\* What is in a file stays there, in the order the frames came, although an hour
\* comes twice when the clock goes back.
FilesOnlyGrow ==
  [][\A h \in Hours : IsPrefix(lines[h], lines'[h])]_logVars
=============================================================================
