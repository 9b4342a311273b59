-------------------------- MODULE DiagnosticsProofs -------------------------
(***************************************************************************)
(* Theorems about the response log and about the statistics, for any hours *)
(* and any numbers of frames, files, callers, actions and reports.         *)
(***************************************************************************)
EXTENDS Statistics, ResponseLog, FiniteSetTheorems, TLAPS

(***************************************************************************)
(* PART 1: the response log.                                               *)
(***************************************************************************)

Reader == pc["reader"]

\* Types, and what the two goroutines' labels say of the types.
TypeInv ==
  /\ LogTypeOK
  /\ frames \in Nat
  /\ \A g \in LogUsers : pc[g] = "install" => got[g] \in DOMAIN opened
  /\ Reader # "idle" => frames > 0
  /\ Reader \notin {"clear", "done"}

LEMMA HandleAppended ==
  ASSUME NEW S, NEW s \in Seq(S), NEW x \in S
  PROVE  /\ Append(s, x) \in Seq(S)
         /\ Len(s) \in Nat /\ Len(Append(s, x)) = Len(s) + 1
         /\ DOMAIN s = 1 .. Len(s) /\ DOMAIN Append(s, x) = 1 .. Len(s) + 1
         /\ \A i \in DOMAIN s : Append(s, x)[i] = s[i]
         /\ Append(s, x)[Len(s) + 1] = x
  OBVIOUS

LEMMA SeqMonotone ==
  ASSUME NEW A, NEW B, A \subseteq B, NEW s \in Seq(A)
  PROVE  s \in Seq(B)
  OBVIOUS

LEMMA FunctionInto ==
  ASSUME NEW D, NEW A, NEW B, NEW fn \in [D -> A], \A d \in D : fn[d] \in B
  PROVE  fn \in [D -> B]
  OBVIOUS

LEMMA LoggerTypeStep == TypeInv /\ [LogNext]_logVars => TypeInv'
<1> SUFFICES ASSUME TypeInv, [LogNext]_logVars
             PROVE  TypeInv'
  OBVIOUS
<1> USE DEF LogUsers, NoFile
<1>1. CASE UNCHANGED logVars
  BY <1>1 DEF TypeInv, Reader, LogTypeOK, logVars, logger, local,
              historyVars
<1>2. CASE Clock
  BY <1>2 DEF TypeInv, Reader, LogTypeOK, Clock, logger, local
<1>3. CASE Log
  <2>1. frames' = frames + 1 /\ lines' = lines /\ lost' = lost
    BY <1>3 DEF Log
  <2>2. lines' \in [Hours -> Seq(1 .. frames')] /\ lost' \subseteq 1 .. frames'
    <3>1. 1 .. frames \subseteq 1 .. frames'
      BY <2>1 DEF TypeInv
    <3>2. lines' \in [Hours -> Seq(1 .. frames)] /\ lost' \subseteq 1 .. frames
      BY <2>1 DEF TypeInv, LogTypeOK
    <3>3. \A h \in Hours : lines'[h] \in Seq(1 .. frames')
      BY <3>1, <3>2, SeqMonotone
    <3>4. lines' \in [Hours -> Seq(1 .. frames')]
      BY <3>2, <3>3, FunctionInto
    <3>5. lost' \subseteq 1 .. frames'
      BY <3>1, <3>2
    <3>6. QED BY <3>4, <3>5, Zenon
  <2>3. /\ pc' = [pc EXCEPT !["reader"] = "check"] /\ shown' = {now} /\ failed' = FALSE
        /\ UNCHANGED <<now, opened, open, f, tds, got, of>>
    BY <1>3 DEF Log, Goto, logger
  <2>4. frames' \in Nat /\ frames' > 0
    BY <2>1 DEF TypeInv
  <2>5. LogTypeOK'
    BY <2>2, <2>3 DEF TypeInv, LogTypeOK
  <2>6. QED BY <2>3, <2>4, <2>5 DEF TypeInv, Reader, LogTypeOK
<1>4. CASE Close \/ ClearFile
  BY <1>4 DEF TypeInv, Reader, LogTypeOK, Close, ClearFile, Goto,
              logger, historyVars
<1>5. CASE WriteString
  <2>1. lines' \in [Hours -> Seq(1 .. frames)] /\ lost' \subseteq 1 .. frames
    <3>1. frames \in 1 .. frames
      BY <1>5 DEF TypeInv, Reader, WriteString
    <3>2. CASE /\ f \in open
               /\ lines' = [lines EXCEPT ![opened[f]] = Append(@, frames)]
               /\ UNCHANGED lost
      <4>1. opened[f] \in Hours
        BY <3>2 DEF TypeInv, LogTypeOK
      <4>2. Append(lines[opened[f]], frames) \in Seq(1 .. frames)
        BY <3>1, <4>1, HandleAppended DEF TypeInv, LogTypeOK
      <4>3. QED BY <3>2, <4>2 DEF TypeInv, LogTypeOK
    <3>3. CASE lost' = lost \cup {frames} /\ UNCHANGED lines
      BY <3>1, <3>3 DEF TypeInv, LogTypeOK
    <3>4. CASE UNCHANGED <<lost, lines>>
      BY <3>4 DEF TypeInv, LogTypeOK
    <3>5. QED BY <1>5, <3>2, <3>3, <3>4 DEF WriteString
  <2>2. QED
    BY <1>5, <2>1
       DEF TypeInv, Reader, LogTypeOK, WriteString, Goto, logger
<1>6. CASE CloseFile
  BY <1>6 DEF TypeInv, Reader, LogTypeOK, CloseFile, Goto, historyVars
<1>7. ASSUME NEW g \in LogUsers, OpenFile(g)
      PROVE  TypeInv'
  <2>1. /\ opened' \in Seq(Hours) /\ DOMAIN opened \subseteq DOMAIN opened'
        /\ Len(opened') \in DOMAIN opened'
    <3>1. opened \in Seq(Hours) /\ now \in Hours /\ opened' = Append(opened, now)
      BY <1>7 DEF TypeInv, LogTypeOK, OpenFile
    <3>2. QED BY <3>1, HandleAppended
  <2>2. got' = [got EXCEPT ![g] = Len(opened')] /\ open' = open \cup {Len(opened')}
    BY <1>7 DEF OpenFile
  <2>3. /\ got' \in [LogUsers -> DOMAIN opened' \cup {0}]
        /\ of' \in [LogUsers -> DOMAIN opened' \cup {0}]
        /\ open' \subseteq DOMAIN opened' /\ f' \in DOMAIN opened' \cup {0}
        /\ \A h \in LogUsers : pc'[h] = "install" => got'[h] \in DOMAIN opened'
    BY <1>7, <2>1, <2>2
       DEF TypeInv, LogTypeOK, OpenFile, Goto
  <2>4. pc' = [pc EXCEPT ![g] = "install"] /\ pc[g] = "open"
        /\ UNCHANGED <<now, tds, lines, frames, lost, shown, failed>>
    BY <1>7 DEF OpenFile, Goto, historyVars
  <2>5. QED BY <2>1, <2>3, <2>4 DEF TypeInv, Reader, LogTypeOK
<1>8. ASSUME NEW g \in LogUsers,
             CheckRotate(g) \/ OpenFails(g) \/ CloseOld(g)
      PROVE  TypeInv'
  BY <1>8 DEF TypeInv, Reader, LogTypeOK, CheckRotate, OpenFails,
              OpenFileWith, CloseOld, Goto, logger, historyVars
<1>9. ASSUME NEW g \in LogUsers, Install(g)
      PROVE  TypeInv'
  <2>1. f' = got[g] /\ got[g] \in DOMAIN opened /\ tds' \in Hours
    BY <1>9 DEF TypeInv, LogTypeOK, Install
  <2>2. QED
    BY <1>9, <2>1 DEF TypeInv, Reader, LogTypeOK, Install, Goto,
                      historyVars
<1>10. QED
  BY <1>1, <1>2, <1>3, <1>4, <1>5, <1>6, <1>7, <1>8, <1>9 DEF LogNext

LEMMA LoggerInitTypes == LogInit => TypeInv
<1> SUFFICES ASSUME LogInit PROVE TypeInv
  OBVIOUS
<1>1. /\ opened \in Seq(Hours) /\ DOMAIN opened = {1}
      /\ lines \in [Hours -> Seq(1 .. frames)]
  BY DEF LogInit
<1>2. QED
  BY <1>1 DEF LogInit, TypeInv, Reader, LogTypeOK, LogUsers, NoFile

LEMMA LoggerTypes == LogSpec => []TypeInv
  BY LoggerInitTypes, LoggerTypeStep, PTL DEF LogSpec

\* What is in a file stays there.
THEOREM FilesOnlyGrowCorrect == LogSpec => FilesOnlyGrow
<1>1. ASSUME NEW S, NEW s \in Seq(S), NEW x \in S
      PROVE  IsPrefix(s, s) /\ IsPrefix(s, Append(s, x))
  BY DEF IsPrefix
<1>2. TypeInv /\ [LogNext]_logVars =>
        [\A h \in Hours : IsPrefix(lines[h], lines'[h])]_logVars
  <2> SUFFICES ASSUME TypeInv, LogNext, NEW h \in Hours
               PROVE  IsPrefix(lines[h], lines'[h])
    OBVIOUS
  <2>1. lines \in [Hours -> Seq(1 .. frames)]
    BY DEF TypeInv, LogTypeOK
  <2>2. \/ lines' = lines
        \/ /\ lines' = [lines EXCEPT ![opened[f]] = Append(@, frames)]
           /\ Reader # "idle"
    BY DEF LogNext, Clock, Log, Close, WriteString,
           CloseFile, ClearFile, CheckRotate, OpenFile,
           OpenFails, OpenFileWith, Install, CloseOld, Reader
  <2>3. CASE lines' = lines
    BY <1>1, <2>1, <2>3
  <2>4. CASE lines' = [lines EXCEPT ![opened[f]] = Append(@, frames)] /\ Reader # "idle"
    <3>1. frames \in 1 .. frames
      BY <2>4 DEF TypeInv
    <3>2. lines'[h] = lines[h] \/ lines'[h] = Append(lines[h], frames)
      BY <2>1, <2>4
    <3>3. QED BY <1>1, <2>1, <3>1, <3>2
  <2>5. QED BY <2>2, <2>3, <2>4
<1>3. QED BY <1>2, LoggerTypes, PTL DEF LogSpec, FilesOnlyGrow

-----------------------------------------------------------------------------
(* While main waits in webserver(), the reader alone opens and closes.     *)

\* The file in use is open, beside it the one being installed or the one being
\* closed, and its hour is the one that the clock is compared with.
FileInv ==
  /\ f \in DOMAIN opened /\ tds = opened[f]
  /\ Reader \in {"idle", "check", "open", "use"} => open = {f}
  /\ Reader = "install" => got["reader"] # f /\ open = {f, got["reader"]}
  /\ Reader = "closeOld" => of["reader"] # f /\ open = {f, of["reader"]}

\* The hour of the file that is written to is one the clock has shown.
HourInv ==
  /\ Reader # "idle" => now \in shown
  /\ Reader = "install" => opened[got["reader"]] \in shown
  /\ Reader = "closeOld" => opened[f] \in shown
  /\ Reader = "use" => opened[f] \in shown \/ failed

\* Frame n has a line in the file of hour h.
Logged(n, h) == \E i \in DOMAIN lines[h] : lines[h][i] = n

\* A frame has a line in one file, once the reader is done with it.
LineInv ==
  /\ \A n \in 1 .. frames : \A h, k \in Hours : Logged(n, h) /\ Logged(n, k) => h = k
  /\ \A n \in (1 .. frames) \ lost :
       n # frames \/ Reader = "idle" => \E h \in Hours : Logged(n, h)
  /\ Reader # "idle" => \A h \in Hours : ~Logged(frames, h)

LoggerInv == TypeInv /\ (Running => FileInv /\ HourInv /\ LineInv)

\* main does not come back to webserver(), and while it is there acts on nothing.
LEMMA RunningStep ==
  ASSUME TypeInv, LogNext, Running'
  PROVE  /\ Running
         /\ \/ Clock \/ Log \/ WriteString
            \/ CheckRotate("reader") \/ OpenFile("reader")
            \/ OpenFails("reader") \/ Install("reader")
            \/ CloseOld("reader")
<1>1. "reader" # "main" /\ LogUsers = {"reader", "main"} /\ "main" \in DOMAIN pc
      /\ pc'["main"] = "idle"
  BY DEF TypeInv, LogTypeOK, LogUsers, Running
<1>2. ~Close /\ ~CloseFile /\ ~ClearFile
  BY <1>1 DEF Close, CloseFile, ClearFile, Goto
<1>3. /\ ~CheckRotate("main") /\ ~OpenFile("main") /\ ~OpenFails("main")
      /\ ~Install("main") /\ ~CloseOld("main")
  BY <1>1 DEF CheckRotate, OpenFile, OpenFails, OpenFileWith,
              Install, CloseOld, Goto
<1>4. \/ Clock \/ Log \/ WriteString
      \/ CheckRotate("reader") \/ OpenFile("reader")
      \/ OpenFails("reader") \/ Install("reader") \/ CloseOld("reader")
  BY <1>1, <1>2, <1>3 DEF LogNext
<1>5. pc["main"] = pc'["main"]
  BY <1>1, <1>4 DEF Clock, Log, WriteString, CheckRotate,
     OpenFile, OpenFails, OpenFileWith, Install, CloseOld,
     Goto, local, TypeInv, LogTypeOK
<1>6. QED BY <1>1, <1>4, <1>5 DEF Running

\* Where each action finds the reader and leaves it.
LEMMA ReaderMoves ==
  ASSUME TypeInv
  PROVE  /\ Clock => Reader' = Reader
         /\ Log => Reader = "idle" /\ Reader' = "check"
         /\ CheckRotate("reader") =>
              Reader = "check" /\ Reader' = IF tds # now THEN "open" ELSE "use"
         /\ OpenFile("reader") => Reader = "open" /\ Reader' = "install"
         /\ OpenFails("reader") => Reader = "open" /\ Reader' = "use"
         /\ Install("reader") =>
              Reader = "install" /\ Reader' = IF f = 0 THEN "use" ELSE "closeOld"
         /\ CloseOld("reader") => Reader = "closeOld" /\ Reader' = "use"
         /\ WriteString => Reader = "use" /\ Reader' = "idle"
<1>1. "reader" \in DOMAIN pc
  BY DEF TypeInv, LogTypeOK, LogUsers
<1>2. QED
  BY <1>1 DEF Reader, Clock, local, Log, CheckRotate,
     OpenFile, OpenFails, OpenFileWith, Install, CloseOld,
     WriteString, Goto, NoFile

LEMMA FileStep ==
  ASSUME TypeInv, TypeInv', LogNext, Running', FileInv, HourInv
  PROVE  FileInv' /\ HourInv'
<1> USE DEF FileInv, HourInv
<1>1. CASE Clock
  BY <1>1, ReaderMoves DEF Clock, logger, local
<1>2. CASE Log
  BY <1>2, ReaderMoves DEF Log, logger
<1>3. CASE WriteString
  BY <1>3, ReaderMoves DEF WriteString, logger
<1>4. CASE CheckRotate("reader")
  BY <1>4, ReaderMoves DEF CheckRotate, logger, historyVars
<1>5. CASE OpenFile("reader")
  <2>1. /\ opened \in Seq(Hours) /\ now \in Hours /\ opened' = Append(opened, now)
        /\ got' = [got EXCEPT !["reader"] = Len(opened')] /\ open' = open \cup {Len(opened')}
        /\ got'["reader"] = Len(opened')
        /\ UNCHANGED <<now, f, tds, of, shown, failed>>
    BY <1>5 DEF TypeInv, LogTypeOK, OpenFile, historyVars, LogUsers
  <2>2. /\ f \in DOMAIN opened' /\ opened'[f] = opened[f] /\ f # Len(opened')
        /\ opened'[Len(opened')] = now
    BY <2>1, HandleAppended
  <2>3. QED BY <1>5, <2>1, <2>2, ReaderMoves
<1>6. CASE OpenFails("reader")
  BY <1>6, ReaderMoves DEF OpenFails, OpenFileWith
<1>7. CASE Install("reader")
  <2>1. /\ f' = got["reader"] /\ tds' = opened[got["reader"]] /\ of'["reader"] = f
        /\ got["reader"] \in DOMAIN opened
        /\ UNCHANGED <<now, opened, open, shown, failed>>
    BY <1>7 DEF TypeInv, LogTypeOK, Install, historyVars, LogUsers
  <2>2. f # 0
    BY DEF TypeInv, LogTypeOK
  <2>3. QED BY <1>7, <2>1, <2>2, ReaderMoves
<1>8. CASE CloseOld("reader")
  BY <1>8, ReaderMoves DEF CloseOld, historyVars
<1>9. QED BY <1>1, <1>2, <1>3, <1>4, <1>5, <1>6, <1>7, <1>8, RunningStep

LEMMA LineStep ==
  ASSUME TypeInv, TypeInv', LogNext, Running', FileInv, LineInv
  PROVE  LineInv'
<1>1. CASE UNCHANGED <<lines, frames, lost>> /\ Reader # "idle" /\ Reader' # "idle"
  BY <1>1 DEF LineInv, Logged
<1>2. CASE Clock
  BY <1>2, ReaderMoves DEF LineInv, Logged, Clock
<1>3. CASE Log
  <2>1. /\ frames' = frames + 1 /\ frames \in Nat /\ lines' = lines /\ lost' = lost
        /\ lines \in [Hours -> Seq(1 .. frames)]
    BY <1>3 DEF Log, TypeInv, LogTypeOK
  <2>2. \A h \in Hours : \A i \in DOMAIN lines[h] : lines[h][i] \in 1 .. frames
    BY <2>1
  <2>3. \A h \in Hours : ~Logged(frames + 1, h)
    BY <2>1, <2>2 DEF Logged
  <2>4. \A n \in 1 .. frames' : n \in 1 .. frames \/ n = frames + 1
    BY <2>1
  <2>5. Reader = "idle" /\ Reader' = "check"
    BY <1>3, ReaderMoves
  <2>6. QED BY <2>1, <2>3, <2>4, <2>5 DEF LineInv, Logged
<1>4. CASE WriteString
  <2>1. /\ frames' = frames /\ frames \in 1 .. frames
        /\ Reader = "use" /\ Reader' = "idle" /\ opened[f] \in Hours
    <3>1. Reader = "use" /\ Reader' = "idle" /\ frames' = frames
      BY <1>4, ReaderMoves DEF WriteString
    <3>2. opened \in Seq(Hours) /\ f \in DOMAIN opened /\ frames \in Nat /\ frames > 0
      BY <3>1 DEF TypeInv, LogTypeOK, FileInv
    <3>3. QED BY <3>1, <3>2
  <2>2. CASE lines' = [lines EXCEPT ![opened[f]] = Append(@, frames)] /\ lost' = lost
    <3>1. PICK hour \in Hours : hour = opened[f]
      BY <2>1
    <3>2. /\ \A h \in Hours \ {hour} : lines'[h] = lines[h]
          /\ lines'[hour] = Append(lines[hour], frames)
          /\ lines[hour] \in Seq(1 .. frames)
      BY <2>2, <3>1 DEF TypeInv, LogTypeOK
    <3>3. \A n : (\E i \in DOMAIN lines'[hour] : lines'[hour][i] = n) <=>
                   Logged(n, hour) \/ n = frames
      <4>1. /\ Len(lines[hour]) \in Nat /\ DOMAIN lines[hour] = 1 .. Len(lines[hour])
            /\ DOMAIN lines'[hour] = 1 .. Len(lines[hour]) + 1
            /\ \A i \in 1 .. Len(lines[hour]) : lines'[hour][i] = lines[hour][i]
            /\ lines'[hour][Len(lines[hour]) + 1] = frames
        BY <2>1, <3>2, HandleAppended
      <4>2. /\ Len(lines[hour]) + 1 \in DOMAIN lines'[hour]
            /\ DOMAIN lines[hour] \subseteq DOMAIN lines'[hour]
            /\ \A i \in DOMAIN lines'[hour] :
                 i \in DOMAIN lines[hour] \/ i = Len(lines[hour]) + 1
        BY <4>1
      <4>3. QED BY ONLY <4>1, <4>2 DEF Logged
    <3>4. \A n \in 1 .. frames : \A h \in Hours :
            (\E i \in DOMAIN lines'[h] : lines'[h][i] = n) <=>
              Logged(n, h) \/ (n = frames /\ h = hour)
      BY <3>2, <3>3 DEF Logged
    <3>5. QED BY <2>1, <2>2, <3>1, <3>4 DEF LineInv, Logged
  <2>3. CASE lost' = lost \cup {frames} /\ lines' = lines
    BY <2>1, <2>3 DEF LineInv, Logged
  <2>4. f # NoFile
    BY DEF FileInv, TypeInv, LogTypeOK, NoFile
  <2>5. QED BY <1>4, <2>2, <2>3, <2>4 DEF WriteString
<1>5. CASE \/ CheckRotate("reader") \/ OpenFile("reader")
           \/ OpenFails("reader") \/ Install("reader") \/ CloseOld("reader")
  <2>1. UNCHANGED <<lines, frames, lost>>
    BY <1>5 DEF CheckRotate, OpenFile, OpenFails,
       OpenFileWith, Install, CloseOld, historyVars
  <2>2. Reader # "idle" /\ Reader' # "idle"
    BY <1>5, ReaderMoves
  <2>3. QED BY <1>1, <2>1, <2>2
<1>6. QED BY <1>2, <1>3, <1>4, <1>5, RunningStep

LEMMA LoggerInvCorrect == LogSpec => []LoggerInv
<1>1. LogInit => LoggerInv
  <2> SUFFICES ASSUME LogInit PROVE FileInv /\ HourInv /\ LineInv
    BY LoggerInitTypes DEF LoggerInv
  <2>1. DOMAIN opened = {1} /\ opened[1] = now
    BY DEF LogInit
  <2>2. FileInv /\ HourInv
    BY <2>1 DEF LogInit, FileInv, HourInv, Reader, LogUsers
  <2>3. LineInv
    BY DEF LogInit, LineInv, Logged, Reader, LogUsers
  <2>4. QED BY <2>2, <2>3
<1>2. LoggerInv /\ [LogNext]_logVars => LoggerInv'
  <2> SUFFICES ASSUME LoggerInv, [LogNext]_logVars
               PROVE  LoggerInv'
    OBVIOUS
  <2>1. TypeInv /\ TypeInv'
    BY LoggerTypeStep DEF LoggerInv
  <2>2. CASE UNCHANGED logVars
    BY <2>1, <2>2 DEF LoggerInv, Running, FileInv, HourInv, LineInv, Logged, Reader,
       logVars, logger, local, historyVars
  <2>3. CASE LogNext /\ Running'
    BY <2>1, <2>3, RunningStep, FileStep, LineStep DEF LoggerInv
  <2>4. QED BY <2>1, <2>2, <2>3 DEF LoggerInv
<1>3. QED BY <1>1, <1>2, PTL DEF LogSpec

\* Between two frames one file is open, the one in use: whatever the clock does and
\* however often the system fails to open a file, no handle is left behind.
THEOREM OneFileIsOpenCorrect == LogSpec => []OneFileIsOpen
<1>1. LoggerInv => OneFileIsOpen
  BY DEF LoggerInv, FileInv, Reader, OneFileIsOpen
<1>2. QED BY <1>1, LoggerInvCorrect, PTL

\* A frame the system wrote has its line in one file, and in no other.
THEOREM FramesAreLoggedCorrect == LogSpec => []FramesAreLogged
<1>1. ASSUME LoggerInv, Running, Reader = "idle", NEW n \in (1 .. frames) \ lost,
             NEW files, files = {h \in Hours : Contains(lines[h], n)}
      PROVE  Cardinality(files) = 1
  <2>1. \A h \in Hours : DOMAIN lines[h] = 1 .. Len(lines[h])
    BY <1>1 DEF LoggerInv, TypeInv, LogTypeOK
  <2>2. \A h \in Hours : Contains(lines[h], n) <=> Logged(n, h)
    BY <2>1 DEF Contains, Logged
  <2>3. PICK h \in Hours : Logged(n, h)
    BY <1>1 DEF LoggerInv, LineInv
  <2>4. \A k \in Hours : Logged(n, k) => k = h
    BY <1>1, <2>3 DEF LoggerInv, LineInv
  <2>5. files = {h}
    BY <1>1, <2>2, <2>3, <2>4
  <2>6. Cardinality({h}) = 1
    BY FS_Singleton
  <2>7. QED BY <2>5, <2>6
<1>2. ASSUME LoggerInv, Running, pc["reader"] = "idle", NEW n \in (1 .. frames) \ lost
      PROVE  Cardinality({h \in Hours : Contains(lines[h], n)}) = 1
  BY <1>1, <1>2 DEF Reader
<1>3. LoggerInv => FramesAreLogged
  BY <1>2 DEF FramesAreLogged
<1>4. QED BY <1>3, LoggerInvCorrect, PTL

\* A line goes to the file of an hour that the clock has shown since Log() was
\* called, unless a file could not be opened just then.
THEOREM LinesAreInTheirHourCorrect == LogSpec => LinesAreInTheirHour
<1>1. ASSUME LoggerInv, LogNext, Running, NEW h \in Hours, lines'[h] # lines[h]
      PROVE  h \in shown \/ failed
  <2>1. /\ lines' = [lines EXCEPT ![opened[f]] = Append(@, frames)]
        /\ Reader = "use"
    BY <1>1 DEF LogNext, Clock, Log, Close, WriteString,
           CloseFile, ClearFile, CheckRotate, OpenFile,
           OpenFails, OpenFileWith, Install, CloseOld, Reader
  <2>2. h = opened[f]
    BY <1>1, <2>1 DEF LoggerInv, TypeInv, LogTypeOK
  <2>3. QED BY <1>1, <2>1, <2>2 DEF LoggerInv, HourInv
<1>2. LoggerInv /\ [LogNext]_logVars =>
        [Running => \A h \in Hours : lines'[h] # lines[h] => h \in shown \/ failed]_logVars
  BY <1>1
<1>3. QED BY <1>2, LoggerInvCorrect, PTL DEF LogSpec, LinesAreInTheirHour

(***************************************************************************)
(* PART 2: the statistics.                                                 *)
(***************************************************************************)

\* Types, beside those of TypeOK the values under way.
StatsTypes ==
  /\ stats \in Objects
  /\ mem \in [Objects -> [Counters -> Nat]]
  /\ todo \in [Goroutines -> Seq(Counters \X Nat)]
  /\ at \in [Goroutines -> {"load", "read", "write"}]
  /\ \A g \in Goroutines : todo[g] = <<>> => at[g] = "load"
  /\ obj \in [Goroutines -> Objects] /\ \A g \in Goroutines : obj[g] \in 1 .. stats
  /\ val \in [Goroutines -> Nat] /\ quotient \in Nat
  /\ tries \in NoAction .. Retries
  /\ poller \in {"sleep", "ok", "storeOk", "fail", "storeFail", "print"}
  /\ poller # "sleep" => stats > 1
  /\ report \in [Counters -> Nat] /\ happened \in [Counters -> Nat]
  /\ reported \in [Counters -> Nat]

Doing(g) == Head(todo[g])[1]
By(g) == Head(todo[g])[2]

LEMMA HeadTyped ==
  ASSUME StatsTypes, NEW g \in Goroutines, todo[g] # <<>>
  PROVE  Doing(g) \in Counters /\ By(g) \in Nat /\ Tail(todo[g]) \in Seq(Counters \X Nat)
<1>1. todo[g] \in Seq(Counters \X Nat)
  BY DEF StatsTypes
<1>2. Head(todo[g]) \in Counters \X Nat /\ Tail(todo[g]) \in Seq(Counters \X Nat)
  BY <1>1
<1>3. QED BY <1>2 DEF Doing, By

\* One field of one object is written.
LEMMA FieldWritten ==
  ASSUME StatsTypes, NEW o \in Objects, NEW k \in Counters, NEW v \in Nat,
         mem' = [mem EXCEPT ![o][k] = v]
  PROVE  /\ mem' \in [Objects -> [Counters -> Nat]]
         /\ \A p \in Objects : \A c \in Counters :
              mem'[p][c] = IF p = o /\ c = k THEN v ELSE mem[p][c]
  BY DEF StatsTypes

\* The objects an access may find: but for a sum there is one.
LEMMA FoundIs ==
  ASSUME StatsTypes, NEW g \in Goroutines, NEW o \in Found(g)
  PROVE  /\ o \in Objects /\ o \in 1 .. stats
         /\ Doing(g) \notin Sums => o = obj[g]
<1>1. /\ obj[g] \in 1 .. stats /\ obj[g] \in Objects /\ stats \in Objects
      /\ stats \in Nat /\ obj[g] \in Nat
  BY StatisticsAssumption DEF StatsTypes, Objects
<1>2. o \in 1 .. stats /\ (Doing(g) \notin Sums => o = obj[g])
  BY <1>1 DEF Found, Doing
<1>3. QED BY <1>1, <1>2, StatisticsAssumption DEF Objects

\* What a store does.
LEMMA WriteEffect ==
  ASSUME StatsTypes, NEW g \in Goroutines, Write(g)
  PROVE  /\ at[g] = "write" /\ todo[g] # <<>> /\ obj[g] \in Objects /\ obj[g] \in 1 .. stats
         /\ Doing(g) \in Counters /\ By(g) \in Nat /\ val[g] \in Nat
         /\ mem' \in [Objects -> [Counters -> Nat]]
         /\ \E o \in 1 .. stats :
              /\ Doing(g) \notin Sums => o = obj[g]
              /\ \A p \in Objects : \A c \in Counters :
                   mem'[p][c] = IF p = o /\ c = Doing(g) THEN val[g] + By(g) ELSE mem[p][c]
         /\ happened' \in [Counters -> Nat]
         /\ \A c \in Counters :
              happened'[c] = IF c = Doing(g) THEN happened[c] + By(g) ELSE happened[c]
         /\ todo' = [todo EXCEPT ![g] = Tail(@)]
         /\ at' = [at EXCEPT ![g] = "load"] /\ obj' = [obj EXCEPT ![g] = 1]
         /\ val' = [val EXCEPT ![g] = 0]
         /\ UNCHANGED <<tries, stats, poller, quotient, report, reported>>
<1>1. /\ at[g] = "write" /\ todo[g] # <<>> /\ obj[g] \in Objects /\ obj[g] \in 1 .. stats
      /\ val[g] \in Nat
  BY DEF Write, Store, StatsTypes
<1>2. Doing(g) \in Counters /\ By(g) \in Nat
  BY <1>1, HeadTyped
<1>3. PICK o \in Found(g) : Store(g, o)
  BY DEF Write
<1>4. /\ o \in Objects /\ o \in 1 .. stats /\ (Doing(g) \notin Sums => o = obj[g])
      /\ mem' = [mem EXCEPT ![o][Doing(g)] = val[g] + By(g)]
      /\ happened' = [happened EXCEPT ![Doing(g)] = @ + By(g)]
  BY <1>3, FoundIs DEF Store, Doing, By
<1>8. val[g] + By(g) \in Nat
  BY <1>1, <1>2
<1>5. /\ mem' \in [Objects -> [Counters -> Nat]]
      /\ \A p \in Objects : \A c \in Counters :
           mem'[p][c] = IF p = o /\ c = Doing(g) THEN val[g] + By(g) ELSE mem[p][c]
  BY <1>2, <1>4, <1>8, FieldWritten
<1>6. /\ happened' \in [Counters -> Nat]
      /\ \A c \in Counters :
           happened'[c] = IF c = Doing(g) THEN happened[c] + By(g) ELSE happened[c]
  BY <1>2, <1>4 DEF StatsTypes
<1>7. QED BY <1>1, <1>2, <1>3, <1>4, <1>5, <1>6 DEF Store, broker, polling

\* What setting out to count does.
LEMMA CountTypes ==
  ASSUME StatsTypes, NEW g \in Goroutines, NEW increments \in Seq(Counters \X Nat),
         Count(g, increments), tries' \in NoAction .. Retries
  PROVE  StatsTypes'
  BY DEF StatsTypes, Count, polling

LEMMA Increments == \A c \in Counters : <<<<c, 1>>>> \in Seq(Counters \X Nat)
  OBVIOUS

LEMMA StatsTypesStep == StatsTypes /\ [Next]_vars => StatsTypes'
<1> SUFFICES ASSUME StatsTypes, [Next]_vars
             PROVE  StatsTypes'
  OBVIOUS
<1> USE StatisticsAssumption
<1>1. CASE UNCHANGED vars
  BY <1>1 DEF StatsTypes, vars, counting, polling, broker
<1>2. ASSUME NEW g \in Goroutines, Load(g)
      PROVE  StatsTypes'
  <2>1. obj' \in [Goroutines -> Objects] /\ \A h \in Goroutines : obj'[h] \in 1 .. stats'
    <3>1. stats \in Objects /\ stats \in 1 .. stats
      BY DEF StatsTypes, Objects
    <3>2. QED BY <1>2, <3>1 DEF StatsTypes, Load, polling
  <2>2. /\ at' \in [Goroutines -> {"load", "read", "write"}]
        /\ \A h \in Goroutines : todo'[h] = <<>> => at'[h] = "load"
    BY <1>2 DEF StatsTypes, Load
  <2>3. QED BY <1>2, <2>1, <2>2 DEF StatsTypes, Load, broker, polling
<1>3. ASSUME NEW g \in Goroutines, Read(g)
      PROVE  StatsTypes'
  <2>1. todo[g] # <<>> /\ \A o \in Found(g) : mem[o][Doing(g)] \in Nat
    <3>1. todo[g] # <<>>
      BY <1>3 DEF StatsTypes, Read
    <3>2. Doing(g) \in Counters
      BY <3>1, HeadTyped
    <3>3. \A o \in Found(g) : o \in Objects
      BY FoundIs
    <3>4. QED BY <3>1, <3>2, <3>3 DEF StatsTypes
  <2>2. val' \in [Goroutines -> Nat]
    BY <1>3, <2>1 DEF StatsTypes, Read, Doing
  <2>3. QED BY <1>3, <2>1, <2>2 DEF StatsTypes, Read, broker, polling
<1>4. ASSUME NEW g \in Goroutines, Write(g)
      PROVE  StatsTypes'
  <2>1. /\ todo[g] # <<>> /\ mem' \in [Objects -> [Counters -> Nat]]
        /\ happened' \in [Counters -> Nat]
        /\ todo' = [todo EXCEPT ![g] = Tail(@)]
        /\ at' = [at EXCEPT ![g] = "load"] /\ obj' = [obj EXCEPT ![g] = 1]
        /\ val' = [val EXCEPT ![g] = 0]
        /\ UNCHANGED <<tries, stats, poller, quotient, report, reported>>
    BY <1>4, WriteEffect
  <2>2. todo' \in [Goroutines -> Seq(Counters \X Nat)]
    <3>1. Tail(todo[g]) \in Seq(Counters \X Nat)
      BY <2>1, HeadTyped
    <3>2. QED BY <2>1, <3>1 DEF StatsTypes
  <2>3. 1 \in 1 .. stats /\ 1 \in Objects
    BY DEF StatsTypes, Objects
  <2>4. obj' \in [Goroutines -> Objects] /\ \A h \in Goroutines : obj'[h] \in 1 .. stats'
    BY <2>1, <2>3 DEF StatsTypes
  <2>5. /\ at' \in [Goroutines -> {"load", "read", "write"}]
        /\ \A h \in Goroutines : todo'[h] = <<>> => at'[h] = "load"
    BY <2>1 DEF StatsTypes
  <2>6. val' \in [Goroutines -> Nat]
    BY <2>1 DEF StatsTypes
  <2>7. QED BY <2>1, <2>2, <2>4, <2>5, <2>6 DEF StatsTypes
<1>5. ASSUME NEW c \in Callers, ReadTable(c)
      PROVE  StatsTypes'
  <2>1. c \in Goroutines /\ Count(c, <<<<"srdt", 1>>>>) /\ tries' \in NoAction .. Retries
    BY <1>5 DEF ReadTable, Goroutines, broker, StatsTypes
  <2>2. <<<<"srdt", 1>>>> \in Seq(Counters \X Nat)
    BY Increments DEF Counters
  <2>3. QED BY <2>1, <2>2, CountTypes
<1>6. CASE BeginAction \/ Retransmit
  <2>1. Broker \in Goroutines /\ tries' \in NoAction .. Retries
    BY <1>6 DEF BeginAction, Retransmit, Goroutines, StatsTypes, NoAction
  <2>2. /\ <<<<"aact", 1>>>> \in Seq(Counters \X Nat)
        /\ <<<<"aretr", 1>>>> \in Seq(Counters \X Nat)
    BY Increments DEF Counters
  <2>3. QED BY <1>6, <2>1, <2>2, CountTypes DEF BeginAction, Retransmit
<1>7. ASSUME NEW ms \in 1 .. MaxElapsed, ActionOk(ms) \/ ActionFails(ms)
      PROVE  StatsTypes'
  <2>1. /\ Broker \in Goroutines /\ tries' \in NoAction .. Retries /\ ms \in Nat
    BY <1>7 DEF ActionOk, ActionFails, Goroutines, NoAction
  <2>2. /\ <<<<IF tries = 0 THEN "aok1" ELSE "aokN", 1>>, <<"aokms", ms>>>> \in Seq(Counters \X Nat)
        /\ <<<<"afailms", ms>>, <<"afail", 1>>>> \in Seq(Counters \X Nat)
    BY <2>1 DEF Counters
  <2>3. QED BY <1>7, <2>1, <2>2, CountTypes DEF ActionOk, ActionFails
<1>8. CASE Swap
  BY <1>8 DEF StatsTypes, Swap, counting, broker, Objects
<1>9. ASSUME NEW total \in Counters, NEW count \in Nat,
             NEW store \in {"storeOk", "storeFail"}, NEW next \in {"fail", "print"},
             poller # "sleep", Divide(total, count, store, next)
      PROVE  StatsTypes'
  <2>1. stats - 1 \in Objects
    BY <1>9 DEF StatsTypes, Objects
  <2>2. ostats[total] \in Nat
    BY <2>1 DEF StatsTypes, ostats
  <2>3. quotient' \in Nat
    <3>1. CASE count > 0
      BY <1>9, <2>2, <3>1 DEF Divide
    <3>2. CASE ~(count > 0)
      BY <1>9, <3>2 DEF Divide, StatsTypes
    <3>3. QED BY <3>1, <3>2
  <2>4. /\ poller' \in {"storeOk", "storeFail", "fail", "print"}
        /\ UNCHANGED <<stats, report, reported, mem, todo, at, obj, val, happened, tries>>
    BY <1>9 DEF Divide, counting, broker
  <2>5. QED BY <1>9, <2>3, <2>4 DEF StatsTypes
<1>10. ASSUME NEW total \in Counters, NEW next \in {"fail", "print"},
              poller # "sleep", StoreQuotient(total, next)
       PROVE  StatsTypes'
  <2>1. stats - 1 \in Objects /\ quotient \in Nat
    BY <1>10 DEF StatsTypes, Objects
  <2>2. mem' \in [Objects -> [Counters -> Nat]]
    BY <1>10, <2>1, FieldWritten DEF StoreQuotient
  <2>3. QED BY <1>10, <2>2 DEF StatsTypes, StoreQuotient, broker
<1>11. CASE Averages
  <2>1. poller # "sleep" => stats - 1 \in Objects
    BY DEF StatsTypes, Objects
  <2>2. ASSUME poller # "sleep"
        PROVE  ostats["aok1"] + ostats["aokN"] \in Nat /\ ostats["afail"] \in Nat
    <3>1. ostats \in [Counters -> Nat]
      BY <2>1, <2>2 DEF StatsTypes, ostats
    <3>2. ostats["aok1"] \in Nat /\ ostats["aokN"] \in Nat /\ ostats["afail"] \in Nat
      BY <3>1 DEF Counters
    <3>3. QED BY <3>2
  <2>3. "aokms" \in Counters /\ "afailms" \in Counters
    BY DEF Counters
  <2>4. QED BY <1>9, <1>10, <1>11, <2>2, <2>3 DEF Averages
<1>12. CASE LogStats
  <2>1. stats - 1 \in Objects
    BY <1>12 DEF StatsTypes, LogStats, Objects
  <2>2. ostats \in [Counters -> Nat]
    BY <2>1 DEF StatsTypes, ostats
  <2>3. QED BY <1>12, <2>2 DEF StatsTypes, LogStats, counting, broker
<1>13. QED
  BY <1>1, <1>2, <1>3, <1>4, <1>5, <1>6, <1>7, <1>8, <1>11, <1>12 DEF Next

-----------------------------------------------------------------------------
(* What each goroutine may be about to count.                              *)

Begins == todo[Broker] = <<<<"aact", 1>>>>
Repeats == todo[Broker] = <<<<"aretr", 1>>>>
EndsOk == \E ms \in Nat : \E ok \in {"aok1", "aokN"} :
            todo[Broker] = <<<<ok, 1>>, <<"aokms", ms>>>>
AddsOk == \E ms \in Nat : todo[Broker] = <<<<"aokms", ms>>>>
AddsFailed == \E ms \in Nat : todo[Broker] = <<<<"afailms", ms>>, <<"afail", 1>>>>
EndsFailed == todo[Broker] = <<<<"afail", 1>>>>

TodoInv ==
  /\ \A c \in Callers : todo[c] \in {<<>>, <<<<"srdt", 1>>>>}
  /\ \/ todo[Broker] = <<>> \/ Begins \/ Repeats
     \/ EndsOk \/ AddsOk \/ AddsFailed \/ EndsFailed
  /\ Begins => tries = 0
  /\ EndsOk \/ AddsOk \/ AddsFailed \/ EndsFailed => tries = NoAction

LEMMA CallerDoes ==
  ASSUME TodoInv, NEW c \in Callers, todo[c] # <<>>
  PROVE  Doing(c) = "srdt" /\ By(c) = 1 /\ Tail(todo[c]) = <<>>
<1>1. todo[c] = <<<<"srdt", 1>>>>
  BY DEF TodoInv
<1>2. QED BY <1>1 DEF Doing, By

\* The broker's first increment, and what is left when it is done.
LEMMA BrokerDoes ==
  ASSUME TodoInv, todo[Broker] # <<>>
  PROVE  \/ Begins /\ Doing(Broker) = "aact" /\ By(Broker) = 1 /\ Tail(todo[Broker]) = <<>>
         \/ Repeats /\ Doing(Broker) = "aretr" /\ By(Broker) = 1 /\ Tail(todo[Broker]) = <<>>
         \/ /\ EndsOk /\ Doing(Broker) \in {"aok1", "aokN"} /\ By(Broker) = 1
            /\ \E ms \in Nat : Tail(todo[Broker]) = <<<<"aokms", ms>>>>
         \/ AddsOk /\ Doing(Broker) = "aokms" /\ Tail(todo[Broker]) = <<>>
         \/ AddsFailed /\ Doing(Broker) = "afailms" /\ Tail(todo[Broker]) = <<<<"afail", 1>>>>
         \/ EndsFailed /\ Doing(Broker) = "afail" /\ By(Broker) = 1 /\ Tail(todo[Broker]) = <<>>
<1>1. CASE Begins
  BY <1>1 DEF Begins, Doing, By
<1>2. CASE Repeats
  BY <1>2 DEF Repeats, Doing, By
<1>3. CASE EndsOk
  <2>1. PICK ms \in Nat, ok \in {"aok1", "aokN"} : todo[Broker] = <<<<ok, 1>>, <<"aokms", ms>>>>
    BY <1>3 DEF EndsOk
  <2>2. Doing(Broker) = ok /\ By(Broker) = 1 /\ Tail(todo[Broker]) = <<<<"aokms", ms>>>>
    BY <2>1 DEF Doing, By
  <2>3. QED BY <1>3, <2>2
<1>4. CASE AddsOk
  <2>1. PICK ms \in Nat : todo[Broker] = <<<<"aokms", ms>>>>
    BY <1>4 DEF AddsOk
  <2>2. Doing(Broker) = "aokms" /\ Tail(todo[Broker]) = <<>>
    BY <2>1 DEF Doing
  <2>3. QED BY <1>4, <2>2
<1>5. CASE AddsFailed
  <2>1. PICK ms \in Nat : todo[Broker] = <<<<"afailms", ms>>, <<"afail", 1>>>>
    BY <1>5 DEF AddsFailed
  <2>2. Doing(Broker) = "afailms" /\ Tail(todo[Broker]) = <<<<"afail", 1>>>>
    BY <2>1 DEF Doing
  <2>3. QED BY <1>5, <2>2
<1>6. CASE EndsFailed
  BY <1>6 DEF EndsFailed, Doing, By
<1>7. QED BY <1>1, <1>2, <1>3, <1>4, <1>5, <1>6 DEF TodoInv

\* 1 while an action that has been counted as originated is not counted as ended.
InHand ==
  IF (tries # NoAction /\ ~Begins) \/ EndsOk \/ AddsFailed \/ EndsFailed THEN 1 ELSE 0

\* What InHand is of what the broker is about to count.
LEMMA HandOf ==
  ASSUME TodoInv
  PROVE  /\ todo[Broker] = <<>> => InHand = IF tries # NoAction THEN 1 ELSE 0
         /\ Begins => InHand = 0 /\ tries = 0
         /\ Repeats => InHand = IF tries # NoAction THEN 1 ELSE 0
         /\ EndsOk \/ AddsFailed \/ EndsFailed => InHand = 1 /\ tries = NoAction
         /\ AddsOk => InHand = 0 /\ tries = NoAction
<1>1. "aact" # "aretr" /\ "aact" # "aokms" /\ "aretr" # "aokms" /\ "aact" # "aok1"
      /\ "aact" # "aokN" /\ "aact" # "afailms" /\ "aact" # "afail" /\ "aretr" # "afail"
      /\ "aokms" # "afail" /\ "aretr" # "aok1" /\ "aretr" # "aokN" /\ "aretr" # "afailms"
  OBVIOUS
<1>2. \A ms, mt, ok : /\ <<<<"aokms", ms>>>> # <<<<ok, 1>>, <<"aokms", mt>>>>
                      /\ <<<<"aokms", ms>>>> # <<<<"afailms", mt>>, <<"afail", 1>>>>
                      /\ <<<<"aokms", ms>>>> # <<<<"afail", 1>>>>
                      /\ <<<<"aokms", ms>>>> # <<<<"aact", 1>>>>
                      /\ <<<<"aretr", 1>>>> # <<<<ok, 1>>, <<"aokms", mt>>>>
                      /\ <<<<"aretr", 1>>>> # <<<<"afailms", mt>>, <<"afail", 1>>>>
                      /\ <<<<"aact", 1>>>> # <<<<ok, 1>>, <<"aokms", mt>>>>
                      /\ <<<<"aact", 1>>>> # <<<<"afailms", mt>>, <<"afail", 1>>>>
  OBVIOUS
<1>3. QED
  BY <1>1, <1>2 DEF TodoInv, InHand, Begins, Repeats, EndsOk, AddsOk, AddsFailed, EndsFailed,
                    NoAction

-----------------------------------------------------------------------------
(* The invariant.                                                          *)

\* The broker's counters of single events.
Once == {"aact", "aretr", "aok1", "aokN", "afail"}

\* The object the broker counts in, or will.
Target == IF at[Broker] = "load" THEN stats ELSE obj[Broker]

\* Nothing is counted in an object before it is the one in use; only the broker
\* writes its counters, so that what it has read is what it finds when it stores.
CountsInv ==
  /\ \A o \in Objects : o > stats => \A c \in Counters : mem[o][c] = 0
  /\ \A o \in Objects : o > Target => \A c \in Once : mem[o][c] = 0
  /\ at[Broker] = "write" /\ Doing(Broker) \in Once =>
       val[Broker] = mem[obj[Broker]][Doing(Broker)]

Balance(s) == s["aact"] - s["aok1"] - s["aokN"] - s["afail"]

\* The broker's objects follow one another: the actions not balanced in the present
\* one are the one in hand, or one that began in an earlier object.
BalanceInv ==
  /\ InHand - Balance(mem[Target]) \in {0, 1}
  /\ \A o \in Objects : Balance(mem[o]) \in -1 .. 1
  /\ Balance(report) \in -1 .. 1

\* What happened and is neither in a report, in the object being reported nor in the
\* one in use.
Out(c) == happened[c] - reported[c] - mem[stats][c]
          - IF poller = "sleep" THEN 0 ELSE mem[stats - 1][c]

\* The increment under way may go to an object that is in use no longer.
Late == IF at[Broker] # "load" /\ obj[Broker] < stats THEN 1 ELSE 0

\* Each report costs the broker's counts at most one.
OutInv ==
  /\ \A c \in Once : Out(c) >= 0
  /\ Out("aact") + Out("aretr") + Out("aok1") + Out("aokN") + Out("afail") + Late <= stats - 1

\* Counter srdt of object o has value x, or will when a caller stores what it has read.
MayBe(o, x) ==
  \/ x = mem[o]["srdt"]
  \/ \E g \in Callers : at[g] = "write" /\ obj[g] = o /\ x = val[g]

\* Whatever callers overwrite of each other's counts, the sum is never too high.
CallersInv ==
  \A x, y \in Nat :
    MayBe(stats, x) /\ (IF poller = "sleep" THEN y = 0 ELSE MayBe(stats - 1, y)) =>
      reported["srdt"] + x + y <= happened["srdt"]

StatsInv == StatsTypes /\ TodoInv /\ CountsInv /\ BalanceInv /\ OutInv /\ CallersInv

LEMMA BrokerTypes ==
  ASSUME StatsTypes
  PROVE  /\ Broker \in Goroutines /\ Broker \notin Callers
         /\ stats \in Nat /\ obj[Broker] \in Nat /\ stats \in Objects /\ obj[Broker] \in Objects
         /\ Target \in Objects /\ Target <= stats /\ Objects \subseteq Nat
         /\ Once \subseteq Counters
         /\ \A o \in Objects : \A c \in Counters : mem[o][c] \in Nat
         /\ \A c \in Counters : happened[c] \in Nat /\ reported[c] \in Nat
         /\ poller # "sleep" => stats - 1 \in Objects
<1>1. Broker \in Goroutines /\ Broker \notin Callers /\ Once \subseteq Counters
  BY StatisticsAssumption DEF Goroutines, Once, Counters
<1>2. /\ stats \in Nat /\ stats \in Objects /\ Objects \subseteq Nat
      /\ poller # "sleep" => stats - 1 \in Objects
  BY StatisticsAssumption DEF StatsTypes, Objects
<1>3. obj[Broker] \in Objects /\ obj[Broker] \in Nat /\ obj[Broker] <= stats
  BY <1>1, <1>2 DEF StatsTypes
<1>4. Target \in Objects /\ Target <= stats
  BY <1>2, <1>3 DEF Target
<1>5. /\ \A o \in Objects : \A c \in Counters : mem[o][c] \in Nat
      /\ \A c \in Counters : happened[c] \in Nat /\ reported[c] \in Nat
  BY DEF StatsTypes
<1>6. QED BY <1>1, <1>2, <1>3, <1>4, <1>5

\* A step that is not the broker's and leaves its counters alone.
LEMMA BrokerRests ==
  ASSUME StatsTypes, CountsInv, BalanceInv, OutInv,
         UNCHANGED <<tries, stats, report, reported>>,
         poller' = "sleep" <=> poller = "sleep",
         todo'[Broker] = todo[Broker], at'[Broker] = at[Broker],
         obj'[Broker] = obj[Broker], val'[Broker] = val[Broker],
         \A o \in Objects : \A c \in Once : mem'[o][c] = mem[o][c],
         \A o \in Objects : o > stats => \A c \in Counters : mem'[o][c] = 0,
         \A c \in Once : happened'[c] = happened[c]
  PROVE  CountsInv' /\ BalanceInv' /\ OutInv'
<1>1. Target' = Target /\ InHand' = InHand /\ Doing(Broker)' = Doing(Broker) /\ Late' = Late
  BY DEF Target, InHand, Begins, EndsOk, AddsFailed, EndsFailed, Doing, Late
<1>2. /\ Target \in Objects /\ obj[Broker] \in Objects /\ stats \in Objects
      /\ poller # "sleep" => stats - 1 \in Objects
  BY BrokerTypes
<1>3. CountsInv'
  BY <1>1, <1>2 DEF CountsInv
<1>4. \A o \in Objects : Balance(mem'[o]) = Balance(mem[o])
  BY DEF Balance, Once
<1>5. BalanceInv'
  BY <1>1, <1>2, <1>4 DEF BalanceInv, Balance
<1>6. \A c \in Once : Out(c)' = Out(c)
  BY <1>2 DEF Out
<1>7. OutInv'
  BY <1>1, <1>6 DEF OutInv, Once
<1>8. QED BY <1>3, <1>5, <1>7

\* A step that is not a caller's and leaves srdt alone.
LEMMA CallersRest ==
  ASSUME StatsTypes, CallersInv, UNCHANGED <<stats, reported>>,
         poller' = "sleep" <=> poller = "sleep",
         \A c \in Callers : at'[c] = at[c] /\ obj'[c] = obj[c] /\ val'[c] = val[c],
         \A o \in Objects : mem'[o]["srdt"] = mem[o]["srdt"],
         happened'["srdt"] = happened["srdt"], reported'["srdt"] = reported["srdt"]
  PROVE  CallersInv'
<1>1. stats \in Objects /\ (poller # "sleep" => stats - 1 \in Objects)
  BY BrokerTypes
<1>2. \A x : MayBe(stats, x)' <=> MayBe(stats, x)
  BY <1>1 DEF MayBe
<1>3. poller # "sleep" => \A x : MayBe(stats - 1, x)' <=> MayBe(stats - 1, x)
  BY <1>1 DEF MayBe
<1>4. QED BY <1>2, <1>3 DEF CallersInv

-----------------------------------------------------------------------------
(* The callers.                                                            *)

LEMMA CallerStep ==
  ASSUME StatsInv, NEW g \in Callers, Load(g) \/ Read(g) \/ Write(g) \/ ReadTable(g)
  PROVE  TodoInv' /\ CountsInv' /\ BalanceInv' /\ OutInv' /\ CallersInv'
<1>1. /\ g # Broker /\ g \in Goroutines /\ Broker \in Goroutines /\ Callers \subseteq Goroutines
      /\ UNCHANGED <<tries, stats, poller, report, reported>>
  BY StatisticsAssumption
  DEF Goroutines, Load, Read, Write, Store, ReadTable, Count, broker, polling
<1>2. \A h \in Goroutines \ {g} :
        todo'[h] = todo[h] /\ at'[h] = at[h] /\ obj'[h] = obj[h] /\ val'[h] = val[h]
  BY <1>1 DEF StatsInv, StatsTypes, Load, Read, Write, Store, ReadTable, Count
<1>3. CASE Write(g)
  <2>1. /\ Doing(g) = "srdt" /\ By(g) = 1 /\ Tail(todo[g]) = <<>>
    BY <1>1, <1>3, WriteEffect, CallerDoes DEF StatsInv
  <2>2. /\ at[g] = "write" /\ obj[g] \in 1 .. stats /\ val[g] \in Nat
        /\ \A p \in Objects : \A c \in Counters :
             mem'[p][c] = IF p = obj[g] /\ c = "srdt" THEN val[g] + 1 ELSE mem[p][c]
        /\ \A c \in Counters :
             happened'[c] = IF c = "srdt" THEN happened[c] + 1 ELSE happened[c]
        /\ todo'[g] = <<>> /\ at'[g] = "load"
    <3>1. StatsTypes
      BY DEF StatsInv
    <3>2. /\ at[g] = "write" /\ obj[g] \in 1 .. stats /\ val[g] \in Nat
          /\ todo' = [todo EXCEPT ![g] = Tail(@)] /\ at' = [at EXCEPT ![g] = "load"]
      BY <1>1, <1>3, <3>1, WriteEffect
    <3>3. todo'[g] = <<>> /\ at'[g] = "load"
      BY <1>1, <2>1, <3>1, <3>2 DEF StatsTypes
    <3>4. /\ \A p \in Objects : \A c \in Counters :
               mem'[p][c] = IF p = obj[g] /\ c = Doing(g) THEN val[g] + By(g) ELSE mem[p][c]
          /\ \A c \in Counters :
               happened'[c] = IF c = Doing(g) THEN happened[c] + By(g) ELSE happened[c]
      <4>1. Doing(g) \notin Sums
        BY <2>1 DEF Sums
      <4>2. QED BY <1>1, <1>3, <3>1, <4>1, WriteEffect
    <3>5. QED BY <2>1, <3>2, <3>3, <3>4
  <2>3. TodoInv'
    BY <1>1, <1>2, <2>2
    DEF StatsInv, TodoInv, Begins, Repeats, EndsOk, AddsOk, AddsFailed, EndsFailed
  <2>4. CountsInv' /\ BalanceInv' /\ OutInv'
    <3>1. /\ \A o \in Objects : \A c \in Once : mem'[o][c] = mem[o][c]
          /\ \A c \in Once : happened'[c] = happened[c]
      BY <2>2 DEF Once, Counters
    <3>2. \A o \in Objects : o > stats => \A c \in Counters : mem'[o][c] = 0
      BY <2>2, BrokerTypes DEF StatsInv, CountsInv
    <3>3. QED BY <1>1, <1>2, <3>1, <3>2, BrokerRests DEF StatsInv
  <2>5. \A o \in Objects : \A x : MayBe(o, x)' =>
          MayBe(o, x) \/ (o = obj[g] /\ x = val[g] + 1 /\ MayBe(o, val[g]))
    BY <1>1, <1>2, <2>2 DEF MayBe, Counters
  <2>6. happened'["srdt"] = happened["srdt"] + 1 /\ happened["srdt"] \in Nat
        /\ reported["srdt"] \in Nat
    BY <2>2, BrokerTypes DEF Counters, StatsInv
  <2>7. stats \in Objects /\ stats \in Nat /\ (poller # "sleep" => stats - 1 \in Objects)
        /\ val[g] \in Nat
    BY <2>2, BrokerTypes DEF StatsInv
  <2>8. CallersInv'
    <3>9. /\ \A x : MayBe(stats, x)' =>
               MayBe(stats, x) \/ (obj[g] = stats /\ x = val[g] + 1 /\ MayBe(stats, val[g]))
          /\ poller # "sleep" => \A x : MayBe(stats - 1, x)' =>
               MayBe(stats - 1, x)
               \/ (obj[g] = stats - 1 /\ x = val[g] + 1 /\ MayBe(stats - 1, val[g]))
      BY <1>1, <2>5, <2>7 DEF MayBe
    <3> SUFFICES ASSUME NEW x \in Nat, NEW y \in Nat, MayBe(stats, x)',
                        IF poller = "sleep" THEN y = 0 ELSE MayBe(stats - 1, y)'
                 PROVE  reported["srdt"] + x + y <= happened["srdt"] + 1
      BY <1>1, <2>6 DEF CallersInv, MayBe
    <3>1. PICK u \in Nat : MayBe(stats, u) /\ (x = u \/ (x = u + 1 /\ obj[g] = stats))
      BY <2>7, <3>9
    <3>2. PICK v \in Nat : /\ IF poller = "sleep" THEN v = 0 ELSE MayBe(stats - 1, v)
                           /\ y = v \/ (y = v + 1 /\ obj[g] = stats - 1)
      BY <2>7, <3>9
    <3>3. reported["srdt"] + u + v <= happened["srdt"]
      BY <3>1, <3>2 DEF StatsInv, CallersInv
    <3>4. QED BY <2>6, <2>7, <3>1, <3>2, <3>3
  <2>9. QED BY <2>3, <2>4, <2>8
<1>4. CASE Load(g) \/ Read(g) \/ ReadTable(g)
  <2>1. UNCHANGED <<mem, happened>>
    BY <1>4 DEF Load, Read, ReadTable, Count
  <2>2. CountsInv' /\ BalanceInv' /\ OutInv'
    BY <1>1, <1>2, <2>1, BrokerRests DEF StatsInv, CountsInv
  <2>3. todo'[g] \in {<<>>, <<<<"srdt", 1>>>>}
    BY <1>1, <1>4 DEF Load, Read, ReadTable, Count, StatsInv, TodoInv, StatsTypes
  <2>4. TodoInv'
    BY <1>1, <1>2, <2>3
    DEF StatsInv, TodoInv, Begins, Repeats, EndsOk, AddsOk, AddsFailed, EndsFailed
  <2>5. at'[g] = "write" => /\ obj'[g] = obj[g]
                            /\ \/ val'[g] = val[g] /\ at[g] = "write"
                               \/ val'[g] = mem[obj[g]]["srdt"]
    <3>1. CASE Load(g)
      BY <1>1, <3>1 DEF Load, StatsInv, StatsTypes
    <3>2. CASE Read(g)
      <4>1. todo[g] # <<>>
        BY <1>1, <3>2 DEF Read, StatsInv, StatsTypes
      <4>2. Head(todo[g])[1] = "srdt"
        BY <4>1, CallerDoes DEF StatsInv, Doing
      <4>3. Found(g) = {obj[g]}
        BY <4>2 DEF Found, Sums
      <4>4. QED BY <1>1, <3>2, <4>2, <4>3 DEF Read, StatsInv, StatsTypes
    <3>3. CASE ReadTable(g)
      BY <3>3 DEF ReadTable, Count
    <3>4. QED BY <1>4, <3>1, <3>2, <3>3
  <2>6. \A x : /\ MayBe(stats, x)' => MayBe(stats, x)
               /\ MayBe(stats - 1, x)' => MayBe(stats - 1, x)
    BY <1>1, <1>2, <2>1, <2>5 DEF MayBe
  <2>7. CallersInv'
    <3>1. UNCHANGED <<poller, reported, happened>>
      BY <1>1, <2>1
    <3>2. QED BY <2>6, <3>1 DEF StatsInv, CallersInv
  <2>8. QED BY <2>2, <2>4, <2>7
<1>5. QED BY <1>3, <1>4

-----------------------------------------------------------------------------
(* The broker.                                                             *)

\* The broker sets out to count: the action in hand is the same as before.
LEMMA BrokerCounts ==
  ASSUME StatsInv,
         BeginAction \/ Retransmit
         \/ \E ms \in 1 .. MaxElapsed : ActionOk(ms) \/ ActionFails(ms)
  PROVE  TodoInv' /\ CountsInv' /\ BalanceInv' /\ OutInv' /\ CallersInv'
<1>1. /\ todo[Broker] = <<>> /\ at[Broker] = "load"
      /\ UNCHANGED <<mem, at, obj, val, happened, stats, poller, quotient, report, reported>>
      /\ \A c \in Callers : todo'[c] = todo[c]
  <2>1. PICK increments : Count(Broker, increments)
    BY DEF BeginAction, Retransmit, ActionOk, ActionFails
  <2>2. \A c \in Callers : c # Broker /\ todo'[c] = todo[c]
    BY <2>1, BrokerTypes DEF Count, StatsInv, StatsTypes, Goroutines
  <2>3. QED BY <2>1, <2>2, BrokerTypes DEF Count, polling, StatsInv, StatsTypes
<1>2. /\ TodoInv'
      /\ InHand' = InHand
  <2>1. tries \in NoAction .. Retries /\ Retries \in Nat \ {0} /\ NoAction = -1
    BY StatisticsAssumption DEF StatsInv, StatsTypes, NoAction
  <2>2. InHand = IF tries # NoAction THEN 1 ELSE 0
    BY <1>1, HandOf DEF StatsInv
  <2>3. todo[Broker] = <<>> /\ \A seq : todo' = [todo EXCEPT ![Broker] = seq] => todo'[Broker] = seq
    BY <1>1, BrokerTypes DEF StatsInv, StatsTypes
  <2>4. CASE BeginAction
    <3>1. tries = NoAction /\ tries' = 0 /\ todo'[Broker] = <<<<"aact", 1>>>>
      BY <2>3, <2>4 DEF BeginAction, Count
    <3>2. TodoInv' /\ Begins'
      BY <1>1, <3>1 DEF StatsInv, TodoInv, Begins, EndsOk, AddsOk, AddsFailed, EndsFailed
    <3>3. InHand' = 0
      BY <3>1, <3>2 DEF InHand, Begins, EndsOk, AddsFailed, EndsFailed
    <3>4. QED BY <2>2, <3>1, <3>2, <3>3
  <2>5. CASE Retransmit
    <3>1. tries # NoAction /\ tries' # NoAction /\ todo'[Broker] = <<<<"aretr", 1>>>>
      <4>1. tries # NoAction /\ tries' = tries + 1
        BY <2>5 DEF Retransmit
      <4>2. tries' # NoAction
        BY <2>1, <4>1
      <4>3. QED BY <2>3, <2>5, <4>1, <4>2 DEF Retransmit, Count
    <3>2. TodoInv'
      BY <1>1, <3>1 DEF StatsInv, TodoInv, Begins, Repeats, EndsOk, AddsOk, AddsFailed, EndsFailed
    <3>3. InHand' = 1
      BY <3>1 DEF InHand, Begins
    <3>4. QED BY <2>2, <3>1, <3>2, <3>3
  <2>6. ASSUME NEW ms \in 1 .. MaxElapsed, ActionOk(ms)
        PROVE  TodoInv' /\ InHand' = InHand
    <3>1. PICK ok \in {"aok1", "aokN"} : todo'[Broker] = <<<<ok, 1>>, <<"aokms", ms>>>>
      BY <2>3, <2>6 DEF ActionOk, Count
    <3>2. tries # NoAction /\ tries' = NoAction /\ ms \in Nat
      BY <2>6, StatisticsAssumption DEF ActionOk
    <3>3. EndsOk' /\ ~Begins'
      BY <3>1, <3>2 DEF EndsOk, Begins
    <3>4. QED BY <1>1, <2>2, <3>2, <3>3 DEF StatsInv, TodoInv, InHand
  <2>7. ASSUME NEW ms \in 1 .. MaxElapsed, ActionFails(ms)
        PROVE  TodoInv' /\ InHand' = InHand
    <3>1. todo'[Broker] = <<<<"afailms", ms>>, <<"afail", 1>>>>
      BY <2>3, <2>7 DEF ActionFails, Count
    <3>2. tries # NoAction /\ tries' = NoAction /\ ms \in Nat
      BY <2>1, <2>7, StatisticsAssumption DEF ActionFails
    <3>3. AddsFailed' /\ ~Begins'
      BY <3>1, <3>2 DEF AddsFailed, Begins
    <3>4. QED BY <1>1, <2>2, <3>2, <3>3 DEF StatsInv, TodoInv, InHand
  <2>8. QED BY <2>4, <2>5, <2>6, <2>7
<1>3. Target' = Target /\ Late' = Late
  BY <1>1 DEF Target, Late
<1>4. CountsInv' /\ BalanceInv'
  BY <1>1, <1>2, <1>3 DEF StatsInv, CountsInv, BalanceInv
<1>5. OutInv'
  BY <1>1, <1>3 DEF StatsInv, OutInv, Out
<1>6. CallersInv'
  BY <1>1 DEF StatsInv, CallersInv, MayBe
<1>7. QED BY <1>2, <1>4, <1>5, <1>6

LEMMA BrokerReads ==
  ASSUME StatsInv, Load(Broker) \/ Read(Broker)
  PROVE  TodoInv' /\ CountsInv' /\ BalanceInv' /\ OutInv' /\ CallersInv'
<1>1. UNCHANGED <<mem, todo, happened, tries, stats, poller, quotient, report, reported>>
  BY DEF Load, Read, broker, polling
<1>2. \A c \in Callers : at'[c] = at[c] /\ obj'[c] = obj[c] /\ val'[c] = val[c]
  BY BrokerTypes DEF Load, Read, StatsInv, StatsTypes, Goroutines
<1>3. /\ TodoInv' /\ InHand' = InHand /\ Doing(Broker)' = Doing(Broker)
  BY <1>1 DEF StatsInv, TodoInv, InHand, Begins, Repeats, EndsOk, AddsOk, AddsFailed, EndsFailed,
              Doing
<1>4. /\ Target' = Target /\ Late' = Late
      /\ at'[Broker] = "write" /\ Doing(Broker) \in Once =>
           val'[Broker] = mem[obj'[Broker]][Doing(Broker)]
  <2>1. CASE Load(Broker)
    <3>1. at[Broker] = "load" /\ at'[Broker] = "read" /\ obj'[Broker] = stats /\ stats' = stats
      BY <2>1, BrokerTypes DEF Load, StatsInv, StatsTypes, polling
    <3>2. QED BY <3>1, BrokerTypes DEF Target, Late, StatsInv
  <2>2. CASE Read(Broker)
    <3>1. /\ at[Broker] = "read" /\ at'[Broker] = "write" /\ obj'[Broker] = obj[Broker]
          /\ stats' = stats
          /\ \E o \in Found(Broker) : val'[Broker] = mem[o][Doing(Broker)]
      BY <2>2, BrokerTypes DEF Read, StatsInv, StatsTypes, polling, Doing
    <3>3. Doing(Broker) \in Once => \A o \in Found(Broker) : o = obj[Broker]
      BY DEF Found, Doing, Once, Sums
    <3>2. QED BY <3>1, <3>3 DEF Target, Late
  <2>3. QED BY <2>1, <2>2
<1>5. CountsInv' /\ BalanceInv'
  BY <1>1, <1>3, <1>4 DEF StatsInv, CountsInv, BalanceInv
<1>6. OutInv'
  BY <1>1, <1>4 DEF StatsInv, OutInv, Out
<1>7. CallersInv'
  BY <1>1, <1>2, CallersRest DEF StatsInv
<1>8. QED BY <1>3, <1>5, <1>6, <1>7

\* What the increment at hand does to the balance.
Sign(k) == IF k = "aact" THEN 1 ELSE IF k \in {"aok1", "aokN", "afail"} THEN -1 ELSE 0

LEMMA BrokerTodo ==
  ASSUME StatsInv, todo[Broker] # <<>>, todo' = [todo EXCEPT ![Broker] = Tail(@)], tries' = tries
  PROVE  /\ TodoInv'
         /\ InHand \in {0, 1} /\ InHand' = InHand + Sign(Doing(Broker))
         /\ Doing(Broker) \in Once \/ Doing(Broker) \in {"aokms", "afailms"}
         /\ Doing(Broker) \in Once => By(Broker) = 1
<1>1. todo'[Broker] = Tail(todo[Broker]) /\ \A c \in Callers : todo'[c] = todo[c]
  BY BrokerTypes DEF StatsInv, StatsTypes, Goroutines
<1>2. TodoInv
  BY DEF StatsInv
<1>3. \/ todo'[Broker] = <<>>
      \/ tries = NoAction /\ \E ms \in Nat : todo'[Broker] = <<<<"aokms", ms>>>>
      \/ tries = NoAction /\ todo'[Broker] = <<<<"afail", 1>>>>
  BY <1>1, <1>2, BrokerDoes DEF TodoInv
<1>8. TodoInv'
  <2>1. \/ todo'[Broker] = <<>>
        \/ tries' = NoAction /\ ~Begins' /\ (AddsOk' \/ EndsFailed')
    BY <1>3 DEF AddsOk, EndsFailed, Begins
  <2>2. todo'[Broker] = <<>> =>
          ~Begins' /\ ~EndsOk' /\ ~AddsOk' /\ ~AddsFailed' /\ ~EndsFailed'
    BY DEF Begins, EndsOk, AddsOk, AddsFailed, EndsFailed
  <2>3. QED BY <1>1, <1>2, <2>1, <2>2 DEF TodoInv
<1>4. /\ Doing(Broker) \in Once \/ Doing(Broker) \in {"aokms", "afailms"}
      /\ Doing(Broker) \in Once => By(Broker) = 1
  BY <1>2, BrokerDoes DEF Once
<1>5. InHand \in {0, 1}
  BY DEF InHand
<1>6. InHand' = InHand + Sign(Doing(Broker))
  <2>1. /\ todo'[Broker] = <<>> => InHand' = IF tries # NoAction THEN 1 ELSE 0
        /\ todo'[Broker] = <<<<"afail", 1>>>> => InHand' = 1
    BY DEF InHand, Begins, EndsOk, AddsFailed, EndsFailed
  <2>2. ASSUME NEW ms \in Nat, todo'[Broker] = <<<<"aokms", ms>>>>, tries = NoAction
        PROVE  InHand' = 0
    BY <2>2 DEF InHand, Begins, EndsOk, AddsFailed, EndsFailed
  <2>3. CASE Begins /\ Doing(Broker) = "aact" /\ todo'[Broker] = <<>>
    <3>1. InHand = 0 /\ tries = 0
      BY <1>2, <2>3, HandOf
    <3>2. InHand' = 1 /\ Sign(Doing(Broker)) = 1
      BY <2>1, <2>3, <3>1 DEF Sign, NoAction
    <3>3. QED BY <3>1, <3>2
  <2>4. CASE Repeats /\ Doing(Broker) = "aretr" /\ todo'[Broker] = <<>>
    <3>1. InHand' = InHand /\ Sign(Doing(Broker)) = 0
      BY <1>2, <2>1, <2>4, HandOf DEF Sign
    <3>2. QED BY <1>5, <3>1
  <2>5. CASE /\ EndsOk /\ Doing(Broker) \in {"aok1", "aokN"}
             /\ \E ms \in Nat : todo'[Broker] = <<<<"aokms", ms>>>>
    <3>1. InHand = 1 /\ tries = NoAction
      BY <1>2, <2>5, HandOf
    <3>2. InHand' = 0 /\ Sign(Doing(Broker)) = -1
      BY <2>2, <2>5, <3>1 DEF Sign
    <3>3. QED BY <3>1, <3>2
  <2>6. CASE AddsOk /\ Doing(Broker) = "aokms" /\ todo'[Broker] = <<>>
    <3>1. InHand = 0 /\ tries = NoAction
      BY <1>2, <2>6, HandOf
    <3>2. InHand' = 0 /\ Sign(Doing(Broker)) = 0
      BY <2>1, <2>6, <3>1 DEF Sign
    <3>3. QED BY <3>1, <3>2
  <2>7. CASE AddsFailed /\ Doing(Broker) = "afailms" /\ todo'[Broker] = <<<<"afail", 1>>>>
    <3>1. InHand = 1 /\ InHand' = 1 /\ Sign(Doing(Broker)) = 0
      BY <1>2, <2>1, <2>7, HandOf DEF Sign
    <3>2. QED BY <3>1
  <2>8. CASE EndsFailed /\ Doing(Broker) = "afail" /\ todo'[Broker] = <<>>
    <3>1. InHand = 1 /\ tries = NoAction
      BY <1>2, <2>8, HandOf
    <3>2. InHand' = 0 /\ Sign(Doing(Broker)) = -1
      BY <2>1, <2>8, <3>1 DEF Sign
    <3>3. QED BY <3>1, <3>2
  <2>9. QED BY <1>1, <1>2, <2>3, <2>4, <2>5, <2>6, <2>7, <2>8, BrokerDoes
<1>7. QED BY <1>4, <1>5, <1>6, <1>8

\* The broker stores what it has counted.
LEMMA BrokerWrites ==
  ASSUME StatsInv, Write(Broker)
  PROVE  TodoInv' /\ CountsInv' /\ BalanceInv' /\ OutInv' /\ CallersInv'
<1> DEFINE o == obj[Broker]
           k == Doing(Broker)
<1>1. /\ Broker \in Goroutines /\ Broker \notin Callers /\ Once \subseteq Counters
      /\ o \in Objects /\ stats \in Objects /\ Objects \subseteq Nat /\ o <= stats
      /\ (poller # "sleep" => stats - 1 \in Objects)
      /\ \A p \in Objects : \A c \in Counters : mem[p][c] \in Nat
      /\ StatsTypes
  BY BrokerTypes DEF StatsInv, StatsTypes
<1>13. PICK t \in 1 .. stats :
         /\ k \notin Sums => t = o
         /\ \A p \in Objects : \A c \in Counters :
              mem'[p][c] = IF p = t /\ c = k THEN val[Broker] + By(Broker) ELSE mem[p][c]
  BY <1>1, WriteEffect
<1>2. /\ at[Broker] = "write" /\ todo[Broker] # <<>> /\ k \in Counters
      /\ \A p \in Objects : p > stats => \A c \in Counters : mem'[p][c] = mem[p][c]
      /\ \A c \in Counters :
           happened'[c] = IF c = k THEN happened[c] + By(Broker) ELSE happened[c]
      /\ todo' = [todo EXCEPT ![Broker] = Tail(@)]
      /\ at' = [at EXCEPT ![Broker] = "load"] /\ obj' = [obj EXCEPT ![Broker] = 1]
      /\ val' = [val EXCEPT ![Broker] = 0]
      /\ UNCHANGED <<tries, stats, poller, quotient, report, reported>>
  <2>1. \A p \in Objects : p > stats => \A c \in Counters : mem'[p][c] = mem[p][c]
    BY <1>1, <1>13
  <2>2. QED BY <1>1, <2>1, WriteEffect
<1>3. /\ TodoInv' /\ InHand \in {0, 1} /\ InHand' = InHand + Sign(k)
      /\ k \in Once \/ k \in {"aokms", "afailms"}
      /\ k \in Once => By(Broker) = 1
  BY <1>2, BrokerTodo
<1>4. Target = o /\ Target' = stats /\ Late' = 0 /\ at'[Broker] = "load"
  BY <1>1, <1>2 DEF Target, Late, StatsTypes
<1>5. /\ k \in Once => By(Broker) = 1 /\ val[Broker] = mem[o][k]
      /\ \A p \in Objects : p > o => \A c \in Once : mem[p][c] = 0
      /\ \A p \in Objects : p > stats => \A c \in Counters : mem[p][c] = 0
  BY <1>2, <1>3, <1>4 DEF StatsInv, CountsInv
<1>6. \A p \in Objects : \A c \in Once :
        mem'[p][c] = IF p = o /\ c = k THEN mem[p][c] + 1 ELSE mem[p][c]
  <2>1. k \in Once => t = o
    BY <1>13 DEF Once, Sums
  <2>2. QED BY <1>1, <1>2, <1>5, <1>13, <2>1
<1>7. \A c \in Once : happened'[c] = IF c = k THEN happened[c] + 1 ELSE happened[c]
  BY <1>1, <1>2, <1>5
<1> HIDE DEF o, k
<1>8. CountsInv'
  BY <1>1, <1>2, <1>4, <1>5, <1>6 DEF CountsInv
<1>9. BalanceInv'
  <2>1. \A p \in Objects : Balance(mem'[p]) =
          IF p = o THEN Balance(mem[p]) + Sign(k) ELSE Balance(mem[p])
    <3>1. \A p \in Objects : \A c \in {"aact", "aok1", "aokN", "afail"} :
            /\ mem'[p][c] = IF p = o /\ c = k THEN mem[p][c] + 1 ELSE mem[p][c]
            /\ mem[p][c] \in Nat
      BY <1>1, <1>6 DEF Once
    <3>2. QED BY <1>3, <3>1 DEF Balance, Sign, Once
  <2>2. /\ InHand - Balance(mem[o]) \in {0, 1}
        /\ \A p \in Objects : Balance(mem[p]) \in -1 .. 1
        /\ Balance(report) \in -1 .. 1
    BY <1>4 DEF StatsInv, BalanceInv
  <2>3. Sign(k) \in Int
    BY DEF Sign
  <2>4. InHand' \in {0, 1}
    BY DEF InHand
  <2>5. InHand' - Balance(mem'[o]) \in {0, 1} /\ Balance(mem'[o]) \in -1 .. 1
    <3>1. Balance(mem[o]) \in Int /\ Balance(mem'[o]) = Balance(mem[o]) + Sign(k)
      BY <1>1, <2>1, <2>2
    <3>2. Balance(mem'[o]) \in Int /\ InHand' - Balance(mem'[o]) = InHand - Balance(mem[o])
      BY <1>3, <2>3, <3>1
    <3>3. QED BY <2>2, <2>4, <3>2
  <2>6. stats # o => Balance(mem'[stats]) = 0
    BY <1>1, <1>5, <1>6 DEF Balance, Once
  <2>7. InHand' - Balance(mem'[stats]) \in {0, 1}
    BY <2>4, <2>5, <2>6
  <2>8. \A p \in Objects : Balance(mem'[p]) \in -1 .. 1
    BY <2>1, <2>2, <2>5
  <2>9. report' = report
    BY <1>2
  <2>10. QED BY <1>4, <2>2, <2>7, <2>8, <2>9 DEF BalanceInv
<1>10. OutInv'
  <2>1. /\ \A c \in Once : Out(c) \in Int /\ Out(c) >= 0
        /\ Out("aact") + Out("aretr") + Out("aok1") + Out("aokN") + Out("afail") + Late <= stats - 1
    BY <1>1 DEF StatsInv, OutInv, Out, StatsTypes
  <2>2. \A c \in Once :
          /\ c # k => Out(c)' = Out(c)
          /\ c = k => Out(c)' \in Out(c) .. Out(c) + Late
    <3>1. ASSUME NEW c \in Once
          PROVE  /\ happened[c] \in Nat /\ reported[c] \in Nat /\ mem[stats][c] \in Nat
                 /\ poller # "sleep" => mem[stats - 1][c] \in Nat
      BY <1>1 DEF StatsTypes
    <3>2. stats \in Nat /\ o \in Nat /\ Late = IF o < stats THEN 1 ELSE 0
      <4>1. stats \in Nat /\ o \in Nat
        BY <1>1
      <4>2. Late = IF o < stats THEN 1 ELSE 0
        <5>1. at[Broker] # "load"
          BY <1>2
        <5>2. QED BY <5>1 DEF Late, o
      <4>3. QED BY <4>1, <4>2
    <3>3. ASSUME NEW c \in Once
          PROVE  /\ c # k => Out(c)' = Out(c)
                 /\ c = k => Out(c)' \in Out(c) .. Out(c) + Late
      <4>1. /\ UNCHANGED <<stats, poller, reported>>
            /\ happened'[c] = happened[c] + IF c = k THEN 1 ELSE 0
            /\ mem'[stats][c] = mem[stats][c] + IF c = k /\ o = stats THEN 1 ELSE 0
            /\ poller # "sleep" =>
                 mem'[stats - 1][c] = mem[stats - 1][c] + IF c = k /\ o = stats - 1 THEN 1 ELSE 0
        BY <1>1, <1>2, <1>6, <1>7, <3>1, <3>3
      <4>2. QED BY <1>1, <3>1, <3>2, <3>3, <4>1 DEF Out
    <3>4. QED BY <3>3
  <2>3. Late \in {0, 1} /\ stats \in Nat /\ stats' = stats
    BY <1>1, <1>2 DEF Late
  <2>4. QED BY <1>4, <2>1, <2>2, <2>3 DEF OutInv, Once
<1>11. CallersInv'
  <2>1. k # "srdt" /\ "srdt" \in Counters
    BY <1>3 DEF Once, Counters
  <2>2. \A c \in Callers : at'[c] = at[c] /\ obj'[c] = obj[c] /\ val'[c] = val[c]
    BY <1>1, <1>2 DEF StatsTypes, Goroutines
  <2>3. /\ \A p \in Objects : mem'[p]["srdt"] = mem[p]["srdt"]
        /\ happened'["srdt"] = happened["srdt"]
    BY <1>2, <1>13, <2>1
  <2>4. QED BY <1>1, <1>2, <2>2, <2>3, CallersRest DEF StatsInv
<1>12. QED BY <1>3, <1>8, <1>9, <1>10, <1>11

-----------------------------------------------------------------------------
(* The poller.                                                             *)

\* A step of the poller writes nothing the goroutines that count keep.
LEMMA PollerLeaves ==
  ASSUME Swap \/ Averages \/ LogStats
  PROVE  UNCHANGED <<todo, at, obj, val, happened, tries>>
BY DEF Swap, Averages, LogStats, Divide, StoreQuotient, counting, broker

LEMMA TodoStays ==
  ASSUME TodoInv, UNCHANGED <<todo, tries>>
  PROVE  TodoInv' /\ InHand' = InHand
BY DEF TodoInv, InHand, Begins, Repeats, EndsOk, AddsOk, AddsFailed, EndsFailed

\* The new object is empty; the old one is in use no longer, and the increment under
\* way may be late for it.
LEMMA SwapStep ==
  ASSUME StatsInv, Swap
  PROVE  TodoInv' /\ CountsInv' /\ BalanceInv' /\ OutInv' /\ CallersInv'
<1>1. /\ poller = "sleep" /\ poller' = "ok" /\ stats' = stats + 1 /\ stats <= MaxReports
      /\ UNCHANGED <<mem, todo, at, obj, val, happened, tries, report, reported>>
  BY DEF Swap, counting, broker
<1>2. /\ stats \in Nat /\ stats \in Objects /\ stats + 1 \in Objects /\ stats' - 1 = stats
      /\ Objects \subseteq Nat /\ obj[Broker] \in Nat /\ obj[Broker] <= stats
      /\ obj[Broker] \in Objects /\ Once \subseteq Counters /\ Broker \in Goroutines
  BY <1>1, BrokerTypes, StatisticsAssumption DEF StatsInv, StatsTypes, Objects
<1>3. \A c \in Counters : mem[stats + 1][c] = 0
  BY <1>2 DEF StatsInv, CountsInv
<1>4. TodoInv' /\ InHand' = InHand /\ Doing(Broker)' = Doing(Broker)
  BY <1>1, TodoStays DEF StatsInv, Doing
<1>5. /\ at[Broker] = "load" => Target = stats /\ Target' = stats + 1
      /\ at[Broker] # "load" => Target' = Target
  BY <1>1 DEF Target
<1>6. CountsInv'
  <2>1. \A o \in Objects : o > stats + 1 => \A c \in Counters : mem[o][c] = 0
    BY <1>2 DEF StatsInv, CountsInv
  <2>2. \A o \in Objects : o > Target' => \A c \in Once : mem[o][c] = 0
    BY <1>2, <1>5 DEF StatsInv, CountsInv
  <2>3. QED BY <1>1, <1>4, <2>1, <2>2 DEF StatsInv, CountsInv
<1>7. BalanceInv'
  <2>1. at[Broker] = "load" => Balance(mem[stats + 1]) = 0 /\ InHand \in {0, 1}
    BY <1>2, <1>3 DEF Balance, Once, InHand
  <2>2. InHand - Balance(mem[Target']) \in {0, 1}
    <3>1. CASE at[Broker] = "load"
      <4>1. Balance(mem[Target']) = 0 /\ InHand \in {0, 1}
        BY <1>5, <2>1, <3>1
      <4>2. QED BY <4>1
    <3>2. CASE at[Broker] # "load"
      BY <1>5, <3>2 DEF StatsInv, BalanceInv
    <3>3. QED BY <3>1, <3>2
  <2>3. QED BY <1>1, <1>4, <2>2 DEF StatsInv, BalanceInv
<1>8. OutInv'
  <2>1. \A c \in Once : Out(c)' = Out(c)
    <3>1. ASSUME NEW c \in Once
          PROVE  Out(c)' = Out(c)
      <4>1. /\ happened[c] \in Nat /\ reported[c] \in Nat /\ mem[stats][c] \in Nat
            /\ mem[stats + 1][c] = 0
        BY <1>2, <1>3 DEF StatsInv, StatsTypes
      <4>2. Out(c) = happened[c] - reported[c] - mem[stats][c] - 0
        BY <1>1 DEF Out
      <4>3. Out(c)' = happened[c] - reported[c] - mem[stats + 1][c] - mem[stats][c]
        BY <1>1, <1>2 DEF Out
      <4>4. QED BY <4>1, <4>2, <4>3
    <3>2. QED BY <3>1
  <2>2. Late \in {0, 1} /\ Late' \in {0, 1} /\ (Late = 1 => Late' = 1)
    BY <1>1, <1>2 DEF Late
  <2>3. \A c \in Once : Out(c) \in Int /\ Out(c) >= 0
    <3>1. \A c \in Once : /\ happened[c] \in Nat /\ reported[c] \in Nat /\ mem[stats][c] \in Nat
      BY <1>2 DEF StatsInv, StatsTypes
    <3>2. QED BY <1>1, <3>1 DEF StatsInv, OutInv, Out
  <2>4. Out("aact") + Out("aretr") + Out("aok1") + Out("aokN") + Out("afail") + Late <= stats - 1
    BY DEF StatsInv, OutInv
  <2>5. QED BY <1>1, <1>2, <2>1, <2>2, <2>3, <2>4 DEF OutInv, Once
<1>9. CallersInv'
  <2>1. \A o, x : MayBe(o, x)' <=> MayBe(o, x)
    BY <1>1 DEF MayBe
  <2>2. \A x : MayBe(stats + 1, x) => x = 0
    <3>1. \A g \in Callers : obj[g] # stats + 1
      BY <1>2 DEF StatsInv, StatsTypes, Goroutines
    <3>2. mem[stats + 1]["srdt"] = 0
      BY <1>3 DEF Counters
    <3>3. QED BY <3>1, <3>2 DEF MayBe
  <2>3. ASSUME NEW x \in Nat, NEW y \in Nat, MayBe(stats + 1, x), MayBe(stats, y)
        PROVE  reported["srdt"] + x + y <= happened["srdt"]
    <3>1. reported["srdt"] + y + 0 <= happened["srdt"]
      BY <1>1, <2>3 DEF StatsInv, CallersInv
    <3>2. x = 0 /\ reported["srdt"] \in Nat
      BY <2>2, <2>3 DEF StatsInv, StatsTypes, Counters
    <3>3. QED BY <3>1, <3>2
  <2>4. ASSUME NEW x \in Nat, NEW y \in Nat, MayBe(stats, x)', MayBe(stats - 1, y)'
        PROVE  reported["srdt"] + x + y <= happened["srdt"]
    <3>1. MayBe(stats + 1, x)
      BY <1>1, <2>4 DEF MayBe
    <3>2. MayBe(stats, y)
      BY <1>1, <1>2, <2>4 DEF MayBe
    <3>3. QED BY <2>3, <3>1, <3>2
  <2>5. QED BY <1>1, <2>4 DEF CallersInv
<1>10. QED BY <1>4, <1>6, <1>7, <1>8, <1>9

\* An average goes to a field that is no count, in an object the broker may be late for.
LEMMA AveragesStep ==
  ASSUME StatsInv, Averages
  PROVE  TodoInv' /\ CountsInv' /\ BalanceInv' /\ OutInv' /\ CallersInv'
<1>1. /\ poller # "sleep" /\ poller' # "sleep"
      /\ UNCHANGED <<todo, at, obj, val, happened, tries, stats, report, reported>>
      /\ \/ mem' = mem
         \/ \E total \in {"aokms", "afailms"} :
              mem' = [mem EXCEPT ![stats - 1][total] = quotient]
  <2>1. UNCHANGED <<todo, at, obj, val, happened, tries>>
    BY PollerLeaves
  <2>2. CASE mem' = mem
    BY <2>1, <2>2 DEF Averages, Divide, StoreQuotient
  <2>3. CASE mem' # mem
    BY <2>1, <2>3 DEF Averages, Divide, StoreQuotient, counting
  <2>4. QED BY <2>2, <2>3
<1>2. \A o \in Objects : \A c \in Counters \ {"aokms", "afailms"} : mem'[o][c] = mem[o][c]
  <2>1. mem \in [Objects -> [Counters -> Nat]]
    BY DEF StatsInv, StatsTypes
  <2>2. QED BY <1>1, <2>1
<1>3. \A o \in Objects : o > stats => mem'[o] = mem[o]
  <2>1. mem \in [Objects -> [Counters -> Nat]] /\ stats \in Nat /\ Objects \subseteq Nat
    BY BrokerTypes DEF StatsInv, StatsTypes
  <2>2. \A o \in Objects : o > stats => o # stats - 1
    BY <2>1
  <2>3. QED BY <1>1, <2>1, <2>2
<1>4. TodoInv' /\ InHand' = InHand /\ Doing(Broker)' = Doing(Broker)
  BY <1>1, TodoStays DEF StatsInv, Doing
<1>5. /\ \A o \in Objects : \A c \in Once : mem'[o][c] = mem[o][c]
      /\ \A o \in Objects : mem'[o]["srdt"] = mem[o]["srdt"]
      /\ \A o \in Objects : o > stats => \A c \in Counters : mem'[o][c] = 0
  BY <1>2, <1>3 DEF Once, Counters, StatsInv, CountsInv
<1>6. CountsInv' /\ BalanceInv' /\ OutInv'
  BY <1>1, <1>5, BrokerRests DEF StatsInv
<1>7. CallersInv'
  BY <1>1, <1>5, CallersRest DEF StatsInv
<1>8. QED BY <1>4, <1>6, <1>7

\* The report has the balance of the object reported, and takes from it what it has.
LEMMA LogStatsStep ==
  ASSUME StatsInv, LogStats
  PROVE  TodoInv' /\ CountsInv' /\ BalanceInv' /\ OutInv' /\ CallersInv'
<1>1. /\ poller # "sleep" /\ poller' = "sleep" /\ report' = mem[stats - 1]
      /\ \A c \in Counters : reported'[c] = reported[c] + mem[stats - 1][c]
      /\ UNCHANGED <<mem, todo, at, obj, val, happened, tries, stats>>
  BY DEF LogStats, ostats, counting, broker
<1>2. /\ stats - 1 \in Objects /\ stats \in Objects /\ Once \subseteq Counters
      /\ \A o \in Objects : \A c \in Counters : mem[o][c] \in Nat
      /\ \A c \in Counters : happened[c] \in Nat /\ reported[c] \in Nat
  BY <1>1, BrokerTypes DEF StatsInv
<1>3. TodoInv' /\ InHand' = InHand /\ Doing(Broker)' = Doing(Broker)
  BY <1>1, TodoStays DEF StatsInv, Doing
<1>4. Target' = Target /\ Late' = Late
  BY <1>1 DEF Target, Late
<1>5. CountsInv'
  BY <1>1, <1>3, <1>4 DEF StatsInv, CountsInv
<1>6. BalanceInv'
  BY <1>1, <1>2, <1>3, <1>4 DEF StatsInv, BalanceInv
<1>7. OutInv'
  <2>1. ASSUME NEW c \in Once
        PROVE  Out(c)' = Out(c)
    <3>1. /\ happened[c] \in Nat /\ reported[c] \in Nat
          /\ mem[stats][c] \in Nat /\ mem[stats - 1][c] \in Nat
          /\ reported'[c] = reported[c] + mem[stats - 1][c]
      BY <1>1, <1>2
    <3>2. QED BY <1>1, <3>1 DEF Out
  <2>2. QED BY <1>1, <1>4, <2>1 DEF StatsInv, OutInv, Once
<1>8. CallersInv'
  <2>1. \A o, x : MayBe(o, x)' <=> MayBe(o, x)
    BY <1>1 DEF MayBe
  <2>2. ASSUME NEW x \in Nat, MayBe(stats, x)
        PROVE  reported'["srdt"] + x + 0 <= happened["srdt"]
    <3>1. /\ mem[stats - 1]["srdt"] \in Nat /\ reported["srdt"] \in Nat
          /\ reported'["srdt"] = reported["srdt"] + mem[stats - 1]["srdt"]
      BY <1>1, <1>2 DEF Counters
    <3>2. MayBe(stats - 1, mem[stats - 1]["srdt"])
      BY DEF MayBe
    <3>3. reported["srdt"] + x + mem[stats - 1]["srdt"] <= happened["srdt"]
      BY <1>1, <2>2, <3>1, <3>2 DEF StatsInv, CallersInv
    <3>4. QED BY <3>1, <3>3
  <2>3. ASSUME NEW x \in Nat, MayBe(stats, x)'
        PROVE  MayBe(stats, x)
    BY <1>1, <2>3 DEF MayBe
  <2>4. QED BY <1>1, <2>2, <2>3 DEF CallersInv
<1>9. QED BY <1>3, <1>5, <1>6, <1>7, <1>8

-----------------------------------------------------------------------------
(* The theorems about the statistics.                                      *)

LEMMA StatsInit == Init => StatsInv
<1> SUFFICES ASSUME Init
             PROVE  StatsInv
  OBVIOUS
<1>1. Objects \subseteq Nat /\ 1 \in Objects /\ (\A c \in Counters : Zero[c] = 0)
      /\ Zero \in [Counters -> Nat] /\ Broker \in Goroutines /\ Callers \subseteq Goroutines
  BY StatisticsAssumption DEF Objects, Zero, Goroutines
<1>2. /\ \A o \in Objects : mem[o] = Zero
      /\ \A g \in Goroutines : todo[g] = <<>> /\ at[g] = "load" /\ obj[g] = 1 /\ val[g] = 0
      /\ stats = 1 /\ tries = NoAction /\ poller = "sleep"
      /\ report = Zero /\ happened = Zero /\ reported = Zero
  BY DEF Init
<1>3. todo[Broker] = <<>> /\ at[Broker] = "load"
  BY <1>1, <1>2
<1>4. StatsTypes
  <2>1. todo \in [Goroutines -> Seq(Counters \X Nat)]
    BY DEF Init
  <2>2. tries \in NoAction .. Retries
    BY StatisticsAssumption DEF Init, NoAction
  <2>3. QED BY <1>1, <2>1, <2>2 DEF Init, StatsTypes
<1>5. ~Begins /\ ~Repeats /\ ~EndsOk /\ ~AddsOk /\ ~AddsFailed /\ ~EndsFailed
  BY <1>3 DEF Begins, Repeats, EndsOk, AddsOk, AddsFailed, EndsFailed
<1>6. TodoInv
  BY <1>1, <1>2, <1>3, <1>5 DEF TodoInv
<1>7. Target = 1 /\ InHand = 0 /\ Late = 0
  BY <1>2, <1>3, <1>5 DEF Target, InHand, Late
<1>8. CountsInv
  BY <1>1, <1>2, <1>3 DEF CountsInv, Once, Counters
<1>9. Balance(Zero) = 0 /\ Zero["srdt"] = 0
  BY <1>1 DEF Balance, Counters
<1>10. BalanceInv
  BY <1>1, <1>2, <1>7, <1>9 DEF BalanceInv
<1>11. \A c \in Once : Out(c) = 0
  BY <1>1, <1>2 DEF Out, Once, Counters
<1>12. OutInv
  BY <1>2, <1>7, <1>11 DEF OutInv, Once
<1>13. CallersInv
  BY <1>1, <1>2, <1>9 DEF CallersInv, MayBe
<1>14. QED BY <1>4, <1>6, <1>8, <1>10, <1>12, <1>13 DEF StatsInv

LEMMA StatsInvStep == StatsInv /\ [Next]_vars => StatsInv'
<1> SUFFICES ASSUME StatsInv, [Next]_vars
             PROVE  StatsInv'
  OBVIOUS
<1>1. StatsTypes'
  BY StatsTypesStep DEF StatsInv
<1>2. TodoInv' /\ CountsInv' /\ BalanceInv' /\ OutInv' /\ CallersInv'
  <2>1. CASE UNCHANGED vars
    <3>1. UNCHANGED <<mem, todo, at, obj, val, happened, tries, stats, poller, quotient, report,
                      reported>>
      BY <2>1 DEF vars, counting, broker, polling
    <3>2. TodoInv' /\ InHand' = InHand /\ Doing(Broker)' = Doing(Broker)
      BY <3>1, TodoStays DEF StatsInv, Doing
    <3>3. CountsInv' /\ BalanceInv' /\ OutInv'
      BY <3>1, BrokerRests DEF StatsInv, CountsInv
    <3>4. CallersInv'
      BY <3>1, CallersRest DEF StatsInv
    <3>5. QED BY <3>2, <3>3, <3>4
  <2>2. ASSUME NEW g \in Goroutines, Load(g) \/ Read(g) \/ Write(g)
        PROVE  TodoInv' /\ CountsInv' /\ BalanceInv' /\ OutInv' /\ CallersInv'
    <3>1. CASE g \in Callers
      BY <2>2, <3>1, CallerStep
    <3>2. CASE g = Broker
      BY <2>2, <3>2, BrokerReads, BrokerWrites
    <3>3. QED BY <3>1, <3>2 DEF Goroutines
  <2>3. ASSUME NEW c \in Callers, ReadTable(c)
        PROVE  TodoInv' /\ CountsInv' /\ BalanceInv' /\ OutInv' /\ CallersInv'
    BY <2>3, CallerStep
  <2>4. CASE BeginAction \/ Retransmit
             \/ \E ms \in 1 .. MaxElapsed : ActionOk(ms) \/ ActionFails(ms)
    BY <2>4, BrokerCounts
  <2>5. CASE Swap \/ Averages \/ LogStats
    BY <2>5, SwapStep, AveragesStep, LogStatsStep
  <2>6. QED BY <2>1, <2>2, <2>3, <2>4, <2>5 DEF Next
<1>3. QED BY <1>1, <1>2 DEF StatsInv

LEMMA StatsInvCorrect == Spec => []StatsInv
BY StatsInit, StatsInvStep, PTL DEF Spec

\* The objects and what each goroutine keeps have their types whatever the bounds: no
\* goroutine counts in an object that is not yet, and the poller reports one that was.
THEOREM StatisticsTypesCorrect == Spec => []TypeOK
<1>1. StatsInv => TypeOK
  <2>1. StatsTypes => \A g \in Goroutines : todo[g] \in Seq(Counters \X Nat)
    BY DEF StatsTypes
  <2>2. QED BY <2>1 DEF StatsInv, StatsTypes, TypeOK
<1>2. QED BY <1>1, StatsInvCorrect, PTL

\* Whenever reports are made and however long actions take, the actions originated in
\* a report and those it says ended differ by one at most (protocol.go:47-52): the
\* poller swaps objects between two increments of one goroutine.
THEOREM ReportsBalanceCorrect == Spec => []ReportsBalance
<1>1. StatsInv => ReportsBalance
  BY DEF StatsInv, BalanceInv, Balance, ReportsBalance
<1>2. QED BY <1>1, StatsInvCorrect, PTL

\* For any number of callers and of reports, between two reports no count of the
\* broker's is in two of them and each report has cost them one at most, and the
\* requests reported are never more than those made, though callers lose each other's.
THEOREM FewCountsAreLostCorrect == Spec => []FewCountsAreLost
<1>1. ASSUME StatsInv, poller = "sleep"
      PROVE  FewCountsAreLost
  <2>1. /\ stats \in Objects /\ stats \in Nat /\ Once \subseteq Counters
        /\ \A c \in Counters : mem[stats][c] \in Nat /\ happened[c] \in Nat /\ reported[c] \in Nat
    BY <1>1, BrokerTypes DEF StatsInv
  <2>2. \A c \in Once : Lost(c) = Out(c) /\ Lost(c) \in Int
    BY <1>1, <2>1 DEF Lost, Out
  <2>3. Late \in {0, 1}
    BY DEF Late
  <2>4. /\ \A c \in Once : Lost(c) >= 0
        /\ Lost("aact") + Lost("aretr") + Lost("aok1") + Lost("aokN") + Lost("afail") <= stats - 1
    BY <1>1, <2>1, <2>2, <2>3 DEF StatsInv, OutInv, Once
  <2>5. Lost("srdt") >= 0
    <3>1. MayBe(stats, mem[stats]["srdt"]) /\ "srdt" \in Counters
      BY DEF MayBe, Counters
    <3>2. reported["srdt"] + mem[stats]["srdt"] + 0 <= happened["srdt"]
      BY <1>1, <2>1, <3>1 DEF StatsInv, CallersInv
    <3>3. QED BY <2>1, <3>1, <3>2 DEF Lost
  <2>6. QED BY <2>4, <2>5 DEF FewCountsAreLost, Once
<1>2. StatsInv => FewCountsAreLost
  BY <1>1 DEF FewCountsAreLost
<1>3. QED BY <1>2, StatsInvCorrect, PTL

=============================================================================
