----------------------------- MODULE SerialPort -----------------------------
(***************************************************************************)
(* The life of p.port (src/protocol.go): the reader goroutine opens, reads *)
(* and reopens the serial port; the broker, and the reader when it has to  *)
(* acknowledge a write, transmit on it with sendFrame().  Both goroutines  *)
(* load, close and clear the field without any lock, so every load and     *)
(* store of p.port is a step of its own.                                   *)
(*                                                                         *)
(* The serial library and the operating system are outside the program: a  *)
(* method called on a nil *serial.Port dereferences it, which ends the     *)
(* program; a Read returns within the read timeout, with an error when     *)
(* nothing came; a Write on a closed port fails.                           *)
(***************************************************************************)
CONSTANTS
  Handles,   \* bound: serial.Port values, reused once closed and let go
  NoPort,    \* nil
  Nobody     \* "no goroutine has panicked"

ASSUME SerialPortAssumption == NoPort \notin Handles /\ Nobody \notin {"reader", "broker"}

VARIABLES
  port,         \* the field p.port
  open,         \* handles the operating system holds open
  rpc,          \* where the reader is
  rh,           \* the handle the reader's Read() was called on last
  spc,          \* where each goroutine is in sendFrame()
  crashed,      \* the goroutine whose panic ended the program, or Nobody
  openFailed,   \* history: an OpenPort() has failed
  writeFailed   \* history: a Write() has failed

readerVars == <<rpc, rh>>
historyVars == <<openFailed, writeFailed>>
portVars == <<port, open, readerVars, spc, crashed, historyVars>>

-----------------------------------------------------------------------------

Senders == {"reader", "broker"}

PortTypeOK ==
  /\ port \in Handles \cup {NoPort}
  /\ open \in SUBSET Handles
  /\ rpc \in {"check", "open", "read", "reading", "frame", "test", "close", "clear"}
  /\ rh \in Handles \cup {NoPort}
  /\ spc \in [Senders -> {"idle", "write", "close", "clear"}]
  /\ crashed \in Senders \cup {Nobody}
  /\ openFailed \in BOOLEAN
  /\ writeFailed \in BOOLEAN
  /\ spc["reader"] # "idle" => rpc = "frame"

\* Open(): the first openSerial() has succeeded and the goroutines start.
PortInit ==
  /\ port \in Handles
  /\ open = {port}
  /\ rpc = "check"
  /\ rh = NoPort
  /\ spc = [s \in Senders |-> "idle"]
  /\ crashed = Nobody
  /\ openFailed = FALSE
  /\ writeFailed = FALSE

Running == crashed = Nobody

\* A method is called on p.port: the program ends if the field is nil.
Crash(s) ==
  /\ port = NoPort
  /\ crashed' = s
  /\ UNCHANGED <<port, open, readerVars, spc, historyVars>>

Close(h) == open' = open \ {h}

-----------------------------------------------------------------------------
(* The reader.                                                             *)

\* Mutant of ReaderCheck: the field is not tested.
ReaderCheckDropped ==
  /\ Running /\ rpc = "check"
  /\ rpc' = "read"
  /\ UNCHANGED <<port, open, rh, spc, crashed, historyVars>>

\* if p.port == nil
ReaderCheck ==
  /\ Running /\ rpc = "check"
  /\ rpc' = IF port = NoPort THEN "open" ELSE "read"
  /\ UNCHANGED <<port, open, rh, spc, crashed, historyVars>>

\* openSerial(), its result discarded; the field is already nil.
ReaderOpen ==
  /\ Running /\ rpc = "open"
  /\ \/ /\ \E h \in Handles \ (open \cup {rh}) : port' = h /\ open' = open \cup {h}
        /\ UNCHANGED openFailed
     \/ /\ port' = NoPort
        /\ openFailed' = TRUE
        /\ UNCHANGED open
  /\ rpc' = "read"
  /\ UNCHANGED <<rh, spc, crashed, writeFailed>>

\* p.port.Read(buf) is called.
ReaderRead ==
  /\ Running /\ rpc = "read"
  /\ \/ Crash("reader")
     \/ /\ port # NoPort
        /\ rh' = port
        /\ rpc' = "reading"
        /\ UNCHANGED <<port, open, spc, crashed, historyVars>>

\* Read() returns bytes: they hold no write addressed to us, or they do.
ReaderData ==
  /\ Running /\ rpc = "reading"
  /\ rpc' \in {"check", "frame"}
  /\ UNCHANGED <<port, open, rh, spc, crashed, historyVars>>

\* Read() returns an error: the timeout, a closed port, a device that is gone.
ReaderError ==
  /\ Running /\ rpc = "reading"
  /\ rpc' = "test"
  /\ UNCHANGED <<port, open, rh, spc, crashed, historyVars>>

\* Mutant of ReaderTest: the failed port is cleared but not closed.
ReaderTestNoClose ==
  /\ Running /\ rpc = "test"
  /\ rpc' = "clear"
  /\ UNCHANGED <<port, open, rh, spc, crashed, historyVars>>

\* if p.port != nil
ReaderTest ==
  /\ Running /\ rpc = "test"
  /\ rpc' = IF port = NoPort THEN "clear" ELSE "close"
  /\ UNCHANGED <<port, open, rh, spc, crashed, historyVars>>

ReaderClose ==
  /\ Running /\ rpc = "close"
  /\ \/ Crash("reader")
     \/ /\ port # NoPort
        /\ Close(port)
        /\ rpc' = "clear"
        /\ UNCHANGED <<port, rh, spc, crashed, historyVars>>

\* Mutant of ReaderClear: the closed port stays in the field.
ReaderClearNot ==
  /\ Running /\ rpc = "clear"
  /\ rpc' = "check"
  /\ UNCHANGED <<port, open, rh, spc, crashed, historyVars>>

ReaderClear ==
  /\ Running /\ rpc = "clear"
  /\ port' = NoPort
  /\ rpc' = "check"
  /\ UNCHANGED <<open, rh, spc, crashed, historyVars>>

-----------------------------------------------------------------------------
(* sendFrame(), in the broker whenever it has a request to transmit and in *)
(* the reader to acknowledge a write.                                      *)

\* The goroutine leaves sendFrame(); the reader goes on with its frames.
Leave(s) ==
  /\ spc' = [spc EXCEPT ![s] = "idle"]
  /\ rpc' = IF s = "reader" THEN "check" ELSE rpc

\* Mutant of SendCheck: writes are acknowledged by "go p.sendFrame".
SendCheckAnyTime(s) ==
  /\ Running /\ spc[s] = "idle"
  /\ \/ port = NoPort /\ Leave(s)
     \/ port # NoPort /\ spc' = [spc EXCEPT ![s] = "write"] /\ UNCHANGED rpc
  /\ UNCHANGED <<port, open, rh, crashed, historyVars>>

\* if p.port == nil
SendCheck(s) ==
  /\ Running /\ spc[s] = "idle"
  /\ s = "reader" => rpc = "frame"
  /\ \/ port = NoPort /\ Leave(s)
     \/ port # NoPort /\ spc' = [spc EXCEPT ![s] = "write"] /\ UNCHANGED rpc
  /\ UNCHANGED <<port, open, rh, crashed, historyVars>>

\* p.port.Write(buf) succeeds or fails.
SendWrite(s) ==
  /\ Running /\ spc[s] = "write"
  /\ \/ Crash(s)
     \/ /\ port \in open
        /\ Leave(s)
        /\ UNCHANGED <<port, open, rh, crashed, historyVars>>
     \/ /\ port # NoPort
        /\ spc' = [spc EXCEPT ![s] = "close"]
        /\ writeFailed' = TRUE
        /\ UNCHANGED <<port, open, readerVars, crashed, openFailed>>

SendClose(s) ==
  /\ Running /\ spc[s] = "close"
  /\ \/ Crash(s)
     \/ /\ port # NoPort
        /\ Close(port)
        /\ spc' = [spc EXCEPT ![s] = "clear"]
        /\ UNCHANGED <<port, readerVars, crashed, historyVars>>

SendClear(s) ==
  /\ Running /\ spc[s] = "clear"
  /\ port' = NoPort
  /\ Leave(s)
  /\ UNCHANGED <<open, rh, crashed, historyVars>>

-----------------------------------------------------------------------------

Reader ==
  \/ ReaderCheck \/ ReaderOpen \/ ReaderRead \/ ReaderData \/ ReaderError
  \/ ReaderTest \/ ReaderClose \/ ReaderClear

SendFrame(s) == SendCheck(s) \/ SendWrite(s) \/ SendClose(s) \/ SendClear(s)

PortNext == Reader \/ \E s \in Senders : SendFrame(s)

PortSpec == PortInit /\ [][PortNext]_portVars

\* Goroutines keep running, and a Read() returns: the port has a read timeout.
\* The broker need not have anything to send.
Fairness ==
  /\ WF_portVars(Reader \/ SendFrame("reader"))
  /\ WF_portVars(SendWrite("broker") \/ SendClose("broker") \/ SendClear("broker"))

FairPortSpec == PortSpec /\ Fairness

-----------------------------------------------------------------------------
(* Properties.                                                             *)

\* Read errors, and the timeouts of a silent bus with them, do not take the
\* reader down by themselves, however often it reopens the port: it takes an
\* open that failed, or a write that failed, be it only because it hit the
\* moment in which the reader had closed the port and not cleared it yet.
ReaderOutlivesTimeouts ==
  crashed = "reader" => openFailed \/ writeFailed

\* As long as no write fails the program holds at most one handle, so the
\* reopening of a silent port (protocol.go:146-160) leaks none, and the reader
\* is never left reading a handle that is not the port's.
OneHandle ==
  ~writeFailed =>
    /\ open \subseteq {port}
    /\ rpc = "reading" => rh = port

\* While the program runs it always gets an open port again: whichever
\* goroutine closed the port, the reader finds the field cleared in the end.
PortComesBack == []<>(port \in open \/ crashed # Nobody)

\* protocol.go:141 and 199: that the reader or the broker exits "should never
\* happen".
NeverExits == crashed = Nobody
=============================================================================
