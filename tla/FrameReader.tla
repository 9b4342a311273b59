---------------------------- MODULE FrameReader ----------------------------
(***************************************************************************)
(* How the reader finds frames in the byte stream of the serial line       *)
(* (src/protocol.go, reader(), and src/frame.go, decode()).                *)
(*                                                                         *)
(* Bytes arrive in pieces of any size and are gathered in msg.  The reader *)
(* takes the length of the frame that would start at msg[0] from msg[4],   *)
(* waits for that many bytes, delivers the frame if it decodes and moves   *)
(* one byte on if not.  When the port is reopened msg is emptied.          *)
(*                                                                         *)
(* A position of the stream is the number of bytes before it.  Of the      *)
(* bytes only this is kept: the length a frame would have that starts at a *)
(* position, and whether it decodes.  Any combination of the two can be on *)
(* the line, noise, collisions and frames inside the data of frames        *)
(* included.  msg holds the positions start .. received - 1.               *)
(***************************************************************************)
EXTENDS Naturals, Sequences

CONSTANTS
  N,         \* bound: bytes on the line in a behaviour
  MinFrame,  \* bytes in the shortest frame (10 in the code)
  MaxFrame   \* bytes in the longest frame (265 in the code)

ASSUME FrameReaderAssumption ==
  /\ N \in Nat
  /\ MinFrame \in Nat \ {0}
  /\ MaxFrame \in Nat
  /\ MinFrame <= MaxFrame

VARIABLES
  length,     \* the length of the frame that would start at a position
  decodes,    \* the positions at which a frame starts that decodes
  received,   \* bytes read from the port so far
  start,      \* the position of msg[0]
  delivered,  \* positions of the frames given to handleFrame()
  dropped     \* history: positions that were in msg when it was emptied

lineVars == <<length, decodes>>
vars == <<lineVars, received, start, delivered, dropped>>

-----------------------------------------------------------------------------

Positions == 0 .. N - 1

TypeOK ==
  /\ length \in [Positions -> MinFrame .. MaxFrame]
  /\ decodes \in SUBSET Positions
  /\ received \in 0 .. N
  /\ start \in 0 .. received
  /\ delivered \in Seq(Positions)
  /\ dropped \in SUBSET Positions

Init ==
  /\ length \in [Positions -> MinFrame .. MaxFrame]
  /\ decodes \in SUBSET Positions
  /\ received = 0
  /\ start = 0
  /\ delivered = <<>>
  /\ dropped = {}

\* decode() of the bytes from p on: the checksum is right and not all are zero.
Decodes(p) == p \in decodes

\* The inner loop breaks: msg holds no whole frame, whatever it starts with.
Starved ==
  received - start >= MinFrame => received - start < length[start]

\* Mutant of Receive: the port is read again after one attempt to parse.
ReceiveAtOnce(n) ==
  /\ received + n <= N
  /\ received' = received + n
  /\ UNCHANGED <<lineVars, start, delivered, dropped>>

\* p.port.Read() returns n bytes.
Receive(n) ==
  /\ Starved
  /\ received + n <= N
  /\ received' = received + n
  /\ UNCHANGED <<lineVars, start, delivered, dropped>>

\* p.port.Read() fails: msg is emptied before the port is opened again.
Reopen ==
  /\ Starved
  /\ dropped' = dropped \cup start .. received - 1
  /\ start' = received
  /\ UNCHANGED <<lineVars, received, delivered>>

\* Mutants of Deliver: one byte too many is taken off msg; one byte only is.
DeliverOneMore ==
  /\ ~Starved
  /\ Decodes(start)
  /\ delivered' = Append(delivered, start)
  /\ start' = start + length[start] + 1
  /\ UNCHANGED <<lineVars, received, dropped>>

DeliverOneByte ==
  /\ ~Starved
  /\ Decodes(start)
  /\ delivered' = Append(delivered, start)
  /\ start' = start + 1
  /\ UNCHANGED <<lineVars, received, dropped>>

\* decode() succeeds: the frame is handled and taken off msg.
Deliver ==
  /\ ~Starved
  /\ Decodes(start)
  /\ delivered' = Append(delivered, start)
  /\ start' = start + length[start]
  /\ UNCHANGED <<lineVars, received, dropped>>

\* Mutant of Resync: the length of the corrupt frame is trusted.
ResyncByLength ==
  /\ ~Starved
  /\ ~Decodes(start)
  /\ start' = start + length[start]
  /\ UNCHANGED <<lineVars, received, delivered, dropped>>

\* Mutant of Resync: all of msg is discarded.
ResyncByPiece ==
  /\ ~Starved
  /\ ~Decodes(start)
  /\ start' = received
  /\ UNCHANGED <<lineVars, received, delivered, dropped>>

\* decode() fails: "Corrupt message, move ahead one byte and continue parsing".
Resync ==
  /\ ~Starved
  /\ ~Decodes(start)
  /\ start' = start + 1
  /\ UNCHANGED <<lineVars, received, delivered, dropped>>

Next ==
  \/ \E n \in 1 .. N : Receive(n)
  \/ Reopen
  \/ Deliver
  \/ Resync

Spec == Init /\ [][Next]_vars

-----------------------------------------------------------------------------
(* Properties.                                                             *)

Delivered == {delivered[i] : i \in DOMAIN delivered}

\* The bytes of the frame at p.
Extent(p) == p .. p + length[p] - 1

\* The stream's frames are delivered in order and share no byte: no byte of a
\* frame is ever parsed again as the beginning of another.
FramesAreDisjoint ==
  /\ \A i, j \in DOMAIN delivered :
       i < j => delivered[i] + length[delivered[i]] <= delivered[j]
  /\ \A p \in Delivered : p + length[p] <= start

\* The frame at p was delivered, or starts within one that was, or was in msg
\* when the port failed.
DealtWith(p) == p \in dropped \/ \E q \in Delivered : p \in Extent(q)

\* Resynchronisation overlooks no frame: one that decodes and that the reader
\* is past was dealt with.
NoFrameIsOverlooked == \A p \in decodes : p < start => DealtWith(p)

\* Noise before a frame may claim any length and so hold the frame back, though
\* all of it has arrived, but not for long: whatever is on the line, and however
\* many frames and corrupt bytes a piece had in it, the reader never takes more
\* bytes while a frame that decodes waits since the longest frame would have
\* ended.
FramesAreHandledInTime ==
  [][received' > received =>
       \A p \in decodes : p + MaxFrame <= received => DealtWith(p)]_vars

\* What is delivered does not depend on how the stream was cut into pieces: as
\* long as the port never failed it is what one pass over the stream finds.
Parse[p \in 0 .. N + MaxFrame] ==
  IF p >= N \/ N - p < MinFrame \/ N - p < length[p] THEN <<>>
  ELSE IF p \in decodes THEN <<p>> \o Parse[p + length[p]]
  ELSE Parse[p + 1]

PiecesDoNotMatter ==
  dropped = {} => Parse[0] = delivered \o Parse[start]
=============================================================================
