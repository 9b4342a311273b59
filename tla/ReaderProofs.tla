---------------------------- MODULE ReaderProofs ----------------------------
(***************************************************************************)
(* Theorems about the reader: its search for frames, for streams and       *)
(* frames of any length, and the life of the port it reads from, for any   *)
(* number of handles.                                                      *)
(***************************************************************************)
EXTENDS FrameReader, SerialPort, SequenceTheorems, WellFoundedInduction, TLAPS

(***************************************************************************)
(* PART 1: the search for frames.                                          *)
(***************************************************************************)

\* What a position of the line is: a number, with a length in the bounds.
LEMMA Bounds ==
  ASSUME TypeOK
  PROVE  /\ N \in Nat /\ MinFrame \in Nat /\ MinFrame >= 1 /\ MaxFrame \in Nat
         /\ received \in Nat /\ received <= N
         /\ start \in Nat /\ start <= received
         /\ \A p \in Positions : /\ p \in Nat /\ p < N
                                 /\ length[p] \in Nat
                                 /\ length[p] >= MinFrame /\ length[p] <= MaxFrame
  BY FrameReaderAssumption DEF TypeOK, Positions

\* When the reader parses, the frame that starts at msg[0] is all there.
LEMMA Whole ==
  ASSUME TypeOK, ~Starved
  PROVE  start \in Positions /\ start + length[start] <= received
  BY Bounds, FrameReaderAssumption DEF Starved, Positions

LEMMA TypeStep ==
  ASSUME TypeOK, [Next]_vars
  PROVE  TypeOK'
<1>1. ASSUME NEW n \in 1 .. N, Receive(n)
      PROVE  TypeOK'
  BY <1>1, Bounds DEF Receive, TypeOK, lineVars
<1>2. CASE Reopen
  <2>1. start .. received - 1 \subseteq Positions
    BY Bounds DEF Positions
  <2>2. QED BY <1>2, <2>1, Bounds DEF Reopen, TypeOK, lineVars
<1>3. CASE Deliver
  <2>1. start' \in 0 .. received
    BY <1>3, Whole, Bounds DEF Deliver
  <2>2. delivered' \in Seq(Positions)
    BY <1>3, Whole DEF Deliver, TypeOK
  <2>3. QED BY <1>3, <2>1, <2>2 DEF Deliver, TypeOK, lineVars, Positions
<1>4. CASE Resync
  <2>1. start' \in 0 .. received
    BY <1>4, Whole, Bounds DEF Resync
  <2>2. QED BY <1>4, <2>1 DEF Resync, TypeOK, lineVars, Positions
<1>5. CASE UNCHANGED vars
  BY <1>5 DEF vars, lineVars, TypeOK, Positions
<1>6. QED BY <1>1, <1>2, <1>3, <1>4, <1>5 DEF Next

\* The reader's variables stay in their types; msg never holds bytes that were
\* not received, nor fewer than none.
THEOREM TypeCorrect == Spec => []TypeOK
<1>1. Init => TypeOK
  BY FrameReaderAssumption DEF Init, TypeOK, Positions
<1>2. QED BY <1>1, TypeStep, PTL DEF Spec

\* When the reader goes back to the port, all that began a longest frame ago is
\* behind it.
LEMMA PastTheOld ==
  ASSUME TypeOK, Starved
  PROVE  start + MaxFrame > received
<1>1. CASE received - start < MinFrame
  BY <1>1, Bounds, FrameReaderAssumption
<1>2. CASE received - start >= MinFrame
  <2>1. start \in Positions
    BY <1>2, Bounds DEF Positions
  <2>2. QED BY <1>2, <2>1, Bounds DEF Starved
<1>3. QED BY <1>1, <1>2, Bounds

-----------------------------------------------------------------------------
(* Frames are disjoint.                                                    *)

LEMMA DisjointStep ==
  ASSUME TypeOK, FramesAreDisjoint, [Next]_vars
  PROVE  FramesAreDisjoint'
<1>1. CASE Deliver
  <2>1. /\ delivered' = Append(delivered, start) /\ length' = length
        /\ start' = start + length[start]
        /\ start \in Positions /\ length[start] \in Nat /\ start \in Nat
        /\ Len(delivered) \in Nat /\ DOMAIN delivered = 1 .. Len(delivered)
    BY <1>1, Whole, Bounds DEF Deliver, TypeOK, lineVars
  <2>2. /\ DOMAIN delivered' = 1 .. Len(delivered) + 1
        /\ delivered'[Len(delivered) + 1] = start
        /\ \A i \in DOMAIN delivered : delivered'[i] = delivered[i]
    BY <2>1 DEF TypeOK
  <2>3. \A i \in DOMAIN delivered : /\ delivered[i] \in Positions
                                    /\ delivered[i] \in Nat /\ length[delivered[i]] \in Nat
                                    /\ delivered[i] + length[delivered[i]] <= start
    <3>1. \A i \in DOMAIN delivered : delivered[i] \in Positions
      BY <2>1 DEF TypeOK
    <3>2. \A i \in DOMAIN delivered : delivered[i] \in Delivered
      BY DEF Delivered
    <3>3. QED BY <3>1, <3>2, Bounds DEF FramesAreDisjoint
  <2>4. ASSUME NEW i \in DOMAIN delivered', NEW j \in DOMAIN delivered', i < j
        PROVE  delivered'[i] + length'[delivered'[i]] <= delivered'[j]
    <3>1. i \in DOMAIN delivered
      BY <2>1, <2>2, <2>4
    <3>2. CASE j \in DOMAIN delivered
      BY <2>1, <2>2, <2>4, <3>1, <3>2 DEF FramesAreDisjoint
    <3>3. CASE j = Len(delivered) + 1
      BY <2>1, <2>2, <2>3, <3>1, <3>3
    <3>4. QED BY <2>1, <2>2, <3>2, <3>3
  <2>5. \A i \in DOMAIN delivered' : delivered'[i] + length'[delivered'[i]] <= start'
    BY <2>1, <2>2, <2>3
  <2>6. QED BY <2>4, <2>5 DEF FramesAreDisjoint, Delivered
<1>2. CASE ~Deliver
  <2>1. delivered' = delivered /\ length' = length /\ start' \in Nat /\ start <= start'
    BY <1>2, Bounds DEF Next, Receive, Reopen, Resync, vars, lineVars
  <2>2. \A p \in Delivered : p \in Nat /\ length[p] \in Nat
    BY Bounds DEF Delivered, TypeOK
  <2>3. \A p \in Delivered' : p + length'[p] <= start'
    BY <2>1, <2>2, Bounds DEF FramesAreDisjoint, Delivered
  <2>4. QED BY <2>1, <2>3 DEF FramesAreDisjoint
<1>3. QED BY <1>1, <1>2

\* No byte of a delivered frame is parsed again.
THEOREM Disjoint == Spec => []FramesAreDisjoint
<1>1. Init => FramesAreDisjoint
  BY DEF Init, FramesAreDisjoint, Delivered
<1>2. QED BY <1>1, DisjointStep, TypeCorrect, PTL DEF Spec

-----------------------------------------------------------------------------
(* No frame is overlooked.                                                 *)

\* A delivery adds the frame at the start of msg to those delivered.
LEMMA DeliverAdds ==
  ASSUME TypeOK, Deliver
  PROVE  Delivered \subseteq Delivered' /\ start \in Delivered'
<1>1. delivered' = Append(delivered, start) /\ start \in Positions
  BY Whole DEF Deliver
<1>2. delivered \in Seq(Positions)
  BY DEF TypeOK
<1>3. /\ Len(delivered) \in Nat /\ DOMAIN delivered = 1 .. Len(delivered)
      /\ DOMAIN delivered' = 1 .. Len(delivered) + 1
      /\ delivered'[Len(delivered) + 1] = start
      /\ \A i \in DOMAIN delivered : delivered'[i] = delivered[i]
  BY <1>1, <1>2
<1>4. start \in Delivered'
  BY <1>3 DEF Delivered
<1>5. ASSUME NEW i \in DOMAIN delivered PROVE delivered[i] \in Delivered'
  <2>1. i \in DOMAIN delivered' /\ delivered'[i] = delivered[i]
    BY <1>3, <1>5
  <2>2. QED BY <2>1 DEF Delivered
<1>6. QED BY <1>4, <1>5 DEF Delivered

LEMMA OverlookedStep ==
  ASSUME TypeOK, NoFrameIsOverlooked, [Next]_vars
  PROVE  NoFrameIsOverlooked'
<1>1. length' = length /\ decodes' = decodes /\ decodes \subseteq Positions
  BY DEF Next, Receive, Reopen, Deliver, Resync, vars, lineVars, TypeOK
<1>2. Delivered \subseteq Delivered' /\ dropped \subseteq dropped'
  <2>1. CASE Deliver
    BY <2>1, DeliverAdds DEF Deliver
  <2>2. CASE ~Deliver
    BY <2>2 DEF Next, Receive, Reopen, Resync, vars, Delivered
  <2>3. QED BY <2>1, <2>2
<1>3. SUFFICES ASSUME NEW p \in decodes, p < start', ~(p < start)
               PROVE  DealtWith(p)'
  BY <1>1, <1>2 DEF NoFrameIsOverlooked, DealtWith, Extent
<1>4. p \in Nat /\ p >= start
  BY <1>1, <1>3, Bounds
<1>5. CASE Reopen
  BY <1>3, <1>4, <1>5, Bounds DEF Reopen, DealtWith
<1>6. CASE Deliver
  <2>1. start \in Delivered'
    BY <1>6, DeliverAdds
  <2>2. p \in Extent(start)
    BY <1>3, <1>4, <1>6, Whole, Bounds DEF Deliver, Extent
  <2>3. QED BY <1>1, <2>1, <2>2 DEF DealtWith, Extent
<1>7. CASE Resync
  <2>1. p = start
    BY <1>3, <1>4, <1>7, Bounds DEF Resync
  <2>2. QED BY <1>7, <2>1 DEF Resync, Decodes
<1>8. CASE start' = start
  BY <1>3, <1>8
<1>9. QED
  BY <1>5, <1>6, <1>7, <1>8 DEF Next, Receive, vars

\* Every frame that decodes, and that the reader is past, was delivered, lies
\* in one that was, or was given up with the port.
THEOREM NothingOverlooked == Spec => []NoFrameIsOverlooked
<1>1. Init => NoFrameIsOverlooked
  BY DEF Init, NoFrameIsOverlooked, Positions
<1>2. QED BY <1>1, OverlookedStep, TypeCorrect, PTL DEF Spec

\* Noise holds a frame back until a longest frame is there and no longer: the
\* inner loop of reader() goes on until msg holds no whole frame, so that what
\* it leaves for the next Read() began less than a longest frame ago, and what
\* it went past it has dealt with.
THEOREM HandledInTime == Spec => FramesAreHandledInTime
<1>1. TypeOK /\ NoFrameIsOverlooked /\ [Next]_vars =>
        [received' > received =>
           \A p \in decodes : p + MaxFrame <= received => DealtWith(p)]_vars
  <2> SUFFICES ASSUME TypeOK, NoFrameIsOverlooked, Next, received' > received,
                      NEW p \in decodes, p + MaxFrame <= received
               PROVE  DealtWith(p)
    OBVIOUS
  <2>1. Starved
    BY Bounds DEF Next, Receive, Reopen, Deliver, Resync
  <2>2. start + MaxFrame > received
    BY <2>1, PastTheOld
  <2>3. p \in Nat
    BY Bounds DEF TypeOK
  <2>4. p < start
    BY <2>2, <2>3, Bounds
  <2>5. QED BY <2>4 DEF NoFrameIsOverlooked
<1>2. QED BY <1>1, TypeCorrect, NothingOverlooked, PTL DEF Spec, FramesAreHandledInTime

-----------------------------------------------------------------------------
(* How the stream was cut does not matter.                                 *)

LEMMA Minimum ==
  ASSUME NEW S \in SUBSET Nat, S # {}
  PROVE  \E m \in S : \A n \in S : m <= n
<1> DEFINE R == OpToRel(<, Nat)
<1>1. IsWellFoundedOn(R, Nat)
  BY NatLessThanWellFounded, Zenon
<1>2. \A x, y \in Nat : x < y => <<x, y>> \in R
  BY DEF OpToRel
<1> HIDE DEF R
<1>3. PICK m \in S : \A n \in S : ~(<<n, m>> \in R)
  BY <1>1, WFMin, Zenon
<1>4. \A n \in S : ~(n < m)
  BY <1>2, <1>3, Zenon
<1>5. QED BY <1>3, <1>4

LEMMA Downwards ==
  ASSUME NEW K \in Nat, NEW S,
         \A p \in 0 .. K : (\A q \in p + 1 .. K : q \in S) => p \in S
  PROVE  \A p \in 0 .. K : p \in S
<1> DEFINE T == {n \in 0 .. K : K - n \notin S}
<1>1. SUFFICES ASSUME T # {}
               PROVE  FALSE
  <2>1. ASSUME T = {}, NEW p \in 0 .. K
        PROVE  p \in S
    <3>1. K - p \in 0 .. K /\ K - (K - p) = p
      OBVIOUS
    <3>2. QED BY <2>1, <3>1
  <2>2. QED BY <2>1
<1>2. PICK m \in T : \A n \in T : m <= n
  <2>1. T \in SUBSET Nat
    OBVIOUS
  <2> HIDE DEF T
  <2>2. QED BY <1>1, <2>1, Minimum
<1>3. m \in 0 .. K /\ K - m \in 0 .. K /\ K - m \notin S
  BY <1>2
<1>4. ASSUME NEW q \in (K - m) + 1 .. K
      PROVE  q \in S
  <2>1. K - q \in 0 .. K /\ K - q < m /\ K - (K - q) = q
    BY <1>3
  <2>2. K - q \notin T
    BY <1>2, <1>3, <2>1
  <2>3. QED BY <2>1, <2>2
<1>5. QED BY <1>3, <1>4

Last == N + MaxFrame

\* What the definition of Parse says of Parse[p].
Rest(f, p) ==
  IF p >= N \/ N - p < MinFrame \/ N - p < length[p] THEN <<>>
  ELSE IF p \in decodes THEN <<p>> \o f[p + length[p]]
  ELSE f[p + 1]

\* The pass goes on behind p, and not beyond the end of the stream.
LEMMA RestLooksAhead ==
  ASSUME TypeOK, NEW p \in 0 .. Last, NEW f, NEW g, \A q \in p + 1 .. Last : f[q] = g[q]
  PROVE  Rest(f, p) = Rest(g, p)
<1>1. N \in Nat /\ MaxFrame \in Nat /\ MinFrame \in Nat /\ MinFrame > 0
  BY FrameReaderAssumption
<1>2. CASE p >= N \/ N - p < MinFrame \/ N - p < length[p]
  BY <1>2 DEF Rest
<1>3. CASE ~(p >= N \/ N - p < MinFrame \/ N - p < length[p])
  <2>1. p \in Positions
    BY <1>1, <1>3 DEF Positions
  <2>2. length[p] \in Nat /\ length[p] > 0
    BY <1>1, <2>1 DEF TypeOK
  <2>3. p + 1 \in p + 1 .. Last /\ p + length[p] \in p + 1 .. Last
    BY <1>1, <1>3, <2>2 DEF Last
  <2>4. QED BY <1>3, <2>3 DEF Rest
<1>4. QED BY <1>2, <1>3

LEMMA ParseIs ==
  ASSUME TypeOK
  PROVE  \A p \in 0 .. Last : Parse[p] = Rest(Parse, p)
<1> DEFINE S == {k \in 0 .. Last : \E f : \A p \in k .. Last : f[p] = Rest(f, p)}
<1>1. Last \in Nat
  BY FrameReaderAssumption DEF Last
<1>2. \A k \in 0 .. Last : k \in S
  <2>1. SUFFICES ASSUME NEW k \in 0 .. Last, \A q \in k + 1 .. Last : q \in S
                 PROVE  k \in S
    <3> HIDE DEF S
    <3>1. QED BY <1>1, <2>1, Downwards
  <2>2. PICK f : \A p \in k + 1 .. Last : f[p] = Rest(f, p)
    <3>1. CASE k = Last
      BY <1>1, <3>1
    <3>2. CASE k # Last
      <4>1. k + 1 \in S
        BY <1>1, <2>1, <3>2
      <4>2. QED BY <4>1
    <3>3. QED BY <3>1, <3>2
  <2> DEFINE g == [p \in 0 .. Last |-> IF p = k THEN Rest(f, k) ELSE f[p]]
  <2>3. \A p \in k .. Last : \A q \in p + 1 .. Last : g[q] = f[q]
    BY <1>1
  <2>4. ASSUME NEW p \in k .. Last
        PROVE  g[p] = Rest(g, p)
    <3>1. g[p] = Rest(f, p)
      BY <1>1, <2>2
    <3>2. p \in 0 .. Last /\ \A q \in p + 1 .. Last : g[q] = f[q]
      BY <1>1, <2>3
    <3> HIDE DEF g
    <3>3. QED BY <3>1, <3>2, RestLooksAhead
  <2> HIDE DEF g
  <2>5. QED BY <2>4
<1>3. PICK f : \A p \in 0 .. Last : f[p] = Rest(f, p)
  <2>1. 0 \in S
    BY <1>1, <1>2
  <2>2. QED BY <2>1
<1> DEFINE g == [p \in 0 .. Last |-> f[p]]
<1>4. g = [p \in 0 .. Last |-> Rest(g, p)]
  <2>1. ASSUME NEW p \in 0 .. Last
        PROVE  f[p] = Rest(g, p)
    <3>1. \A q \in p + 1 .. Last : f[q] = g[q]
      BY <1>1
    <3> HIDE DEF g
    <3>2. Rest(f, p) = Rest(g, p)
      BY <3>1, RestLooksAhead
    <3>3. QED BY <1>3, <3>2
  <2>2. QED BY <2>1
<1> HIDE DEF g
<1>5. Parse = CHOOSE h : h = [p \in 0 .. Last |-> Rest(h, p)]
  BY DEF Parse, Rest, Last
<1>6. Parse = [p \in 0 .. Last |-> Rest(Parse, p)]
  BY <1>4, <1>5, Zenon
<1>7. QED BY <1>6

LEMMA ParseType ==
  ASSUME TypeOK
  PROVE  \A p \in 0 .. Last : Parse[p] \in Seq(Positions)
<1> DEFINE S == {p \in 0 .. Last : Parse[p] \in Seq(Positions)}
<1>1. Last \in Nat /\ N \in Nat /\ MaxFrame \in Nat /\ MinFrame \in Nat /\ MinFrame > 0
  BY FrameReaderAssumption DEF Last
<1>2. ASSUME NEW p \in 0 .. Last, \A q \in p + 1 .. Last : q \in S
      PROVE  p \in S
  <2>1. Parse[p] = Rest(Parse, p)
    BY ParseIs
  <2>2. CASE p >= N \/ N - p < MinFrame \/ N - p < length[p]
    <3>1. Parse[p] = <<>>
      BY <2>1, <2>2 DEF Rest
    <3>2. <<>> \in Seq(Positions)
      OBVIOUS
    <3>3. QED BY <3>1, <3>2
  <2>3. CASE ~(p >= N \/ N - p < MinFrame \/ N - p < length[p])
    <3>1. p \in Positions
      BY <1>1, <2>3 DEF Positions
    <3>2. length[p] \in Nat /\ length[p] > 0
      BY <1>1, <3>1 DEF TypeOK
    <3>3. p + 1 \in p + 1 .. Last /\ p + length[p] \in p + 1 .. Last
      BY <1>1, <2>3, <3>2 DEF Last
    <3>4. Parse[p + 1] \in Seq(Positions) /\ Parse[p + length[p]] \in Seq(Positions)
      BY <1>2, <3>3
    <3>5. <<p>> \in Seq(Positions)
      BY <3>1
    <3>6. <<p>> \o Parse[p + length[p]] \in Seq(Positions)
      BY <3>4, <3>5, ConcatProperties
    <3>7. Parse[p] \in Seq(Positions)
      BY <2>1, <2>3, <3>4, <3>6 DEF Rest
    <3>8. QED BY <3>7
  <2>4. QED BY <2>2, <2>3
<1> HIDE DEF S
<1>3. \A p \in 0 .. Last : p \in S
  BY <1>1, <1>2, Downwards
<1>4. QED BY <1>3 DEF S

LEMMA PiecesStep ==
  ASSUME TypeOK, PiecesDoNotMatter, [Next]_vars
  PROVE  PiecesDoNotMatter'
<1>1. length' = length /\ decodes' = decodes
  BY DEF Next, Receive, Reopen, Deliver, Resync, vars, lineVars
<1>2. Parse' = Parse
  BY <1>1 DEF Parse
<1>3. CASE Reopen
  <2>1. dropped' = {} => dropped = {} /\ start' = start
    <3>1. dropped' = {} => start .. received - 1 = {}
      BY <1>3 DEF Reopen
    <3>2. start .. received - 1 = {} => start = received
      BY Bounds
    <3>3. QED BY <1>3, <3>1, <3>2 DEF Reopen
  <2>2. QED BY <1>2, <1>3, <2>1 DEF Reopen, PiecesDoNotMatter
<1>4. CASE Deliver
  <2>1. start \in Positions /\ start \in 0 .. Last /\ start + length[start] \in 0 .. Last
    BY Whole, Bounds, <1>4 DEF Deliver, Last
  <2>2. /\ delivered \in Seq(Positions) /\ <<start>> \in Seq(Positions)
        /\ Parse[start + length[start]] \in Seq(Positions)
    BY <2>1, ParseType DEF TypeOK
  <2>3. Parse[start] = <<start>> \o Parse[start + length[start]]
    <3>1. Parse[start] = Rest(Parse, start)
      BY <2>1, ParseIs
    <3>2. ~(start >= N \/ N - start < MinFrame \/ N - start < length[start])
      BY <1>4, Whole, Bounds DEF Deliver, Positions
    <3>3. QED BY <1>4, <3>1, <3>2 DEF Rest, Deliver, Decodes
  <2>4. delivered' = delivered \o <<start>>
    <3>1. Append(delivered, start) = delivered \o <<start>>
      BY <2>1, <2>2, AppendIsConcat
    <3>2. QED BY <1>4, <3>1 DEF Deliver
  <2>5. delivered' \o Parse[start + length[start]] = delivered \o Parse[start]
    <3>1. (delivered \o <<start>>) \o Parse[start + length[start]]
            = delivered \o (<<start>> \o Parse[start + length[start]])
      <4>1. \A s, t, u \in Seq(Positions) : (s \o t) \o u = s \o (t \o u)
        BY ConcatAssociative
      <4>2. QED BY <2>2, <4>1, Zenon
    <3>2. QED BY <2>3, <2>4, <3>1
  <2>6. QED BY <1>2, <1>4, <2>5 DEF Deliver, PiecesDoNotMatter
<1>5. CASE Resync
  <2>1. start \in Positions /\ start \in 0 .. Last
    BY Whole, Bounds, <1>5 DEF Resync, Last
  <2>2. Parse[start] = Parse[start + 1]
    <3>1. Parse[start] = Rest(Parse, start)
      BY <2>1, ParseIs
    <3>2. ~(start >= N \/ N - start < MinFrame \/ N - start < length[start])
      BY <1>5, Whole, Bounds DEF Resync, Positions
    <3>3. QED BY <1>5, <3>1, <3>2 DEF Rest, Resync, Decodes
  <2>3. QED BY <1>2, <1>5, <2>2 DEF Resync, PiecesDoNotMatter
<1>6. CASE UNCHANGED <<dropped, delivered, start>>
  BY <1>2, <1>6 DEF PiecesDoNotMatter
<1>7. QED
  BY <1>3, <1>4, <1>5, <1>6 DEF Next, Receive, vars

THEOREM PiecesCorrect == Spec => []PiecesDoNotMatter
<1>1. Init => PiecesDoNotMatter
  <2> SUFFICES ASSUME Init
               PROVE  PiecesDoNotMatter
    OBVIOUS
  <2>1. TypeOK /\ start = 0 /\ delivered = <<>>
    BY FrameReaderAssumption DEF Init, TypeOK, Positions
  <2>2. Parse[0] \in Seq(Positions)
    BY <2>1, ParseType, FrameReaderAssumption DEF Last
  <2>3. <<>> \o Parse[0] = Parse[0]
    BY <2>2, ConcatEmptySeq
  <2>4. QED BY <2>1, <2>3 DEF PiecesDoNotMatter
<1>2. QED BY <1>1, PiecesStep, TypeCorrect, PTL DEF Spec

(***************************************************************************)
(* PART 2: the port.                                                       *)
(***************************************************************************)

LEMMA PortTypeStep ==
  ASSUME PortTypeOK, [PortNext]_portVars
  PROVE  PortTypeOK'
<1> USE DEF PortTypeOK, readerVars, historyVars, Running, Senders
<1>1. CASE ReaderCheck
  BY <1>1 DEF ReaderCheck
<1>2. CASE ReaderOpen
  BY <1>2 DEF ReaderOpen
<1>3. CASE ReaderRead
  BY <1>3 DEF ReaderRead, Crash
<1>4. CASE ReaderData
  BY <1>4 DEF ReaderData
<1>5. CASE ReaderError
  BY <1>5 DEF ReaderError
<1>6. CASE ReaderTest
  BY <1>6 DEF ReaderTest
<1>7. CASE ReaderClose
  BY <1>7 DEF ReaderClose, Crash, Close
<1>8. CASE ReaderClear
  BY <1>8 DEF ReaderClear
<1>9. ASSUME NEW s \in Senders, SendCheck(s)
      PROVE  PortTypeOK'
  BY <1>9 DEF SendCheck, Leave
<1>10. ASSUME NEW s \in Senders, SendWrite(s)
       PROVE  PortTypeOK'
  BY <1>10 DEF SendWrite, Leave, Crash
<1>11. ASSUME NEW s \in Senders, SendClose(s)
       PROVE  PortTypeOK'
  BY <1>11 DEF SendClose, Crash, Close
<1>12. ASSUME NEW s \in Senders, SendClear(s)
       PROVE  PortTypeOK'
  BY <1>12 DEF SendClear, Leave
<1>13. CASE UNCHANGED portVars
  BY <1>13 DEF portVars
<1>14. QED
  BY <1>1, <1>2, <1>3, <1>4, <1>5, <1>6, <1>7, <1>8, <1>9, <1>10, <1>11, <1>12, <1>13
     DEF PortNext, Reader, SendFrame

\* The reader acknowledges a write only while it handles a frame, and every
\* variable keeps its type.
THEOREM PortTypeCorrect == PortSpec => []PortTypeOK
<1>1. PortInit => PortTypeOK
  BY DEF PortInit, PortTypeOK, Senders
<1>2. QED BY <1>1, PortTypeStep, PTL DEF PortSpec

-----------------------------------------------------------------------------
(* One handle.  Only the reader makes p.port non-nil, and as long as no    *)
(* write fails only the reader closes or clears it.                        *)

HandleInv ==
  /\ rpc = "open" => port = NoPort
  /\ ~writeFailed =>
       /\ \A s \in Senders : spc[s] \in {"idle", "write"}
       /\ open \subseteq {port}
       /\ rpc = "reading" => rh = port
       /\ rpc = "clear" => open = {}

LEMMA HandleStep ==
  ASSUME PortTypeOK, HandleInv, [PortNext]_portVars
  PROVE  HandleInv'
<1> USE SerialPortAssumption DEF PortTypeOK, HandleInv, readerVars,
    historyVars, Running, Senders
<1>1. CASE ReaderCheck
  BY <1>1 DEF ReaderCheck
<1>2. CASE ReaderOpen
  BY <1>2 DEF ReaderOpen
<1>3. CASE ReaderRead
  BY <1>3 DEF ReaderRead, Crash
<1>4. CASE ReaderData
  BY <1>4 DEF ReaderData
<1>5. CASE ReaderError
  BY <1>5 DEF ReaderError
<1>6. CASE ReaderTest
  BY <1>6 DEF ReaderTest
<1>7. CASE ReaderClose
  BY <1>7 DEF ReaderClose, Crash, Close
<1>8. CASE ReaderClear
  BY <1>8 DEF ReaderClear
<1>9. ASSUME NEW s \in Senders, SendCheck(s)
      PROVE  HandleInv'
  BY <1>9 DEF SendCheck, Leave
<1>10. ASSUME NEW s \in Senders, SendWrite(s)
       PROVE  HandleInv'
  BY <1>10 DEF SendWrite, Leave, Crash
<1>11. ASSUME NEW s \in Senders, SendClose(s)
       PROVE  HandleInv'
  BY <1>11 DEF SendClose, Crash, Close
<1>12. ASSUME NEW s \in Senders, SendClear(s)
       PROVE  HandleInv'
  BY <1>12 DEF SendClear, Leave
<1>13. CASE UNCHANGED portVars
  BY <1>13 DEF portVars
<1>14. QED
  BY <1>1, <1>2, <1>3, <1>4, <1>5, <1>6, <1>7, <1>8, <1>9, <1>10, <1>11, <1>12, <1>13
     DEF PortNext, Reader, SendFrame

\* As long as no write fails no handle leaks and the reader reads the port's.
THEOREM OneHandleCorrect == PortSpec => []OneHandle
<1>1. PortInit => HandleInv
  BY DEF PortInit, HandleInv, Senders
<1>2. PortSpec => []HandleInv
  BY <1>1, HandleStep, PortTypeCorrect, PTL DEF PortSpec
<1>3. HandleInv => OneHandle
  BY DEF HandleInv, OneHandle
<1>4. QED BY <1>2, <1>3, PTL

-----------------------------------------------------------------------------
(* The reader outlives timeouts.  While no open and no write has failed,   *)
(* the port is there wherever the reader calls a method on it.             *)

ReaderInv ==
  ~openFailed /\ ~writeFailed =>
    /\ crashed # "reader"
    /\ rpc \in {"read", "close"} => port # NoPort
    /\ spc["reader"] = "write" => port # NoPort
    /\ \A s \in Senders : spc[s] \in {"idle", "write"}

LEMMA ReaderStep ==
  ASSUME PortTypeOK, ReaderInv, [PortNext]_portVars
  PROVE  ReaderInv'
<1> USE SerialPortAssumption DEF PortTypeOK, ReaderInv, readerVars,
    historyVars, Running, Senders
<1>1. CASE ReaderCheck
  BY <1>1 DEF ReaderCheck
<1>2. CASE ReaderOpen
  BY <1>2 DEF ReaderOpen
<1>3. CASE ReaderRead
  BY <1>3 DEF ReaderRead, Crash
<1>4. CASE ReaderData
  BY <1>4 DEF ReaderData
<1>5. CASE ReaderError
  BY <1>5 DEF ReaderError
<1>6. CASE ReaderTest
  BY <1>6 DEF ReaderTest
<1>7. CASE ReaderClose
  BY <1>7 DEF ReaderClose, Crash, Close
<1>8. CASE ReaderClear
  BY <1>8 DEF ReaderClear
<1>9. ASSUME NEW s \in Senders, SendCheck(s)
      PROVE  ReaderInv'
  BY <1>9 DEF SendCheck, Leave
<1>10. ASSUME NEW s \in Senders, SendWrite(s)
       PROVE  ReaderInv'
  BY <1>10 DEF SendWrite, Leave, Crash
<1>11. ASSUME NEW s \in Senders, SendClose(s)
       PROVE  ReaderInv'
  BY <1>11 DEF SendClose, Crash, Close
<1>12. ASSUME NEW s \in Senders, SendClear(s)
       PROVE  ReaderInv'
  BY <1>12 DEF SendClear, Leave
<1>13. CASE UNCHANGED portVars
  BY <1>13 DEF portVars
<1>14. QED
  BY <1>1, <1>2, <1>3, <1>4, <1>5, <1>6, <1>7, <1>8, <1>9, <1>10, <1>11, <1>12, <1>13
     DEF PortNext, Reader, SendFrame

\* The reader panics only after an open or a write has failed.
THEOREM ReaderOutlives == PortSpec => []ReaderOutlivesTimeouts
<1>1. PortInit => ReaderInv
  BY SerialPortAssumption DEF PortInit, ReaderInv, Senders
<1>2. PortSpec => []ReaderInv
  BY <1>1, ReaderStep, PortTypeCorrect, PTL DEF PortSpec
<1>3. ReaderInv => ReaderOutlivesTimeouts
  BY DEF ReaderInv, ReaderOutlivesTimeouts
<1>4. QED BY <1>2, <1>3, PTL
=============================================================================
