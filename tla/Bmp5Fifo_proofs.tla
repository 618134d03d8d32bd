--------------------------- MODULE Bmp5Fifo_proofs ---------------------------
(***************************************************************************)
(* Proofs about the FIFO clients for a FIFO of any size, any client, any   *)
(* threshold and any number of frames, iterations and bus failures.        *)
(***************************************************************************)
EXTENDS Bmp5Fifo, SequenceTheorems, TLAPS

Frames == 1..(MaxFrame + 1)

\* The client's count is never ahead of the FIFO, since frames are only
\* overwritten once it is full, and the burst it asks for is what it counted.
IInv ==
    /\ client \in ClientType /\ fifo \in Seq(Frames) /\ Len(fifo) <= Depth(client.sel)
    /\ next \in Frames
    /\ loop \in 0..Loops /\ (pc # "poll" => loop < Loops)
    /\ pc \in {"poll", "count", "data", "extract", "lost"}
    /\ length \in 0..MemoryBytes
    /\ pc = "data" => /\ count \in Nat /\ count <= Len(fifo)
                      /\ length = count * FrameBytes(client.sel)
    /\ pc \in {"extract", "lost"} => /\ data \in Seq(Frames) /\ Len(data) = count
                                   /\ count \in Nat /\ count <= Depth(client.sel)

\* Whole frames fit the FIFO and come out of it.
LEMMA FrameArithmetic ==
    ASSUME NEW sel \in 1..3
    PROVE  /\ FrameBytes(sel) \in {3, 6} /\ Depth(sel) \in Nat \ {0}
           /\ \A n \in Nat : n <= Depth(sel) => n * FrameBytes(sel) \in 0..MemoryBytes
           /\ \A n \in Nat : (n * FrameBytes(sel)) \div FrameBytes(sel) = n
<1>1. MemoryBytes \in Nat /\ MemoryBytes >= 6
  BY FifoAssumption
<1>2. CASE sel = 3
  <2>1. FrameBytes(sel) = 6 /\ Depth(sel) = MemoryBytes \div 6
    BY <1>2 DEF FrameBytes, Depth
  <2> QED BY <1>1, <2>1
<1>3. CASE sel # 3
  <2>1. FrameBytes(sel) = 3 /\ Depth(sel) = MemoryBytes \div 3
    BY <1>3 DEF FrameBytes, Depth
  <2> QED BY <1>1, <2>1
<1> QED BY <1>2, <1>3

LEMMA Depths == \A sel \in 1..3 : Depth(sel) \in Nat
  BY FrameArithmetic

LEMMA Sels == ASSUME IInv PROVE client.sel \in 1..3
  BY DEF IInv, ClientType

LEMMA Constants == MaxFrame \in Nat /\ Loops \in Nat /\ MaxFaults \in Nat /\ MemoryBytes \in Nat
  BY FifoAssumption

LEMMA InitInv == Init => IInv
<1> SUFFICES ASSUME Init PROVE IInv
  OBVIOUS
<1>1. client \in ClientType
  BY FifoAssumption DEF Init
<1>2. client.sel \in 1..3
  BY <1>1 DEF ClientType
<1>3. Depth(client.sel) \in Nat
  BY <1>2, FrameArithmetic
<1>4. fifo \in Seq(Frames) /\ Len(fifo) = 0
  BY DEF Init
<1> QED BY <1>1, <1>3, <1>4, Constants DEF Init, IInv, Frames

\* A new frame: the FIFO grows, or keeps its length.
LEMMA SampleInv == ASSUME IInv, Sample PROVE IInv'
<1>1. /\ client.sel \in 1..3 /\ fifo \in Seq(Frames) /\ next \in Frames
      /\ Len(fifo) <= Depth(client.sel) /\ Depth(client.sel) \in Nat \ {0}
  BY Sels, FrameArithmetic DEF IInv
<1>2. client' = client /\ next' = (IF next <= MaxFrame THEN next + 1 ELSE next)
      /\ fifo' = Append(IF Len(fifo) = Depth(client.sel) THEN Tail(fifo) ELSE fifo, next)
      /\ UNCHANGED <<pc, loop, count, length, data>>
  BY DEF Sample
<1>3. /\ fifo' \in Seq(Frames) /\ Len(fifo') <= Depth(client.sel)
      /\ Len(fifo) \in Nat /\ Len(fifo') \in Nat /\ Len(fifo) <= Len(fifo')
  <2>1. CASE Len(fifo) = Depth(client.sel)
    <3>1. Tail(fifo) \in Seq(Frames) /\ Len(Tail(fifo)) = Len(fifo) - 1
      BY <1>1, <2>1
    <3> QED BY <1>1, <1>2, <2>1, <3>1
  <2>2. CASE Len(fifo) # Depth(client.sel)
    BY <1>1, <1>2, <2>2
  <2> QED BY <2>1, <2>2
<1>4. next' \in Frames
  BY <1>1, <1>2, Constants DEF Frames
<1>5. pc' = "data" => count' \in Nat /\ count' <= Len(fifo')
  BY <1>2, <1>3 DEF IInv
<1> QED BY <1>2, <1>3, <1>4, <1>5 DEF IInv

\* What is left of the FIFO after n frames.
LEMMA Rest ==
    ASSUME NEW s \in Seq(Frames), NEW n \in 0..Len(s)
    PROVE  LET r == SubSeq(s, n + 1, Len(s))
           IN r \in Seq(Frames) /\ Len(r) \in Nat /\ Len(r) <= Len(s)
<1>1. n + 1 \in Int /\ Len(s) \in Nat /\ Len(s) \in Int
  OBVIOUS
<1>2. \A i \in (n + 1)..Len(s) : s[i] \in Frames
  OBVIOUS
<1>3. SubSeq(s, n + 1, Len(s)) \in Seq(Frames)
  BY <1>1, <1>2, SubSeqProperties
<1>4. Len(SubSeq(s, n + 1, Len(s))) = IF n + 1 <= Len(s) THEN Len(s) - (n + 1) + 1 ELSE 0
  BY <1>1, <1>2, SubSeqProperties
<1> QED BY <1>1, <1>3, <1>4

\* One step of the client at a time.
LEMMA PollInv == ASSUME IInv, Poll \/ PollFails PROVE IInv'
<1>1. /\ pc = "poll" /\ loop < Loops /\ pc' \in {"poll", "count"}
      /\ UNCHANGED <<client, next, fifo, loop, count, length, data>>
  BY DEF Poll, PollFails
<1> QED BY <1>1 DEF IInv

LEMMA ReadCountInv == ASSUME IInv, ReadCount PROVE IInv'
<1>1. /\ client.sel \in 1..3 /\ fifo \in Seq(Frames) /\ Len(fifo) <= Depth(client.sel)
  BY Sels DEF IInv
<1>2. Len(fifo) \in Nat
  BY <1>1
<1>3. count' * FrameBytes(client.sel) \in 0..MemoryBytes /\ count' = Len(fifo)
  BY <1>1, <1>2, FrameArithmetic DEF ReadCount
<1>4. length' = count' * FrameBytes(client.sel)
  <2>1. length' = IF count' * FrameBytes(client.sel) < MemoryBytes
                  THEN count' * FrameBytes(client.sel) ELSE MemoryBytes
    BY DEF ReadCount
  <2> QED BY <1>3, <2>1, Constants
<1>5. pc = "count" /\ pc' = "data" /\ UNCHANGED <<client, next, fifo, loop, data>>
  BY DEF ReadCount
<1> QED BY <1>2, <1>3, <1>4, <1>5 DEF IInv

LEMMA ReadDataSplits ==
    ASSUME IInv, ReadData
    PROVE  /\ count \in 0..Len(fifo) /\ data' = [i \in 1..count |-> fifo[i]]
           /\ fifo' = SubSeq(fifo, count + 1, Len(fifo))
<1>1. /\ client.sel \in 1..3 /\ fifo \in Seq(Frames) /\ pc = "data"
      /\ count \in Nat /\ count <= Len(fifo) /\ length = count * FrameBytes(client.sel)
  BY Sels DEF IInv, ReadData
<1>2. length \div FrameBytes(client.sel) = count
  BY <1>1, FrameArithmetic
<1>3. /\ data' = Burst(count)
      /\ fifo' = SubSeq(fifo, (IF count < Len(fifo) THEN count ELSE Len(fifo)) + 1, Len(fifo))
  BY <1>2 DEF ReadData
<1>4. data' = [i \in 1..count |-> fifo[i]]
  BY <1>1, <1>3 DEF Burst
<1>5. Len(fifo) \in Nat
  BY <1>1
<1>6. (IF count < Len(fifo) THEN count ELSE Len(fifo)) = count
  BY <1>1, <1>5
<1>7. count \in 0..Len(fifo)
  BY <1>1, <1>5
<1>8. fifo' = SubSeq(fifo, count + 1, Len(fifo))
  BY <1>3, <1>6
<1> QED BY <1>4, <1>7, <1>8

LEMMA ReadDataInv == ASSUME IInv, ReadData PROVE IInv'
<1>1. /\ client.sel \in 1..3 /\ fifo \in Seq(Frames) /\ pc = "data"
      /\ count \in Nat /\ count <= Len(fifo) /\ Len(fifo) <= Depth(client.sel)
  BY Sels DEF IInv, ReadData
<1>3. pc' = "extract" /\ UNCHANGED <<client, next, loop, count, length>>
  BY DEF ReadData
<1>4. data' = [i \in 1..count |-> fifo[i]]
  BY ReadDataSplits
<1>5. data' \in Seq(Frames) /\ Len(data') = count
  BY <1>1, <1>4
<1>6. fifo' = SubSeq(fifo, count + 1, Len(fifo))
  BY ReadDataSplits
<1>7. fifo' \in Seq(Frames) /\ Len(fifo') <= Len(fifo) /\ Len(fifo') \in Nat
  <2>1. count \in 0..Len(fifo)
    BY <1>1
  <2> QED BY <1>1, <1>6, <2>1, Rest
<1>8. Len(fifo') <= Depth(client.sel)
  <2>1. Len(fifo) \in Nat /\ Depth(client.sel) \in Nat
    BY <1>1, Depths
  <2>2. Len(fifo') \in Nat /\ Len(fifo') <= Len(fifo) /\ Len(fifo) <= Depth(client.sel)
    BY <1>1, <1>7
  <2> QED BY <2>1, <2>2
<1>9. pc' # "poll" => loop' < Loops
  BY <1>1, <1>3 DEF IInv
<1>10. count' \in Nat /\ count' <= Depth(client'.sel)
  <2>1. Len(fifo) \in Nat /\ Depth(client.sel) \in Nat
    BY <1>1, Depths
  <2> QED BY <1>1, <1>3, <2>1
<1> QED BY <1>3, <1>5, <1>7, <1>8, <1>9, <1>10 DEF IInv

LEMMA ReadFailsInv == ASSUME IInv, ReadFails PROVE IInv'
<1>1. fifo \in Seq(Frames) /\ Len(fifo) <= Depth(client.sel) /\ client.sel \in 1..3
  BY Sels DEF IInv
<1>2. PICK n \in 0..Len(fifo) : fifo' = SubSeq(fifo, n + 1, Len(fifo))
  BY <1>1 DEF ReadFails
<1>3. fifo' \in Seq(Frames) /\ Len(fifo') <= Len(fifo) /\ Len(fifo') \in Nat
  BY <1>1, <1>2, Rest
<1>4. Len(fifo') <= Depth(client.sel)
  <2>1. Len(fifo) \in Nat /\ Depth(client.sel) \in Nat
    BY <1>1, Depths
  <2>2. Len(fifo') \in Nat /\ Len(fifo') <= Len(fifo) /\ Len(fifo) <= Depth(client.sel)
    BY <1>1, <1>3
  <2> QED BY <2>1, <2>2
<1>5. loop' \in 0..Loops
  <2>1. loop \in 0..Loops /\ loop < Loops /\ loop' \in {loop, loop + 1}
    BY DEF IInv, ReadFails
  <2> QED BY <2>1, Constants
<1>6. pc' = "poll" /\ UNCHANGED <<client, next, length>>
  BY DEF ReadFails
<1> QED BY <1>3, <1>4, <1>5, <1>6 DEF IInv

LEMMA ExtractInv == ASSUME IInv, Extract PROVE IInv'
<1>1. loop' \in 0..Loops
  <2>1. loop \in 0..Loops /\ loop < Loops /\ loop' = loop + 1
    BY DEF IInv, Extract
  <2> QED BY <2>1, Constants
<1>2. pc' = "poll" /\ UNCHANGED <<client, next, fifo, length>>
  BY DEF Extract
<1> QED BY <1>1, <1>2 DEF IInv

LEMMA OverrunInv == ASSUME IInv, Overrun PROVE IInv'
<1>1. /\ pc = "extract" /\ pc' = "lost"
      /\ UNCHANGED <<client, next, fifo, loop, count, length, data>>
  BY DEF Overrun
<1> QED BY <1>1 DEF IInv

LEMMA StepInv == ASSUME IInv, [Next]_vars PROVE IInv'
<1>1. CASE UNCHANGED vars
  BY <1>1 DEF vars, IInv
<1> QED BY <1>1, SampleInv, PollInv, ReadCountInv, ReadDataInv, ReadFailsInv, ExtractInv,
           OverrunInv
        DEF Next, Client

\* Frames are numbered from one: -1 is no frame.
LEMMA NoMarkers ==
    ASSUME NEW frames \in Seq(Frames)
    PROVE  Unpacked(frames).rslt = "OK" /\ Unpacked(frames).samples = frames
<1>1. \A i \in DOMAIN frames : frames[i] # -1
  <2>1. \A i \in DOMAIN frames : frames[i] \in Frames
    OBVIOUS
  <2>2. \A f \in Frames : f # -1
    BY Constants DEF Frames
  <2> QED BY <2>1, <2>2
<1>2. {i \in DOMAIN frames : frames[i] = -1} = {}
  BY <1>1
<1> QED BY <1>2 DEF Unpacked

LEMMA RangesStep ==
    ASSUME client \in Clients, status \subseteq {"full", "thres"},
           rslt \in {"OK", "FIFO_FRAME_EMPTY"}, faults \in 0..MaxFaults, [Next]_vars
    PROVE  /\ client' \in Clients /\ status' \subseteq {"full", "thres"}
           /\ rslt' \in {"OK", "FIFO_FRAME_EMPTY"} /\ faults' \in 0..MaxFaults
<1>1. client' = client
  BY DEF Next, Client, vars, Sample, Poll, PollFails, ReadCount, ReadData, ReadFails,
         Extract, Overrun
<1>2. status' \subseteq {"full", "thres"}
  BY DEF Next, Client, vars, Sample, Poll, PollFails, ReadCount, ReadData, ReadFails,
         Extract, Overrun
<1>3. rslt' = rslt \/ Extract
  BY DEF Next, Client, vars, Sample, Poll, PollFails, ReadCount, ReadData, ReadFails, Overrun
<1>4. Unpacked(data).rslt \in {"OK", "FIFO_FRAME_EMPTY"}
  BY DEF Unpacked
<1>5. faults' = faults \/ (faults < MaxFaults /\ faults' = faults + 1)
  BY DEF Next, Client, vars, Sample, Poll, PollFails, ReadCount, ReadData, ReadFails,
         Extract, Overrun
<1>6. faults' \in 0..MaxFaults
  BY <1>5, Constants
<1> QED BY <1>1, <1>2, <1>3, <1>4, <1>6 DEF Extract

\* In every reachable state the variables have their types; in particular
\* the FIFO never holds more frames than fit and the burst more bytes than
\* the client's buffer.
THEOREM TypeCorrect == Spec => []TypeOK
<1> DEFINE Ranges == /\ client \in Clients /\ status \subseteq {"full", "thres"}
                     /\ rslt \in {"OK", "FIFO_FRAME_EMPTY"} /\ faults \in 0..MaxFaults
<1>1. Init => IInv /\ Ranges
  BY InitInv, Constants DEF Init
<1>2. IInv /\ Ranges /\ [Next]_vars => (IInv /\ Ranges)'
  BY StepInv, RangesStep
<1>3. IInv /\ Ranges => TypeOK
  <2> SUFFICES ASSUME IInv, Ranges PROVE TypeOK
    OBVIOUS
  <2>1. Elements(fifo) \subseteq Frames
    BY DEF IInv, Elements
  <2> QED BY <2>1 DEF IInv, TypeOK, Frames
<1> QED BY <1>1, <1>2, <1>3, PTL DEF Spec

\* Whatever the size of the FIFO, the kind of frames and the threshold, and
\* however many frames arrive between the count and the burst, no batch ends
\* at an empty marker: it is unpacked whole, or it is longer than the array,
\* which then has no room for a full FIFO.
THEOREM WholeBatches == Spec => BatchesAreWhole
<1> DEFINE Whole == pc' = "poll" /\ rslt' = "OK" /\ Len(samples') = count
           TooLong == pc' = "lost" /\ client.room < count /\ client.room < Depth(client.sel)
<1>1. Init => IInv
  BY InitInv
<1>2. IInv /\ [Next]_vars => IInv'
  BY StepInv
<1>3. IInv /\ [Next]_vars => [pc = "extract" /\ pc' # "extract" => Whole \/ TooLong]_vars
  <2> SUFFICES ASSUME IInv, [Next]_vars, pc = "extract", pc' # "extract" PROVE Whole \/ TooLong
    OBVIOUS
  <2>1. Extract \/ Overrun
    BY DEF Next, Client, vars, Sample, Poll, PollFails, ReadCount, ReadData, ReadFails
  <2>2. data \in Seq(Frames) /\ Len(data) = count /\ count \in Nat /\ count <= Depth(client.sel)
    BY DEF IInv
  <2>3. Unpacked(data).samples = data /\ Unpacked(data).rslt = "OK"
    BY <2>2, NoMarkers
  <2>4. CASE Extract
    BY <2>2, <2>3, <2>4 DEF Extract
  <2>5. CASE Overrun
    <3>1. client.room \in Nat /\ Depth(client.sel) \in Nat
      BY Sels, Depths DEF IInv, ClientType
    <3> QED BY <2>2, <2>3, <2>5, <3>1 DEF Overrun
  <2> QED BY <2>1, <2>4, <2>5
<1> QED BY <1>1, <1>2, <1>3, PTL DEF Spec, BatchesAreWhole

-----------------------------------------------------------------------------
\* Frames the burst took off the FIFO and the client has not unpacked, the
\* ones it lost by overrunning its array among them.
Held == IF pc \in {"extract", "lost"} THEN data ELSE <<>>

\* f was measured before g; frames beyond MaxFrame are not told apart.
Before(f, g) == f < g \/ g = MaxFrame + 1
InOrder(s) == \A i, j \in DOMAIN s : i < j => Before(s[i], s[j])
AllBefore(S, T) == \A f \in S, g \in T : Before(f, g)

\* Printed, held by the client, in the sensor, still to come: four stretches
\* of the frames in the order measured, with only dropped frames missing.
Accounted ==
    /\ shown \in Seq(Frames)
    /\ InOrder(shown) /\ InOrder(Held) /\ InOrder(fifo)
    /\ AllBefore(Elements(shown), Elements(Held) \cup Elements(fifo) \cup {next})
    /\ AllBefore(Elements(Held), Elements(fifo) \cup {next})
    /\ AllBefore(Elements(fifo), {next})
    /\ \A f \in 1..MaxFrame : f < next =>
          f \in Elements(shown) \cup dropped \cup Elements(Held) \cup Elements(fifo)

LEMMA HeldType == ASSUME IInv PROVE Held \in Seq(Frames)
  BY DEF IInv, Held

LEMMA Lengths ==
    ASSUME NEW n \in Nat, NEW l \in Nat, n <= l
    PROVE  /\ (IF n + 1 <= l THEN l - (n + 1) + 1 ELSE 0) = l - n /\ l - n \in Nat
           /\ l - (n + 1) + 1 = l - n
           /\ \A i \in Int : n + 1 + i - 1 = n + i
  OBVIOUS

LEMMA Suffix ==
    ASSUME NEW s \in Seq(Frames), NEW n \in 0..Len(s)
    PROVE  LET r == SubSeq(s, n + 1, Len(s))
           IN DOMAIN r = 1..(Len(s) - n) /\ \A i \in DOMAIN r : r[i] = s[n + i]
<1> DEFINE r == SubSeq(s, n + 1, Len(s))
<1>1. n \in Nat /\ n + 1 \in Int /\ Len(s) \in Nat /\ Len(s) \in Int /\ n <= Len(s)
  OBVIOUS
<1>2. \A i \in (n + 1)..Len(s) : s[i] \in Frames
  BY <1>1
<1>3. /\ r \in Seq(Frames)
      /\ Len(r) = IF n + 1 <= Len(s) THEN Len(s) - (n + 1) + 1 ELSE 0
      /\ \A i \in 1..(Len(s) - (n + 1) + 1) : r[i] = s[n + 1 + i - 1]
  BY <1>1, <1>2, SubSeqProperties
<1>4. Len(r) = Len(s) - n /\ \A i \in 1..(Len(s) - n) : r[i] = s[n + i]
  <2>1. /\ (IF n + 1 <= Len(s) THEN Len(s) - (n + 1) + 1 ELSE 0) = Len(s) - n
        /\ Len(s) - (n + 1) + 1 = Len(s) - n
        /\ \A i \in Int : n + 1 + i - 1 = n + i
    BY <1>1, Lengths
  <2> HIDE DEF r
  <2>2. \A i \in 1..(Len(s) - n) : i \in Int
    OBVIOUS
  <2> QED BY <1>3, <2>1, <2>2
<1>5. DOMAIN r = 1..Len(r)
  <2> HIDE DEF r
  <2> QED BY <1>3
<1> QED BY <1>4, <1>5

\* The first n frames of a sequence in order, and the others.
LEMMA Cut ==
    ASSUME NEW s \in Seq(Frames), NEW n \in 0..Len(s), InOrder(s)
    PROVE  LET p == SubSeq(s, 1, n)
               r == SubSeq(s, n + 1, Len(s))
           IN /\ p = [i \in 1..n |-> s[i]]
              /\ InOrder(p) /\ InOrder(r) /\ AllBefore(Elements(p), Elements(r))
              /\ Elements(s) = Elements(p) \cup Elements(r)
<1> DEFINE p == SubSeq(s, 1, n)
           r == SubSeq(s, n + 1, Len(s))
<1>1. /\ n \in Nat /\ n <= Len(s) /\ Len(s) \in Nat
      /\ DOMAIN s = 1..Len(s) /\ p = [i \in 1..n |-> s[i]] /\ DOMAIN p = 1..n
  OBVIOUS
<1>2. DOMAIN r = 1..(Len(s) - n) /\ \A i \in DOMAIN r : r[i] = s[n + i]
  BY Suffix
<1> HIDE DEF p, r
<1>3. InOrder(p)
  BY <1>1 DEF InOrder
<1>4. InOrder(r)
  <2> SUFFICES ASSUME NEW i \in DOMAIN r, NEW j \in DOMAIN r, i < j PROVE Before(r[i], r[j])
    BY DEF InOrder
  <2>1. n + i \in DOMAIN s /\ n + j \in DOMAIN s /\ n + i < n + j
    BY <1>1, <1>2
  <2> QED BY <1>2, <2>1 DEF InOrder
<1>5. AllBefore(Elements(p), Elements(r))
  <2> SUFFICES ASSUME NEW i \in DOMAIN p, NEW j \in DOMAIN r PROVE Before(p[i], r[j])
    BY DEF AllBefore, Elements
  <2>1. i \in DOMAIN s /\ n + j \in DOMAIN s /\ i < n + j
    BY <1>1, <1>2
  <2> QED BY <1>1, <1>2, <2>1 DEF InOrder
<1>6. Elements(s) = Elements(p) \cup Elements(r)
  <2>1. ASSUME NEW i \in DOMAIN s PROVE s[i] \in Elements(p) \cup Elements(r)
    <3>1. CASE i <= n
      BY <1>1, <3>1 DEF Elements
    <3>2. CASE i > n
      <4>1. i - n \in DOMAIN r /\ n + (i - n) = i
        BY <1>1, <1>2, <3>2
      <4> QED BY <1>2, <4>1 DEF Elements
    <3> QED BY <1>1, <3>1, <3>2
  <2>2. ASSUME NEW i \in DOMAIN p PROVE p[i] \in Elements(s)
    BY <1>1 DEF Elements
  <2>3. ASSUME NEW i \in DOMAIN r PROVE r[i] \in Elements(s)
    <3>1. n + i \in DOMAIN s
      BY <1>1, <1>2
    <3> QED BY <1>2, <3>1 DEF Elements
  <2>4. Elements(s) \subseteq Elements(p) \cup Elements(r)
    BY <2>1 DEF Elements
  <2>5. Elements(p) \subseteq Elements(s)
    BY <2>2 DEF Elements
  <2>6. Elements(r) \subseteq Elements(s)
    BY <2>3 DEF Elements
  <2> QED BY <2>4, <2>5, <2>6
<1> QED BY <1>1, <1>3, <1>4, <1>5, <1>6 DEF p, r

\* Two stretches one after the other.
LEMMA Join ==
    ASSUME NEW s \in Seq(Frames), NEW t \in Seq(Frames), InOrder(s), InOrder(t),
           AllBefore(Elements(s), Elements(t))
    PROVE  /\ s \o t \in Seq(Frames) /\ InOrder(s \o t)
           /\ Elements(s \o t) = Elements(s) \cup Elements(t)
<1>1. /\ Len(s) \in Nat /\ Len(t) \in Nat /\ DOMAIN s = 1..Len(s) /\ DOMAIN t = 1..Len(t)
      /\ s \o t \in Seq(Frames) /\ DOMAIN (s \o t) = 1..(Len(s) + Len(t))
      /\ \A i \in 1..Len(s) : (s \o t)[i] = s[i]
      /\ \A i \in 1..Len(t) : (s \o t)[Len(s) + i] = t[i]
  OBVIOUS
<1>2. \A i \in DOMAIN (s \o t) : \/ i \in DOMAIN s /\ (s \o t)[i] = s[i]
                                \/ /\ i > Len(s) /\ i - Len(s) \in DOMAIN t
                                   /\ (s \o t)[i] = t[i - Len(s)]
  <2> TAKE i \in DOMAIN (s \o t)
  <2>1. CASE i <= Len(s)
    BY <1>1, <2>1
  <2>2. CASE i > Len(s)
    <3>1. i - Len(s) \in 1..Len(t) /\ Len(s) + (i - Len(s)) = i
      BY <1>1, <2>2
    <3> QED BY <1>1, <2>2, <3>1
  <2> QED BY <1>1, <2>1, <2>2
<1>3. InOrder(s \o t)
  <2> SUFFICES ASSUME NEW i \in DOMAIN (s \o t), NEW j \in DOMAIN (s \o t), i < j
               PROVE  Before((s \o t)[i], (s \o t)[j])
    BY DEF InOrder
  <2>1. CASE i \in DOMAIN s /\ j \in DOMAIN s
    BY <1>1, <2>1 DEF InOrder
  <2>2. CASE i \in DOMAIN s /\ j \notin DOMAIN s
    <3>1. (s \o t)[i] \in Elements(s)
      BY <1>1, <2>2 DEF Elements
    <3>2. (s \o t)[j] \in Elements(t)
      BY <1>2, <2>2 DEF Elements
    <3> QED BY <3>1, <3>2 DEF AllBefore
  <2>3. CASE i \notin DOMAIN s
    <3>1. i - Len(s) \in DOMAIN t /\ j - Len(s) \in DOMAIN t /\ i - Len(s) < j - Len(s)
          /\ (s \o t)[i] = t[i - Len(s)] /\ (s \o t)[j] = t[j - Len(s)]
      BY <1>1, <1>2, <2>3
    <3> QED BY <3>1 DEF InOrder
  <2> QED BY <2>1, <2>2, <2>3
<1>4. \A f : f \in Elements(s \o t) => f \in Elements(s) \cup Elements(t)
  BY <1>2 DEF Elements
<1>5. \A f \in Elements(s) : f \in Elements(s \o t)
  BY <1>1 DEF Elements
<1>6. ASSUME NEW i \in DOMAIN t PROVE t[i] \in Elements(s \o t)
  <2>1. Len(s) + i \in DOMAIN (s \o t)
    BY <1>1
  <2> QED BY <1>1, <2>1 DEF Elements
<1>7. \A f \in Elements(t) : f \in Elements(s \o t)
  BY <1>6 DEF Elements
<1> QED BY <1>1, <1>3, <1>4, <1>5, <1>7

\* A frame is added behind the others, or the oldest one leaves.
LEMMA Grow ==
    ASSUME NEW s \in Seq(Frames), NEW f \in Frames, InOrder(s), AllBefore(Elements(s), {f})
    PROVE  InOrder(Append(s, f)) /\ Elements(Append(s, f)) = Elements(s) \cup {f}
<1>1. /\ Len(s) \in Nat /\ DOMAIN s = 1..Len(s) /\ DOMAIN Append(s, f) = 1..(Len(s) + 1)
      /\ \A i \in 1..Len(s) : Append(s, f)[i] = s[i]
      /\ Append(s, f)[Len(s) + 1] = f
  OBVIOUS
<1>2. InOrder(Append(s, f))
  <2> SUFFICES ASSUME NEW i \in 1..(Len(s) + 1), NEW j \in 1..(Len(s) + 1), i < j
               PROVE  Before(Append(s, f)[i], Append(s, f)[j])
    BY <1>1 DEF InOrder
  <2>1. i \in DOMAIN s /\ Append(s, f)[i] = s[i] /\ s[i] \in Elements(s)
    BY <1>1 DEF Elements
  <2>2. CASE j \in DOMAIN s
    BY <1>1, <2>1, <2>2 DEF InOrder
  <2>3. CASE j \notin DOMAIN s
    <3>1. Append(s, f)[j] = f
      BY <1>1, <2>3
    <3> QED BY <2>1, <3>1 DEF AllBefore
  <2> QED BY <2>2, <2>3
<1>3. Elements(Append(s, f)) \subseteq Elements(s) \cup {f}
  BY <1>1 DEF Elements
<1>4. Elements(s) \subseteq Elements(Append(s, f))
  BY <1>1 DEF Elements
<1>5. f \in Elements(Append(s, f))
  BY <1>1 DEF Elements
<1> QED BY <1>2, <1>3, <1>4, <1>5

LEMMA Shrink ==
    ASSUME NEW s \in Seq(Frames), Len(s) # 0, InOrder(s)
    PROVE  InOrder(Tail(s)) /\ Elements(s) = {Head(s)} \cup Elements(Tail(s))
<1>1. /\ Len(s) \in Nat \ {0} /\ DOMAIN s = 1..Len(s) /\ DOMAIN Tail(s) = 1..(Len(s) - 1)
      /\ Head(s) = s[1] /\ \A i \in 1..(Len(s) - 1) : Tail(s)[i] = s[i + 1]
  OBVIOUS
<1>2. InOrder(Tail(s))
  BY <1>1 DEF InOrder
<1>3. Elements(Tail(s)) \subseteq Elements(s)
  BY <1>1 DEF Elements
<1>4. Head(s) \in Elements(s)
  BY <1>1 DEF Elements
<1>5. ASSUME NEW i \in DOMAIN s PROVE s[i] \in {Head(s)} \cup Elements(Tail(s))
  <2>1. CASE i = 1
    BY <1>1, <2>1
  <2>2. CASE i # 1
    <3>1. i - 1 \in DOMAIN Tail(s) /\ Tail(s)[i - 1] = s[i]
      BY <1>1, <2>2
    <3> QED BY <3>1 DEF Elements
  <2> QED BY <2>1, <2>2
<1>6. Elements(s) \subseteq {Head(s)} \cup Elements(Tail(s))
  BY <1>5 DEF Elements
<1> QED BY <1>2, <1>3, <1>4, <1>6

LEMMA ElementsType == ASSUME NEW s \in Seq(Frames) PROVE Elements(s) \subseteq Frames
  BY DEF Elements

\* The number of the next frame grows, up to the one that stands for many.
LEMMA NextLater ==
    ASSUME NEW S \in SUBSET Frames, NEW m \in Frames, NEW n,
           n = (IF m <= MaxFrame THEN m + 1 ELSE m), AllBefore(S, {m})
    PROVE  AllBefore(S \cup {m}, {n})
<1>1. \A f \in S : Before(f, n)
  BY Constants DEF AllBefore, Before, Frames
<1>2. Before(m, n)
  BY Constants DEF Before, Frames
<1> QED BY <1>1, <1>2 DEF AllBefore

LEMMA InitAccounted == Init => Accounted
<1> SUFFICES ASSUME Init PROVE Accounted
  OBVIOUS
<1>1. shown = <<>> /\ fifo = <<>> /\ Held = <<>> /\ next = 1
  BY DEF Init, Held
<1>2. InOrder(<<>>) /\ Elements(<<>>) = {} /\ <<>> \in Seq(Frames)
  BY DEF InOrder, Elements
<1> QED BY <1>1, <1>2, Constants DEF Accounted, AllBefore

LEMMA SampleAccounted == ASSUME IInv, Accounted, Sample PROVE Accounted'
<1> DEFINE full == Len(fifo) = Depth(client.sel)
           kept == IF full THEN Tail(fifo) ELSE fifo
           S == Elements(shown)
           H == Elements(Held)
<1>1. /\ fifo \in Seq(Frames) /\ next \in Frames /\ Held \in Seq(Frames)
      /\ S \subseteq Frames /\ H \subseteq Frames /\ Elements(fifo) \subseteq Frames
      /\ Depth(client.sel) # 0 /\ shown \in Seq(Frames)
  BY HeldType, ElementsType, Sels, FrameArithmetic DEF IInv, Accounted
<1>2. /\ fifo' = Append(kept, next) /\ shown' = shown /\ Held' = Held
      /\ dropped' = IF full THEN dropped \cup {Head(fifo)} ELSE dropped
      /\ next' = IF next <= MaxFrame THEN next + 1 ELSE next
  BY DEF Sample, Held
<1>3. /\ kept \in Seq(Frames) /\ InOrder(kept) /\ Elements(kept) \subseteq Elements(fifo)
      /\ Elements(fifo) \subseteq Elements(kept) \cup dropped'
  <2>1. CASE full
    <3>1. InOrder(Tail(fifo)) /\ Elements(fifo) = {Head(fifo)} \cup Elements(Tail(fifo))
      BY <1>1, <2>1, Shrink DEF Accounted
    <3>2. Tail(fifo) \in Seq(Frames)
      BY <1>1, <2>1
    <3> QED BY <1>2, <2>1, <3>1, <3>2
  <2>2. CASE ~full
    BY <1>1, <2>2 DEF Accounted
  <2> QED BY <2>1, <2>2
<1> HIDE DEF kept, full
<1>4. AllBefore(Elements(kept), {next})
  BY <1>3 DEF Accounted, AllBefore
<1>5. InOrder(fifo') /\ Elements(fifo') = Elements(kept) \cup {next}
  BY <1>1, <1>2, <1>3, <1>4, Grow
<1>6. /\ AllBefore(S, H \cup Elements(kept) \cup {next})
      /\ AllBefore(H, Elements(kept) \cup {next})
  BY <1>3 DEF Accounted, AllBefore
<1>7. AllBefore(S \cup H \cup Elements(kept) \cup {next}, {next'})
  <2>1. S \cup H \cup Elements(kept) \in SUBSET Frames
    BY <1>1, <1>3
  <2>2. AllBefore(S \cup H \cup Elements(kept), {next})
    BY <1>4, <1>6 DEF AllBefore
  <2> QED BY <1>1, <1>2, <2>1, <2>2, NextLater
<1>8. dropped \subseteq dropped'
  BY <1>2
<1>9. ASSUME NEW f \in 1..MaxFrame, f < next'
      PROVE  f \in S \cup dropped' \cup H \cup Elements(fifo')
  <2>1. f < next \/ f = next
    BY <1>1, <1>2, <1>9, Constants DEF Frames
  <2> QED BY <1>3, <1>5, <1>8, <2>1 DEF Accounted
<1>10. Elements(shown') = S /\ Elements(Held') = H /\ InOrder(shown') /\ InOrder(Held')
  BY <1>2 DEF Accounted
<1>11. /\ AllBefore(S, H \cup Elements(fifo') \cup {next'})
       /\ AllBefore(H, Elements(fifo') \cup {next'})
       /\ AllBefore(Elements(fifo'), {next'})
  BY <1>5, <1>6, <1>7 DEF AllBefore
<1> QED BY <1>1, <1>2, <1>5, <1>9, <1>10, <1>11 DEF Accounted

LEMMA NothingHeld == ASSUME pc \notin {"extract", "lost"} PROVE Held = <<>> /\ Elements(Held) = {}
  BY DEF Held, Elements

LEMMA QuietAccounted ==
    ASSUME Accounted, UNCHANGED <<shown, dropped, fifo, next>>, Held' = Held PROVE Accounted'
<1>1. InOrder(shown') /\ InOrder(Held') /\ InOrder(fifo') /\ shown' \in Seq(Frames)
  BY DEF Accounted
<1>2. /\ AllBefore(Elements(shown'), Elements(Held') \cup Elements(fifo') \cup {next'})
      /\ AllBefore(Elements(Held'), Elements(fifo') \cup {next'})
      /\ AllBefore(Elements(fifo'), {next'})
  BY DEF Accounted
<1>3. \A f \in 1..MaxFrame : f < next' =>
          f \in Elements(shown') \cup dropped' \cup Elements(Held') \cup Elements(fifo')
  BY DEF Accounted
<1> QED BY <1>1, <1>2, <1>3 DEF Accounted

\* The burst moves the oldest frames to the client.
LEMMA ReadDataAccounted == ASSUME IInv, Accounted, ReadData PROVE Accounted'
<1>1. fifo \in Seq(Frames) /\ InOrder(fifo)
  BY DEF IInv, Accounted
<1>2. Elements(Held) = {} /\ Held' = data' /\ UNCHANGED <<shown, next, dropped>>
  BY NothingHeld DEF ReadData, Held
<1>3. /\ InOrder(data') /\ InOrder(fifo') /\ AllBefore(Elements(data'), Elements(fifo'))
      /\ Elements(fifo) = Elements(data') \cup Elements(fifo')
  <2>1. /\ count \in 0..Len(fifo) /\ data' = [i \in 1..count |-> fifo[i]]
        /\ fifo' = SubSeq(fifo, count + 1, Len(fifo))
    BY ReadDataSplits
  <2>2. data' = SubSeq(fifo, 1, count)
    BY <1>1, <2>1, Cut
  <2> QED BY <1>1, <2>1, <2>2, Cut
<1>4. /\ AllBefore(Elements(shown), Elements(data') \cup Elements(fifo') \cup {next})
      /\ AllBefore(Elements(data'), Elements(fifo') \cup {next})
      /\ AllBefore(Elements(fifo'), {next})
  BY <1>3 DEF Accounted, AllBefore
<1>5. \A f \in 1..MaxFrame : f < next =>
          f \in Elements(shown) \cup dropped \cup Elements(data') \cup Elements(fifo')
  BY <1>2, <1>3 DEF Accounted
<1> QED BY <1>2, <1>3, <1>4, <1>5 DEF Accounted

\* A read that fails loses the frames it took.
LEMMA ReadFailsAccounted == ASSUME IInv, Accounted, ReadFails PROVE Accounted'
<1>1. fifo \in Seq(Frames) /\ InOrder(fifo) /\ Len(fifo) \in Nat
  BY DEF IInv, Accounted
<1>2. Elements(Held) = {} /\ Held' = <<>> /\ Elements(Held') = {} /\ UNCHANGED <<shown, next>>
  BY NothingHeld DEF ReadFails, Held, Elements
<1>3. PICK n \in 0..Len(fifo) : /\ fifo' = SubSeq(fifo, n + 1, Len(fifo))
                                /\ dropped' = dropped \cup Elements(SubSeq(fifo, 1, n))
  BY <1>1 DEF ReadFails
<1>4. n \in 0..Len(fifo)
  BY <1>3
<1>5. InOrder(fifo') /\ Elements(fifo) = Elements(SubSeq(fifo, 1, n)) \cup Elements(fifo')
  BY <1>1, <1>3, <1>4, Cut
<1>6. /\ AllBefore(Elements(shown), Elements(fifo') \cup {next})
      /\ AllBefore(Elements(fifo'), {next})
  BY <1>5 DEF Accounted, AllBefore
<1>7. \A f \in 1..MaxFrame : f < next => f \in Elements(shown) \cup dropped' \cup Elements(fifo')
  BY <1>2, <1>3, <1>5 DEF Accounted
<1>8. InOrder(Held') /\ InOrder(shown) /\ shown \in Seq(Frames)
  BY <1>2 DEF Accounted, InOrder
<1> QED BY <1>2, <1>5, <1>6, <1>7, <1>8 DEF Accounted, AllBefore

\* The batch joins what was printed.
LEMMA ExtractAccounted == ASSUME IInv, Accounted, Extract PROVE Accounted'
<1>1. /\ data \in Seq(Frames) /\ Len(data) = count /\ Held = data /\ shown \in Seq(Frames)
      /\ InOrder(shown) /\ InOrder(data) /\ AllBefore(Elements(shown), Elements(data))
  BY DEF IInv, Accounted, Extract, Held, AllBefore
<1>2. Held' = <<>> /\ Elements(Held') = {} /\ InOrder(Held') /\ UNCHANGED <<next, fifo>>
  BY DEF Extract, Held, Elements, InOrder
<1>3. shown' = shown \o data /\ dropped' = dropped
  <2>1. rslt' = "OK" /\ samples' = data
    BY <1>1, NoMarkers DEF Extract
  <2>2. SubSeq(data, 1, count) = data
    BY <1>1
  <2> QED BY <2>1, <2>2 DEF Extract
<1>4. /\ shown' \in Seq(Frames) /\ InOrder(shown')
      /\ Elements(shown') = Elements(shown) \cup Elements(data)
  BY <1>1, <1>3, Join
<1>5. /\ AllBefore(Elements(shown'), Elements(fifo) \cup {next})
      /\ AllBefore(Elements(fifo), {next}) /\ InOrder(fifo)
  BY <1>1, <1>4 DEF Accounted, AllBefore
<1>6. \A f \in 1..MaxFrame : f < next => f \in Elements(shown') \cup dropped' \cup Elements(fifo)
  BY <1>1, <1>3, <1>4 DEF Accounted
<1> QED BY <1>2, <1>4, <1>5, <1>6 DEF Accounted, AllBefore

LEMMA StepAccounted == ASSUME IInv, Accounted, [Next]_vars PROVE Accounted'
<1>1. CASE Poll \/ PollFails \/ ReadCount \/ Overrun \/ UNCHANGED vars
  <2>1. Held' = Held /\ UNCHANGED <<shown, dropped, fifo, next>>
    BY <1>1 DEF Poll, PollFails, ReadCount, Overrun, vars, Held
  <2> QED BY <2>1, QuietAccounted
<1> QED BY <1>1, SampleAccounted, ReadDataAccounted, ReadFailsAccounted, ExtractAccounted
        DEF Next, Client

\* For a FIFO of any size, an array of any size and any number of frames,
\* faults and iterations: what is printed, until the array is overrun, is in the order measured, none twice, and every frame up
\* to the last one printed was printed, overwritten in the sensor, or lost to
\* a read that failed.
THEOREM EveryFrameAccounted == Spec => []FramesAccountedFor
<1>1. Init => IInv /\ Accounted
  BY InitInv, InitAccounted
<1>2. IInv /\ Accounted /\ [Next]_vars => (IInv /\ Accounted)'
  BY StepInv, StepAccounted
<1>3. IInv /\ Accounted => FramesAccountedFor
  <2> SUFFICES ASSUME IInv, Accounted, Len(shown) > 0, shown[Len(shown)] <= MaxFrame
               PROVE  /\ \A i, j \in 1..Len(shown) : i < j => shown[i] < shown[j]
                      /\ \A f \in 1..shown[Len(shown)] : f \in Elements(shown) \/ f \in dropped
    BY DEF FramesAccountedFor
  <2> DEFINE last == Len(shown)
  <2>1. /\ last \in Nat /\ last \in DOMAIN shown /\ DOMAIN shown = 1..last
        /\ \A i \in DOMAIN shown : shown[i] \in Frames
        /\ shown[last] \in Elements(shown)
    BY DEF Accounted, Elements
  <2>2. \A i \in DOMAIN shown : i < last => shown[i] < shown[last]
    BY <2>1, Constants DEF Accounted, InOrder, Before, Frames
  <2>3. \A i \in DOMAIN shown : shown[i] # MaxFrame + 1
    BY <2>1, <2>2, Constants DEF Frames
  <2>4. \A i, j \in 1..last : i < j => shown[i] < shown[j]
    BY <2>1, <2>3 DEF Accounted, InOrder, Before
  <2>5. ASSUME NEW f \in 1..shown[last]
        PROVE  f \in Elements(shown) \/ f \in dropped
    <3>1. f \in 1..MaxFrame /\ f <= shown[last] /\ shown[last] \in Int
      BY <2>1, Constants DEF Frames
    <3>2. Before(shown[last], next) /\ next \in Frames
      BY <2>1 DEF Accounted, AllBefore, IInv
    <3>3. f < next
      BY <2>1, <3>1, <3>2, Constants DEF Before, Frames
    <3>4. f \notin Elements(Held) /\ f \notin Elements(fifo)
      <4>1. ASSUME f \in Elements(Held) \cup Elements(fifo) PROVE FALSE
        <5>1. Before(shown[last], f)
          BY <2>1, <4>1 DEF Accounted, AllBefore
        <5> QED BY <3>1, <5>1, Constants DEF Before
      <4> QED BY <4>1
    <3> QED BY <3>1, <3>3, <3>4 DEF Accounted
  <2> QED BY <2>4, <2>5
<1> QED BY <1>1, <1>2, <1>3, PTL DEF Spec
=============================================================================
