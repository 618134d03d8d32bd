------------------------------ MODULE Bmp5Fifo ------------------------------
(***************************************************************************)
(* The sensor fills its FIFO while a client polls the interrupt status,    *)
(* reads the frames with bmp5_get_fifo_data and unpacks them with          *)
(* bmp5_extract_fifo_data: the three fifo_full_interrupt examples and      *)
(* fifo_threshold_interrupt, which differ in the kind of frames they       *)
(* store, the interrupt they wait for, the array they unpack into and      *)
(* whether a failed read counts as an iteration. A frame is its number, -1 *)
(* is one of empty markers.                                                *)
(***************************************************************************)
EXTENDS Integers, Sequences

CONSTANTS
    Clients,      \* records of the type ClientType
    MemoryBytes,  \* size of the FIFO, and BMP5_FIFO_DATA_USER_LENGTH
    Threshold,    \* THRESHOLD_LEVEL
    Loops,        \* LOOP_COUNT
    MaxFrame,     \* bound: frames told apart
    MaxFaults     \* bound: bus failures

\* sel: 1 temperature, 2 pressure, 3 both. room: entries of sensor_data.
ClientType == [sel : 1..3, wait : {"full", "thres"}, countsFailed : BOOLEAN, room : Nat]

ASSUME FifoAssumption ==
    /\ Clients \subseteq ClientType
    /\ MemoryBytes \in Nat /\ MemoryBytes >= 6 /\ Threshold \in Nat \ {0} /\ Loops \in Nat
    /\ MaxFrame \in Nat /\ MaxFaults \in Nat

VARIABLES
    client,   \* the example that runs
    next,     \* number of the next frame
    fifo,     \* frames in the sensor
    status,   \* interrupt status register
    pc, loop, count, length, data, samples, rslt,  \* the client's variables; pc is
              \* "lost" once it wrote past sensor_data
    shown,    \* history: samples printed
    dropped,  \* history: frames overwritten, or read from the sensor in vain
    faults

vars == <<client, next, fifo, status, pc, loop, count, length, data, samples, rslt,
          shown, dropped, faults>>

FrameBytes(sel) == IF sel = 3 THEN 6 ELSE 3
Depth(sel) == MemoryBytes \div FrameBytes(sel)

Init ==
    /\ client \in Clients
    /\ next = 1 /\ fifo = <<>> /\ status = {}
    /\ pc = "poll" /\ loop = 0 /\ count = 0 /\ length = 0
    /\ data = <<>> /\ samples = <<>> /\ rslt = "OK"
    /\ shown = <<>> /\ dropped = {} /\ faults = 0

Elements(s) == {s[i] : i \in DOMAIN s}

\* Streaming mode: the oldest frame makes room for the newest.
Sample ==
    LET full == Len(fifo) = Depth(client.sel)
        kept == IF full THEN Tail(fifo) ELSE fifo
    IN /\ fifo' = Append(kept, next)
       /\ dropped' = IF full THEN dropped \cup {Head(fifo)} ELSE dropped
       /\ status' = status \cup (IF Len(fifo') = Depth(client.sel) THEN {"full"} ELSE {})
                           \cup (IF Len(fifo') >= Threshold THEN {"thres"} ELSE {})
       /\ next' = IF next <= MaxFrame THEN next + 1 ELSE next
       /\ UNCHANGED <<client, pc, loop, count, length, data, samples, rslt, shown, faults>>

\* Mutant: the status is looked at after reading it cleared it.
PollTooLate ==
    /\ pc = "poll" /\ loop < Loops
    /\ status' = {}
    /\ pc' = IF client.wait \in status' THEN "count" ELSE "poll"
    /\ UNCHANGED <<client, next, fifo, loop, count, length, data, samples, rslt,
                   shown, dropped, faults>>

\* bmp5_get_interrupt_status clears the status.
Poll ==
    /\ pc = "poll" /\ loop < Loops
    /\ status' = {}
    /\ pc' = IF client.wait \in status THEN "count" ELSE "poll"
    /\ UNCHANGED <<client, next, fifo, loop, count, length, data, samples, rslt,
                   shown, dropped, faults>>

\* The result is printed, and int_status looked at whatever it holds.
PollFails ==
    /\ pc = "poll" /\ loop < Loops
    /\ faults < MaxFaults /\ faults' = faults + 1
    /\ status' \in {status, {}}
    /\ pc' \in {"poll", "count"}
    /\ UNCHANGED <<client, next, fifo, loop, count, length, data, samples, rslt,
                   shown, dropped>>

\* Mutant: the frames are counted as if each held both values, the length
\* is not cut.
ReadCountOfBoth ==
    /\ pc = "count"
    /\ count' = Len(fifo)
    /\ length' = 6 * count'
    /\ pc' = "data"
    /\ UNCHANGED <<client, next, fifo, status, loop, data, samples, rslt, shown, dropped, faults>>

\* bmp5_get_fifo_len, and the length cut to what is there.
ReadCount ==
    LET available == count' * FrameBytes(client.sel)
    IN /\ pc = "count"
       /\ count' = Len(fifo)
       /\ length' = IF available < MemoryBytes THEN available ELSE MemoryBytes
       /\ pc' = "data"
       /\ UNCHANGED <<client, next, fifo, status, loop, data, samples, rslt, shown,
                      dropped, faults>>

\* One burst takes whole frames off the FIFO, empty markers when there are
\* none left.
Burst(n) == [i \in 1..n |-> IF i <= Len(fifo) THEN fifo[i] ELSE -1]

ReadData ==
    LET n == length \div FrameBytes(client.sel)
        got == IF n < Len(fifo) THEN n ELSE Len(fifo)
    IN /\ pc = "data"
       /\ data' = Burst(n)
       /\ fifo' = SubSeq(fifo, got + 1, Len(fifo))
       /\ pc' = "extract"
       /\ UNCHANGED <<client, next, status, loop, count, length, samples, rslt, shown,
                      dropped, faults>>

\* The count or the burst fails; frames the burst took are gone.
ReadFails ==
    /\ pc \in {"count", "data"}
    /\ faults < MaxFaults /\ faults' = faults + 1
    /\ \E n \in 0..(IF pc = "data" THEN Len(fifo) ELSE 0) :
        /\ fifo' = SubSeq(fifo, n + 1, Len(fifo))
        /\ dropped' = dropped \cup Elements(SubSeq(fifo, 1, n))
    /\ loop' = IF client.countsFailed THEN loop + 1 ELSE loop
    /\ pc' = "poll"
    /\ UNCHANGED <<client, next, status, count, length, data, samples, rslt, shown>>

\* unpack_sensor_data frame by frame, up to the first of empty markers.
Unpacked(frames) ==
    LET empty == {i \in DOMAIN frames : frames[i] = -1}
    IN IF empty = {} THEN [samples |-> frames, rslt |-> "OK"]
       ELSE [samples |-> SubSeq(frames, 1, (CHOOSE i \in empty : \A j \in empty : i <= j) - 1),
             rslt |-> "FIFO_FRAME_EMPTY"]

\* Mutant: the printing begins with the second sample.
ExtractFromOne ==
    /\ pc = "extract" /\ Len(Unpacked(data).samples) <= client.room
    /\ samples' = Unpacked(data).samples
    /\ rslt' = Unpacked(data).rslt
    /\ shown' = shown \o SubSeq(samples', 2, count)
    /\ loop' = loop + 1
    /\ pc' = "poll"
    /\ UNCHANGED <<client, next, fifo, status, count, length, data, dropped, faults>>

\* bmp5_extract_fifo_data and the printing of `count' samples.
Extract ==
    /\ pc = "extract" /\ Len(Unpacked(data).samples) <= client.room
    /\ samples' = Unpacked(data).samples
    /\ rslt' = Unpacked(data).rslt
    /\ IF rslt' = "OK"
       THEN shown' = shown \o SubSeq(samples', 1, count) /\ UNCHANGED dropped
       ELSE dropped' = dropped \cup Elements(data) /\ UNCHANGED shown
    /\ loop' = loop + 1
    /\ pc' = "poll"
    /\ UNCHANGED <<client, next, fifo, status, count, length, data, faults>>

\* bmp5_extract_fifo_data is not told the size of sensor_data: it writes past
\* its end, and what the client does from then on is not defined.
Overrun ==
    /\ pc = "extract" /\ Len(Unpacked(data).samples) > client.room
    /\ pc' = "lost"
    /\ UNCHANGED <<client, next, fifo, status, loop, count, length, data, samples, rslt,
                   shown, dropped, faults>>

Client == Poll \/ PollFails \/ ReadCount \/ ReadData \/ ReadFails \/ Extract \/ Overrun
Next == Sample \/ Client

\* The sensor measures in normal mode and the client's loop runs.
Spec == Init /\ [][Next]_vars /\ WF_vars(Sample)
             /\ WF_vars(Poll) /\ WF_vars(ReadCount) /\ WF_vars(ReadData)
             /\ WF_vars(Extract) /\ WF_vars(Overrun)

-----------------------------------------------------------------------------
\* Type invariant.
TypeOK ==
    /\ client \in Clients
    /\ next \in 1..(MaxFrame + 1)
    /\ Len(fifo) <= Depth(client.sel) /\ Elements(fifo) \subseteq 1..(MaxFrame + 1)
    /\ status \subseteq {"full", "thres"}
    /\ pc \in {"poll", "count", "data", "extract", "lost"}
    /\ loop \in 0..Loops /\ length \in 0..MemoryBytes
    /\ rslt \in {"OK", "FIFO_FRAME_EMPTY"}
    /\ faults \in 0..MaxFaults

\* What is printed, until the client overruns its array, are frames in the
\* order measured, none twice, and every frame not printed was overwritten in
\* the sensor or taken from it by a read that failed, while the sensor goes on
\* between the count and the burst.
FramesAccountedFor ==
    LET last == Len(shown)
    IN (last > 0 /\ shown[last] <= MaxFrame) =>
        /\ \A i, j \in 1..last : i < j => shown[i] < shown[j]
        /\ \A f \in 1..shown[last] : f \in Elements(shown) \/ f \in dropped

\* A batch is unpacked whole, although the sensor adds and overwrites frames
\* between the count and the burst: it never ends at an empty marker, for
\* which nothing of the batch would be printed, and it is longer than the
\* array only of a client whose array is smaller than a full FIFO, as that of
\* fifo_threshold_interrupt is.
BatchesAreWhole ==
    [][pc = "extract" /\ pc' # "extract" =>
         \/ pc' = "poll" /\ rslt' = "OK" /\ Len(samples') = count
         \/ pc' = "lost" /\ client.room < count /\ client.room < Depth(client.sel)]_vars

\* The client ends its loop, unless it overruns its array, although a failed
\* poll may have cleared the interrupt it waited for: the next frame raises it
\* again.
ClientFinishes == <>[](loop = Loops \/ pc = "lost")
=============================================================================
