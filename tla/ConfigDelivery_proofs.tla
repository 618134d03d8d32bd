----------------------- MODULE ConfigDelivery_proofs -----------------------
(***************************************************************************)
(* Proofs about ConfigDelivery for every value of its constants.           *)
(***************************************************************************)
EXTENDS ConfigDelivery, TLAPS

\* A byte that is neither junk nor erased belongs to a message the broker
\* began to deliver and that is within the limit.
CellOK(c) == c \in Cells => c[1] \in DOMAIN sent /\ sent[c[1]] <= MaxPayload

\* The message being delivered is the newest one, and part of it is missing.
IncomingInv ==
    Receiving =>
        /\ incoming.id = Len(sent)
        /\ incoming.id \in DOMAIN sent
        /\ 0 < incoming.off
        /\ incoming.off < sent[incoming.id]

\* While a message is being reassembled the buffer holds exactly what was
\* delivered of it.
ReassemblyInv ==
    (Receiving /\ total # 0) =>
        /\ total = sent[incoming.id]
        /\ buf.size = incoming.off
        /\ \A i \in 1..MaxPayload : i <= buf.size => buf.mem[i] = <<incoming.id, i>>

\* The event about to be posted refers to the current storage, which holds
\* the newest message.
PostInv ==
    mqtt.pc = "post" =>
        /\ ~Receiving
        /\ mqtt.ev.block = buf.block
        /\ mqtt.ev.of = Len(sent)
        /\ mqtt.ev.of \in DOMAIN sent
        /\ mqtt.ev.size = sent[mqtt.ev.of]
        /\ mqtt.ev.size <= MaxPayload
        /\ \A i \in 1..MaxPayload :
               i <= mqtt.ev.size => buf.mem[i] = <<mqtt.ev.of, i>>

BytesInv ==
    /\ \A i \in 1..MaxPayload : CellOK(buf.mem[i])
    /\ \A i \in 1..PartitionSize : CellOK(flash[i])

EventsInv ==
    /\ \A i \in 1..Len(queue) : queue[i].size <= MaxPayload
    /\ loop.pc # "wait" => loop.ev.size <= MaxPayload

IInv ==
    /\ TypeOK
    /\ IncomingInv
    /\ ReassemblyInv
    /\ PostInv
    /\ BytesInv
    /\ EventsInv

\* The event refers to the whole of the newest message.
Newest(ev) ==
    /\ ev.of = Len(sent)
    /\ ev.of \in DOMAIN sent
    /\ ev.size = sent[ev.of]
    /\ ev.size <= MaxPayload
    /\ ev.block = buf.block
    /\ \A i \in 1..MaxPayload : i <= ev.size => buf.mem[i] = <<ev.of, i>>

\* With a server that waits, one event at most is on its way and nothing
\* touches the buffer meanwhile.
PacedInv ==
    /\ ~PipelineIdle => ~Receiving
    /\ mqtt.pc = "post" => queue = <<>> /\ loop.pc = "wait"
    /\ queue # <<>> => Len(queue) = 1 /\ loop.pc = "wait" /\ Newest(queue[1])
    /\ loop.pc # "wait" => queue = <<>> /\ Newest(loop.ev)
    /\ loop.pc = "write" => flash = Blank

-----------------------------------------------------------------------------
(***************************************************************************)
(* What the operators on the buffer return.                                *)
(***************************************************************************)
Chunks == [id : Nat, offset : Nat, total : Nat, len : Nat,
           topic : {"/client/configuration", ""}]

\* vector::clear keeps the storage and forgets the bytes.
LEMMA ClearedFacts ==
    ASSUME NEW b \in Buffers
    PROVE  /\ Cleared(b) \in Buffers
           /\ Cleared(b).size = 0
           /\ Cleared(b).mem = b.mem
  BY SizeAssumption DEF Cleared, Buffers

\* vector::reserve on an empty vector keeps the bytes or replaces the storage.
LEMMA ReservedFacts ==
    ASSUME NEW b \in Buffers, b.size = 0, NEW n \in 0..MaxPayload
    PROVE  /\ Reserved(b, n) \in Buffers
           /\ Reserved(b, n).size = 0
           /\ \A i \in 1..MaxPayload : Reserved(b, n).mem[i] \in {b.mem[i], Junk}
  BY SizeAssumption DEF Reserved, Buffers

\* A chunk appended where the buffer ends extends the message by its bytes and
\* leaves the bytes before it alone.
LEMMA InsertedFacts ==
    ASSUME NEW b \in Buffers, NEW c \in Chunks,
           b.size = c.offset, b.size + c.len <= MaxPayload
    PROVE  /\ Inserted(b, c) \in Buffers
           /\ Inserted(b, c).size = c.offset + c.len
           /\ Inserted(b, c).block = b.block
           /\ \A i \in 1..MaxPayload :
                 Inserted(b, c).mem[i] =
                    IF b.size < i /\ i <= b.size + c.len
                    THEN <<c.id, i>> ELSE b.mem[i]
<1> DEFINE m == [i \in 1..MaxPayload |->
                   IF b.size < i /\ i <= b.size + c.len
                   THEN <<c.id, c.offset + (i - b.size)>> ELSE b.mem[i]]
<1>1. /\ b = [block |-> b.block, cap |-> b.cap, size |-> b.size, mem |-> b.mem]
      /\ b.block \in Nat /\ b.cap \in 0..MaxPayload
      /\ b.mem \in [1..MaxPayload -> Cells \cup {Junk}]
  BY DEF Buffers
<1>2. c.id \in Nat /\ c.offset \in Nat /\ c.len \in Nat
  BY DEF Chunks
<1>3. Inserted(b, c) = [block |-> b.block, cap |-> b.cap,
                        size |-> b.size + c.len, mem |-> m]
  BY DEF Inserted
<1>4. \A i \in 1..MaxPayload :
        m[i] = IF b.size < i /\ i <= b.size + c.len
               THEN <<c.id, i>> ELSE b.mem[i]
  BY <1>2
<1>5. \A i \in 1..MaxPayload : m[i] \in Cells \cup {Junk}
  <2>1. \A i \in 1..MaxPayload : <<c.id, i>> \in Cells
    BY <1>2 DEF Cells
  <2> QED BY <1>1, <1>4, <2>1
<1>6. m \in [1..MaxPayload -> Cells \cup {Junk}]
  BY <1>5
<1> HIDE DEF m
<1>7. b.size + c.len \in 0..MaxPayload
  BY <1>2, SizeAssumption
<1>8. Inserted(b, c) \in Buffers
  BY <1>1, <1>3, <1>6, <1>7 DEF Buffers
<1> QED BY <1>3, <1>4, <1>8

\* The conversion to uint16_t does not change the size of a message within the
\* limit.
LEMMA Uint16Small ==
    ASSUME NEW n \in 0..MaxPayload
    PROVE  Uint16(n) = n
  BY SizeAssumption DEF Uint16

\* Reading through an event's pointer yields buffer bytes or junk.
LEMMA WrittenFacts ==
    ASSUME TypeOK, BytesInv, NEW ev \in EventData, ev.size <= MaxPayload,
           NEW n \in 0..ev.size
    PROVE  /\ Written(ev, n) \in [1..PartitionSize -> Cells \cup {Junk, Erased}]
           /\ \A i \in 1..PartitionSize : CellOK(Written(ev, n)[i])
<1>1. \A i \in 1..PartitionSize : i <= n => i \in 1..MaxPayload
  BY SizeAssumption DEF EventData
<1>2. \A i \in 1..MaxPayload : Pointee(ev)[i] \in {buf.mem[i], Junk}
  BY DEF Pointee
<1>3. \A i \in 1..PartitionSize :
        Written(ev, n)[i] = IF i <= n THEN Pointee(ev)[i] ELSE flash[i]
  BY DEF Written
<1>4. CellOK(Junk)
  BY ByteAssumption DEF CellOK, Cells
<1>5. \A i \in 1..MaxPayload : CellOK(Pointee(ev)[i])
  BY <1>2, <1>4 DEF BytesInv
<1>6. \A i \in 1..PartitionSize : CellOK(Written(ev, n)[i])
  BY <1>1, <1>3, <1>5 DEF BytesInv
<1>7. Written(ev, n) \in [1..PartitionSize -> Cells \cup {Junk, Erased}]
  BY <1>1, <1>2 DEF Written, TypeOK, Buffers
<1> QED BY <1>6, <1>7

-----------------------------------------------------------------------------
\* The inductive invariant holds when the controller starts.
LEMMA InitIInv == Init => IInv
<1> SUFFICES ASSUME Init PROVE IInv
  OBVIOUS
<1> USE SizeAssumption DEF Init
<1>1. TypeOK
  BY DEF TypeOK, EmptyBuffer, Buffers, NoMessage, NoEvent, EventData
<1>2. BytesInv
  BY ByteAssumption DEF BytesInv, CellOK, EmptyBuffer, Cells
<1>3. IncomingInv /\ ReassemblyInv /\ PostInv /\ EventsInv
  BY DEF IncomingInv, ReassemblyInv, PostInv, EventsInv, Receiving
<1> QED BY <1>1, <1>2, <1>3 DEF IInv

-----------------------------------------------------------------------------
\* Delivering another message keeps what is known of the earlier ones.
LEMMA AppendSent ==
    ASSUME sent \in Seq(Nat), NEW n \in Nat, sent' = Append(sent, n)
    PROVE  /\ sent' \in Seq(Nat)
           /\ Len(sent') = Len(sent) + 1
           /\ DOMAIN sent' = 1..(Len(sent) + 1)
           /\ sent'[Len(sent) + 1] = n
           /\ \A m \in DOMAIN sent : m \in DOMAIN sent' /\ sent'[m] = sent[m]
           /\ \A c : CellOK(c) => CellOK(c)'
<1>1. /\ sent' \in Seq(Nat)
      /\ Len(sent') = Len(sent) + 1
      /\ sent'[Len(sent) + 1] = n
      /\ \A m \in 1..Len(sent) : sent'[m] = sent[m]
  OBVIOUS
<1>2. DOMAIN sent = 1..Len(sent) /\ DOMAIN sent' = 1..(Len(sent) + 1)
  BY <1>1
<1>3. \A m \in DOMAIN sent : m \in DOMAIN sent' /\ sent'[m] = sent[m]
  BY <1>1, <1>2
<1>4. \A c : CellOK(c) => CellOK(c)'
  BY <1>3 DEF CellOK
<1> QED BY <1>1, <1>2, <1>3, <1>4

\* The first chunk of a message, with its three outcomes.
LEMMA FirstChunkIInv ==
    ASSUME IInv, NEW n \in 0..MaxLength, NEW k \in 0..MaxChunk, FirstChunk(n, k)
    PROVE  IInv'
<1> DEFINE id == Len(sent) + 1
           chunk == [id |-> id, offset |-> 0, total |-> n, len |-> k,
                     topic |-> "/client/configuration"]
           filled == Inserted(Opened(chunk), chunk)
<1>1. TypeOK
  BY DEF IInv
<1>2. /\ mqtt.pc = "wait" /\ k <= n /\ (n > 0 => k > 0)
      /\ sent' = Append(sent, n)
      /\ incoming' = IF k < n THEN [id |-> id, off |-> k] ELSE NoMessage
      /\ HandleData(chunk)
      /\ UNCHANGED <<session, queue, loop, flash, faults>>
  BY DEF FirstChunk
<1>3. n \in Nat /\ k \in Nat /\ id \in Nat \ {0} /\ sent \in Seq(Nat)
  BY <1>1, SizeAssumption DEF TypeOK
<1>4. /\ sent' \in Seq(Nat)
      /\ Len(sent') = id
      /\ DOMAIN sent' = 1..id
      /\ sent'[id] = n
      /\ \A m \in DOMAIN sent : m \in DOMAIN sent' /\ sent'[m] = sent[m]
      /\ \A c : CellOK(c) => CellOK(c)'
  BY <1>2, <1>3, AppendSent
<1>5. /\ IncomingInv'
      /\ incoming' \in [id : Nat, off : Nat]
  BY <1>2, <1>3, <1>4 DEF IncomingInv, Receiving, NoMessage
<1>6. /\ EventsInv'
      /\ \A i \in 1..PartitionSize : CellOK(flash[i])'
  BY <1>2, <1>4 DEF IInv, EventsInv, BytesInv
<1>7. CASE n > MaxPayload \/ n = 0
  <2>1. Expected(chunk) = 0 /\ Opened(chunk) = Cleared(buf)
    <3>1. Cleared(buf) \in Buffers
      BY <1>1, ClearedFacts DEF TypeOK
    <3>2. ~(0 > Cleared(buf).cap)
      <4>1. Cleared(buf).cap \in 0..MaxPayload
        BY <3>1, Zenon DEF Buffers
      <4> QED BY <4>1, SizeAssumption
    <3>3. Reserved(Cleared(buf), 0) = Cleared(buf)
      BY <3>2 DEF Reserved
    <3>4. chunk.offset = 0 /\ chunk.total = n
      OBVIOUS
    <3>5. CASE n > MaxPayload
      BY <3>4, <3>5 DEF Expected, Opened
    <3>6. CASE n = 0
      BY <3>3, <3>4, <3>6, SizeAssumption DEF Expected, Opened
    <3> QED BY <1>7, <3>5, <3>6
  <2>2. buf' = Cleared(buf) /\ total' = 0 /\ mqtt' = mqtt
    BY <1>2, <2>1 DEF HandleData
  <2>3. buf' \in Buffers /\ buf'.mem = buf.mem
    BY <1>1, <2>2, ClearedFacts DEF TypeOK
  <2>4. \A i \in 1..MaxPayload : CellOK(buf.mem[i])'
    BY <1>4, <2>3 DEF IInv, BytesInv
  <2>5. TypeOK'
    BY <1>1, <1>2, <1>4, <1>5, <2>2, <2>3, SizeAssumption DEF TypeOK
  <2>6. ReassemblyInv' /\ PostInv'
    BY <1>2, <2>2 DEF ReassemblyInv, PostInv
  <2> QED BY <1>5, <1>6, <2>4, <2>5, <2>6 DEF IInv, BytesInv
<1>8. CASE n <= MaxPayload /\ n # 0
  <2>1. /\ Expected(chunk) = n
        /\ Opened(chunk) = Reserved(Cleared(buf), n)
    BY <1>3, <1>8, SizeAssumption DEF Expected, Opened
  <2>2. /\ Opened(chunk) \in Buffers
        /\ Opened(chunk).size = 0
        /\ \A i \in 1..MaxPayload : Opened(chunk).mem[i] \in {buf.mem[i], Junk}
    <3>1. /\ Cleared(buf) \in Buffers
          /\ Cleared(buf).size = 0
          /\ Cleared(buf).mem = buf.mem
      BY <1>1, ClearedFacts DEF TypeOK
    <3>2. n \in 0..MaxPayload
      BY <1>3, <1>8, SizeAssumption
    <3> QED BY <2>1, <3>1, <3>2, ReservedFacts
  <2>3. /\ filled \in Buffers
        /\ filled.size = k
        /\ \A i \in 1..MaxPayload :
              filled.mem[i] = IF i <= k THEN <<id, i>> ELSE Opened(chunk).mem[i]
    <3>1. chunk \in Chunks
      BY <1>3 DEF Chunks
    <3>2. chunk.offset = 0 /\ chunk.len = k /\ chunk.id = id
      OBVIOUS
    <3>3. k <= MaxPayload
      BY <1>2, <1>3, <1>8, SizeAssumption
    <3>4. /\ filled \in Buffers
          /\ filled.size = 0 + k
          /\ \A i \in 1..MaxPayload :
                filled.mem[i] = IF 0 < i /\ i <= 0 + k
                                THEN <<id, i>> ELSE Opened(chunk).mem[i]
      BY <2>2, <3>1, <3>2, <3>3, <1>3, InsertedFacts
    <3> HIDE DEF filled, chunk
    <3> QED BY <3>4, <1>3, SizeAssumption
  <2>4. /\ buf' = filled
        /\ total' = IF k < n THEN n ELSE 0
        /\ mqtt' = IF k < n THEN mqtt
                   ELSE [pc |-> "post", ev |-> [size |-> filled.size,
                           block |-> filled.block, of |-> id]]
    <3>1. /\ TopicMatches(chunk) /\ chunk.id = id
          /\ filled = Inserted(Opened(chunk), chunk)
      BY DEF TopicMatches
    <3> HIDE DEF filled, chunk
    <3>2. filled.size < n <=> k < n
      BY <2>3
    <3> QED BY <1>2, <1>3, <1>8, <2>1, <2>3, <3>1, <3>2 DEF HandleData
  <2> HIDE DEF filled, chunk
  <2>5. \A i \in 1..MaxPayload : CellOK(buf.mem[i])'
    <3>1. \A i \in 1..MaxPayload : CellOK(buf.mem[i]) /\ CellOK(Junk)
      BY ByteAssumption DEF IInv, BytesInv, CellOK, Cells
    <3>2. id \in DOMAIN sent' /\ sent'[id] <= MaxPayload
      BY <1>3, <1>4, <1>8
    <3>3. \A i, c : c = <<id, i>> => CellOK(c)'
      BY <3>2 DEF CellOK
    <3>4. \A i \in 1..MaxPayload : buf'.mem[i] \in {<<id, i>>, buf.mem[i], Junk}
      BY <2>2, <2>3, <2>4
    <3>5. \A i \in 1..MaxPayload :
            \A c \in {<<id, i>>, buf.mem[i], Junk} : CellOK(c)'
      BY <1>4, <3>1, <3>3
    <3> QED BY <3>4, <3>5
  <2>6. filled.block \in Nat /\ filled.size \in Nat
    BY <2>3 DEF Buffers
  <2>7. TypeOK'
    <3>1. total' \in 0..MaxPayload
      BY <1>3, <1>8, <2>4, SizeAssumption
    <3>2. mqtt' \in [pc : {"wait", "post"}, ev : EventData]
      BY <1>1, <1>3, <2>4, <2>6 DEF TypeOK, EventData
    <3> QED BY <1>1, <1>2, <1>4, <1>5, <2>3, <2>4, <3>1, <3>2 DEF TypeOK
  <2>8. ReassemblyInv'
    <3>1. CASE k < n
      <4>1. incoming' = [id |-> id, off |-> k] /\ total' = n
        BY <1>2, <2>4, <3>1
      <4>2. incoming'.id = id /\ incoming'.off = k
        BY <4>1
      <4> HIDE DEF id
      <4> QED BY <1>3, <1>4, <2>3, <2>4, <4>1, <4>2 DEF ReassemblyInv
    <3>2. CASE ~(k < n)
      BY <1>2, <3>2 DEF ReassemblyInv, Receiving
    <3> QED BY <3>1, <3>2
  <2>9. PostInv'
    <3>1. CASE k < n
      BY <1>2, <2>4, <3>1 DEF PostInv
    <3>2. CASE ~(k < n)
      <4>1. /\ mqtt'.ev.block = filled.block
            /\ mqtt'.ev.size = filled.size
            /\ mqtt'.ev.of = id
        BY <2>4, <3>2
      <4>2. k = n
        BY <1>2, <1>3, <3>2
      <4>3. \A i \in 1..MaxPayload : i <= n => buf'.mem[i] = <<id, i>>
        BY <2>3, <2>4, <4>2
      <4>4. id \in DOMAIN sent'
        BY <1>3, <1>4
      <4> HIDE DEF id
      <4>5. ~Receiving'
        BY <1>2, <3>2 DEF Receiving
      <4> QED BY <1>4, <1>8, <2>3, <2>4, <4>1, <4>2, <4>3, <4>4, <4>5 DEF PostInv
    <3> QED BY <3>1, <3>2
  <2> QED BY <1>5, <1>6, <2>5, <2>7, <2>8, <2>9 DEF IInv, BytesInv
<1> QED BY <1>3, <1>7, <1>8, SizeAssumption

\* A further chunk: dropped, appended, or completing the message.
LEMMA LaterChunkIInv ==
    ASSUME IInv, NEW k \in 1..MaxChunk, LaterChunk(k)
    PROVE  IInv'
<1> DEFINE chunk == [id |-> incoming.id, offset |-> incoming.off,
                     total |-> sent[incoming.id], len |-> k, topic |-> ""]
           filled == Inserted(Opened(chunk), chunk)
<1>1. TypeOK
  BY DEF IInv
<1>2. /\ mqtt.pc = "wait" /\ Receiving
      /\ incoming.off + k <= sent[incoming.id]
      /\ incoming' = IF incoming.off + k < sent[incoming.id]
                     THEN [incoming EXCEPT !.off = @ + k] ELSE NoMessage
      /\ session' = session /\ sent' = sent /\ queue' = queue
      /\ loop' = loop /\ flash' = flash /\ faults' = faults
  BY DEF LaterChunk
<1>9. HandleData(chunk)
  BY DEF LaterChunk
<1>3. /\ k \in Nat /\ k > 0
      /\ incoming.id \in DOMAIN sent /\ incoming.id = Len(sent)
      /\ incoming.id \in Nat /\ incoming.off \in Nat
      /\ incoming.off > 0
      /\ sent[incoming.id] \in Nat
  <2>1. k \in Nat /\ k > 0
    BY SizeAssumption
  <2>2. /\ incoming.id \in DOMAIN sent /\ incoming.id = Len(sent)
        /\ incoming.off > 0
    BY <1>2 DEF IInv, IncomingInv
  <2>3. incoming.id \in Nat /\ incoming.off \in Nat /\ sent \in Seq(Nat)
    BY <1>1 DEF TypeOK
  <2> QED BY <2>1, <2>2, <2>3
<1>4. /\ incoming' = IF incoming.off + k < sent[incoming.id]
                     THEN [id |-> incoming.id, off |-> incoming.off + k]
                     ELSE NoMessage
  <2>1. [incoming EXCEPT !.off = incoming.off + k]
           = [id |-> incoming.id, off |-> incoming.off + k]
    BY <1>1, <1>3 DEF TypeOK
  <2> QED BY <1>2, <2>1
<1>5. /\ IncomingInv'
      /\ incoming' \in [id : Nat, off : Nat]
  <2>1. CASE incoming.off + k < sent[incoming.id]
    <3>1. /\ incoming' = [id |-> incoming.id, off |-> incoming.off + k]
          /\ incoming'.id = incoming.id
          /\ incoming'.off = incoming.off + k
      BY <1>4, <2>1
    <3>2. incoming' \in [id : Nat, off : Nat]
      BY <1>3, <3>1
    <3> QED BY <1>2, <1>3, <2>1, <3>1, <3>2 DEF IncomingInv
  <2>2. CASE ~(incoming.off + k < sent[incoming.id])
    BY <1>4, <2>2 DEF IncomingInv, Receiving, NoMessage
  <2> QED BY <2>1, <2>2
<1>6. /\ EventsInv'
      /\ \A i \in 1..PartitionSize : CellOK(flash[i])'
  BY <1>2 DEF IInv, EventsInv, BytesInv, CellOK
<1> HIDE DEF chunk, filled
<1>7. CASE total = 0
  <2>1. Expected(chunk) = 0 /\ Opened(chunk) = buf
    BY <1>3, <1>7 DEF Expected, Opened, chunk
  <2>2. buf' = buf /\ total' = 0 /\ mqtt' = mqtt
    BY <1>9, <2>1 DEF HandleData
  <2>3. TypeOK'
    BY <1>1, <1>2, <1>5, <2>2, SizeAssumption DEF TypeOK
  <2>4. ReassemblyInv' /\ PostInv'
    BY <1>2, <2>2 DEF ReassemblyInv, PostInv
  <2>5. \A i \in 1..MaxPayload : CellOK(buf.mem[i])'
    BY <1>2, <2>2 DEF IInv, BytesInv, CellOK
  <2> QED BY <1>5, <1>6, <2>3, <2>4, <2>5 DEF IInv, BytesInv
<1>8. CASE total # 0
  <2>1. /\ total = sent[incoming.id]
        /\ total \in 0..MaxPayload
        /\ buf \in Buffers
        /\ buf.size = incoming.off
        /\ \A i \in 1..MaxPayload : i <= buf.size => buf.mem[i] = <<incoming.id, i>>
    BY <1>1, <1>2, <1>8 DEF IInv, ReassemblyInv, TypeOK
  <2>2. /\ Expected(chunk) = total /\ Opened(chunk) = buf
    BY <1>3 DEF Expected, Opened, chunk
  <2>3. /\ filled = Inserted(buf, chunk)
        /\ filled \in Buffers
        /\ filled.size = incoming.off + k
        /\ filled.block = buf.block
        /\ \A i \in 1..MaxPayload :
              filled.mem[i] = IF incoming.off < i /\ i <= incoming.off + k
                              THEN <<incoming.id, i>> ELSE buf.mem[i]
    <3>1. chunk \in Chunks
      BY <1>3 DEF Chunks, chunk
    <3>2. /\ chunk.offset = incoming.off /\ chunk.len = k
          /\ chunk.id = incoming.id
      BY DEF chunk
    <3>3. incoming.off + k <= MaxPayload
      BY <1>2, <1>3, <2>1, SizeAssumption
    <3>4. filled = Inserted(buf, chunk)
      BY <2>2 DEF filled
    <3> QED BY <2>1, <3>1, <3>2, <3>3, <3>4, InsertedFacts
  <2>4. \A i \in 1..MaxPayload :
           i <= filled.size => filled.mem[i] = <<incoming.id, i>>
    <3> SUFFICES ASSUME NEW i \in 1..MaxPayload, i <= incoming.off + k
                 PROVE  filled.mem[i] = <<incoming.id, i>>
      BY <2>3
    <3>1. CASE i <= incoming.off
      <4>1. ~(incoming.off < i)
        BY <1>3, <3>1, SizeAssumption
      <4> QED BY <2>1, <2>3, <3>1, <4>1
    <3>2. CASE incoming.off < i
      BY <2>3, <3>2
    <3> QED BY <1>3, <3>1, <3>2, SizeAssumption
  <2>5. /\ buf' = filled
        /\ total' = IF filled.size < total THEN total ELSE 0
        /\ mqtt' = IF filled.size < total THEN mqtt
                   ELSE [pc |-> "post", ev |-> [size |-> filled.size,
                           block |-> filled.block, of |-> incoming.id]]
    <3>1. /\ TopicMatches(chunk) /\ chunk.id = incoming.id
          /\ filled = Inserted(Opened(chunk), chunk)
      BY DEF TopicMatches, chunk, filled
    <3> QED BY <1>9, <1>3, <1>8, <2>1, <2>2, <2>3, <3>1 DEF HandleData
  <2>6. \A i \in 1..MaxPayload : CellOK(buf.mem[i])'
    <3>1. \A i \in 1..MaxPayload : CellOK(buf.mem[i])
      BY DEF IInv, BytesInv
    <3>2. \A i, c : c = <<incoming.id, i>> => CellOK(c)
      BY <1>3, <2>1, SizeAssumption DEF CellOK
    <3>3. \A i \in 1..MaxPayload : buf'.mem[i] \in {<<incoming.id, i>>, buf.mem[i]}
      BY <2>3, <2>5
    <3>4. \A i \in 1..MaxPayload :
            \A c \in {<<incoming.id, i>>, buf.mem[i]} : CellOK(c)
      BY <3>1, <3>2
    <3>5. \A c : CellOK(c) => CellOK(c)'
      BY <1>2 DEF CellOK
    <3> QED BY <3>3, <3>4, <3>5
  <2>7. filled.block \in Nat /\ filled.size \in Nat
    BY <2>3 DEF Buffers
  <2>8. TypeOK'
    <3>1. mqtt' \in [pc : {"wait", "post"}, ev : EventData]
      BY <1>1, <1>3, <2>5, <2>7 DEF TypeOK, EventData
    <3>2. total' \in 0..MaxPayload
      BY <2>1, <2>5, SizeAssumption
    <3> QED BY <1>1, <1>2, <1>5, <2>3, <2>5, <3>1, <3>2 DEF TypeOK
  <2>9. ReassemblyInv'
    <3>1. CASE incoming.off + k < total
      <4>1. /\ incoming'.id = incoming.id
            /\ incoming'.off = incoming.off + k
            /\ total' = total
        BY <1>4, <2>1, <2>3, <2>5, <3>1
      <4> QED BY <1>2, <2>1, <2>3, <2>4, <2>5, <4>1 DEF ReassemblyInv
    <3>2. CASE ~(incoming.off + k < total)
      BY <1>4, <2>1, <3>2 DEF ReassemblyInv, Receiving
    <3> QED BY <3>1, <3>2
  <2>10. PostInv'
    <3>1. CASE filled.size < total
      BY <1>2, <2>5, <3>1 DEF PostInv
    <3>2. CASE ~(filled.size < total)
      <4>1. /\ mqtt'.ev.block = filled.block
            /\ mqtt'.ev.size = filled.size
            /\ mqtt'.ev.of = incoming.id
        BY <2>5, <3>2
      <4>2. filled.size = total
        BY <1>2, <1>3, <2>1, <2>3, <3>2
      <4>3. ~Receiving'
        BY <1>2, <1>3, <1>4, <2>1, <2>3, <4>2 DEF Receiving
      <4> QED BY <1>2, <1>3, <2>1, <2>4, <2>5, <4>1, <4>2, <4>3, SizeAssumption
              DEF PostInv
    <3> QED BY <3>1, <3>2
  <2> QED BY <1>5, <1>6, <2>6, <2>8, <2>9, <2>10 DEF IInv, BytesInv
<1> QED BY <1>7, <1>8

\* Session events and the post leave the buffer and the partition alone.
LEMMA SessionPostIInv ==
    ASSUME IInv, Connected \/ Disconnected \/ PostEvent
    PROVE  IInv'
<1>1. TypeOK
  BY DEF IInv
<1>2. UNCHANGED <<sent, total, buf, loop, flash>>
  BY DEF Connected, Disconnected, PostEvent, PostConfiguration, PostOutOfMemory
<1>3. BytesInv'
  BY <1>2 DEF IInv, BytesInv, CellOK
<1>4. CASE Connected
  <2>1. UNCHANGED <<incoming, mqtt, queue, faults>>
    BY <1>4 DEF Connected
  <2>2. TypeOK'
    BY <1>1, <1>2, <1>4, <2>1 DEF TypeOK, Connected
  <2> QED BY <1>2, <1>3, <2>1, <2>2
          DEF IInv, IncomingInv, ReassemblyInv, PostInv, EventsInv, Receiving
<1>5. CASE Disconnected
  <2>1. UNCHANGED <<mqtt, queue, faults>> /\ incoming' = NoMessage
    BY <1>5 DEF Disconnected
  <2>2. TypeOK'
    BY <1>1, <1>2, <1>5, <2>1 DEF TypeOK, Disconnected, NoMessage
  <2> QED BY <1>2, <1>3, <2>1, <2>2
          DEF IInv, IncomingInv, ReassemblyInv, PostInv, EventsInv, Receiving
<1>6. CASE PostConfiguration
  <2>1. /\ mqtt.pc = "post" /\ Len(queue) < QueueSize
        /\ queue' = Append(queue, mqtt.ev)
        /\ mqtt' = [pc |-> "wait", ev |-> NoEvent]
        /\ UNCHANGED <<session, incoming, faults>>
    BY <1>6 DEF PostConfiguration
  <2>2. mqtt.ev \in EventData /\ mqtt.ev.size <= MaxPayload
    BY <1>1, <2>1 DEF IInv, PostInv, TypeOK
  <2>3. queue' \in Seq(EventData) /\ Len(queue') = Len(queue) + 1
    BY <1>1, <2>1, <2>2 DEF TypeOK
  <2>4. TypeOK'
    BY <1>1, <1>2, <2>1, <2>3, SizeAssumption DEF TypeOK, NoEvent, EventData
  <2>5. EventsInv'
    <3>1. \A j \in 1..Len(queue') : queue'[j] = queue[j] \/ queue'[j] = mqtt.ev
      BY <1>1, <2>1, <2>2 DEF TypeOK
    <3>2. \A j \in 1..Len(queue') : j \in 1..Len(queue) \/ queue'[j] = mqtt.ev
      BY <1>1, <2>1, <2>2 DEF TypeOK
    <3>3. \A j \in 1..Len(queue) : queue[j].size <= MaxPayload
      BY DEF IInv, EventsInv
    <3>4. \A j \in 1..Len(queue') : queue'[j].size <= MaxPayload
      BY <2>2, <3>1, <3>2, <3>3
    <3> QED BY <1>2, <3>4 DEF IInv, EventsInv
  <2> QED BY <1>2, <1>3, <2>1, <2>4, <2>5
          DEF IInv, IncomingInv, ReassemblyInv, PostInv, Receiving
<1>7. CASE PostOutOfMemory
  <2>1. /\ mqtt' = [pc |-> "wait", ev |-> NoEvent]
        /\ faults' = faults + 1 /\ faults < MaxFaults
        /\ UNCHANGED <<session, incoming, queue>>
    BY <1>7 DEF PostOutOfMemory
  <2>2. TypeOK'
    BY <1>1, <1>2, <2>1, SizeAssumption DEF TypeOK, NoEvent, EventData
  <2> QED BY <1>2, <1>3, <2>1, <2>2
          DEF IInv, IncomingInv, ReassemblyInv, PostInv, EventsInv, Receiving
<1> QED BY <1>4, <1>5, <1>6, <1>7 DEF PostEvent

\* The event loop task writes only what an event of legal size points to.
LEMMA LoopStepIInv ==
    ASSUME IInv, LoopStep
    PROVE  IInv'
<1>1. TypeOK
  BY DEF IInv
<1>2. UNCHANGED <<session, sent, incoming, total, buf, mqtt>>
  BY DEF LoopStep, AcceptConfiguration, EraseConfiguration, EraseFails,
         WriteConfiguration, WriteFails
<1>3. IncomingInv' /\ ReassemblyInv' /\ PostInv'
  BY <1>2 DEF IInv, IncomingInv, ReassemblyInv, PostInv, Receiving
<1>4. \A c : CellOK(c)' <=> CellOK(c)
  BY <1>2 DEF CellOK
<1>5. Blank \in [1..PartitionSize -> Cells \cup {Junk, Erased}]
      /\ \A i \in 1..PartitionSize : CellOK(Blank[i])
  BY ByteAssumption DEF Blank, CellOK, Cells
<1>6. ASSUME loop.pc = "write", NEW n \in 0..Uint16(loop.ev.size)
      PROVE  /\ Written(loop.ev, n) \in [1..PartitionSize -> Cells \cup {Junk, Erased}]
             /\ \A i \in 1..PartitionSize : CellOK(Written(loop.ev, n)[i])
  <2>1. loop.ev \in EventData /\ loop.ev.size <= MaxPayload
    BY <1>1, <1>6 DEF IInv, EventsInv, TypeOK
  <2>2. Uint16(loop.ev.size) = loop.ev.size
    BY <2>1, Uint16Small, SizeAssumption DEF EventData
  <2> QED BY <1>1, <1>6, <2>1, <2>2, WrittenFacts DEF IInv
<1>7. ASSUME flash' \in [1..PartitionSize -> Cells \cup {Junk, Erased}],
             \A i \in 1..PartitionSize : CellOK(flash'[i])
      PROVE  BytesInv'
  <2>1. \A i \in 1..PartitionSize : CellOK(flash[i])'
    BY <1>4, <1>7
  <2>2. \A i \in 1..MaxPayload : CellOK(buf.mem[i])'
    BY <1>2, <1>4 DEF IInv, BytesInv
  <2> QED BY <2>1, <2>2 DEF BytesInv
<1>8. CASE AcceptConfiguration
  <2>1. /\ queue # <<>> /\ queue' = Tail(queue)
        /\ loop' = loop \/ loop' = [pc |-> "erase", ev |-> Head(queue)]
        /\ loop.pc = "wait"
        /\ UNCHANGED <<flash, faults>>
    BY <1>8 DEF AcceptConfiguration
  <2>2. /\ Head(queue) = queue[1] /\ 1 \in 1..Len(queue)
        /\ Head(queue) \in EventData
        /\ queue' \in Seq(EventData)
        /\ Len(queue') = Len(queue) - 1
        /\ \A j \in 1..Len(queue') : queue'[j] = queue[j + 1] /\ j + 1 \in 1..Len(queue)
    BY <1>1, <2>1 DEF TypeOK
  <2>3. TypeOK'
    <3>1. loop' \in [pc : {"wait", "erase", "write"}, ev : EventData]
      BY <1>1, <2>1, <2>2 DEF TypeOK
    <3>2. Len(queue') <= QueueSize
      BY <1>1, <2>2, SizeAssumption DEF TypeOK
    <3> QED BY <1>1, <1>2, <2>1, <2>2, <3>1, <3>2 DEF TypeOK
  <2>4. EventsInv'
    <3>1. \A j \in 1..Len(queue) : queue[j].size <= MaxPayload
      BY DEF IInv, EventsInv
    <3>2. \A j \in 1..Len(queue') : queue'[j].size <= MaxPayload
      BY <2>2, <3>1
    <3>3. loop'.pc # "wait" => loop'.ev.size <= MaxPayload
      BY <2>1, <2>2, <3>1
    <3> QED BY <3>2, <3>3 DEF EventsInv
  <2>5. BytesInv'
    BY <1>2, <2>1 DEF IInv, BytesInv, CellOK
  <2> QED BY <1>3, <2>3, <2>4, <2>5 DEF IInv
<1>9. CASE EraseConfiguration
  <2>1. /\ loop.pc = "erase"
        /\ flash' = Blank
        /\ loop' = [loop EXCEPT !.pc = "write"]
        /\ UNCHANGED <<queue, faults>>
    BY <1>9 DEF EraseConfiguration
  <2>2. loop' = [pc |-> "write", ev |-> loop.ev] /\ loop.ev \in EventData
    BY <1>1, <2>1 DEF TypeOK
  <2>3. TypeOK'
    BY <1>1, <1>2, <1>5, <2>1, <2>2 DEF TypeOK
  <2>4. EventsInv'
    BY <2>1, <2>2 DEF IInv, EventsInv
  <2> QED BY <1>3, <1>5, <1>7, <2>1, <2>3, <2>4 DEF IInv
<1>10. CASE EraseFails \/ WriteConfiguration \/ WriteFails
  <2>1. /\ loop' = [pc |-> "wait", ev |-> NoEvent]
        /\ queue' = queue
        /\ faults' \in 0..MaxFaults
    BY <1>1, <1>10, SizeAssumption
       DEF EraseFails, WriteConfiguration, WriteFails, TypeOK
  <2>2. \/ flash' = flash
        \/ flash' = Blank
        \/ /\ loop.pc = "write"
           /\ \E n \in 0..Uint16(loop.ev.size) : flash' = Written(loop.ev, n)
    <3>1. CASE EraseFails
      BY <3>1 DEF EraseFails
    <3>2. CASE WriteFails
      BY <3>2 DEF WriteFails
    <3>3. CASE WriteConfiguration
      <4>1. Uint16(loop.ev.size) \in 0..Uint16(loop.ev.size)
        BY <1>1 DEF TypeOK, EventData, Uint16
      <4> QED BY <3>3, <4>1 DEF WriteConfiguration
    <3> QED BY <1>10, <3>1, <3>2, <3>3
  <2>3. /\ flash' \in [1..PartitionSize -> Cells \cup {Junk, Erased}]
        /\ \A i \in 1..PartitionSize : CellOK(flash'[i])
    <3>1. CASE flash' = flash
      BY <1>1, <3>1 DEF IInv, BytesInv, TypeOK
    <3> QED BY <1>5, <1>6, <2>2, <3>1
  <2>4. TypeOK'
    BY <1>1, <1>2, <2>1, <2>3 DEF TypeOK, NoEvent, EventData
  <2>5. EventsInv'
    BY <2>1 DEF IInv, EventsInv
  <2> QED BY <1>3, <1>7, <2>3, <2>4, <2>5 DEF IInv
<1> QED BY <1>8, <1>9, <1>10 DEF LoopStep

\* A restart forgets everything but the partition, which then holds a prefix of
\* what was being written.
LEMMA PowerLossIInv ==
    ASSUME IInv, PowerLoss
    PROVE  IInv'
<1>1. TypeOK
  BY DEF IInv
<1>2. /\ faults' \in 0..MaxFaults
      /\ session' = "down" /\ incoming' = NoMessage /\ total' = 0
      /\ buf' = EmptyBuffer
      /\ mqtt' = [pc |-> "wait", ev |-> NoEvent]
      /\ queue' = <<>>
      /\ loop' = [pc |-> "wait", ev |-> NoEvent]
      /\ sent' = sent
  BY <1>1, SizeAssumption DEF PowerLoss, TypeOK
<1>3. \A c : CellOK(c)' <=> CellOK(c)
  BY <1>2 DEF CellOK
<1>4. /\ flash' \in [1..PartitionSize -> Cells \cup {Junk, Erased}]
      /\ \A i \in 1..PartitionSize : CellOK(flash'[i])
  <2>1. CASE flash' = flash
    BY <1>1, <2>1 DEF IInv, BytesInv, TypeOK
  <2>2. CASE flash' = Blank
    BY <2>2, ByteAssumption DEF Blank, CellOK, Cells
  <2>3. CASE /\ loop.pc = "write"
             /\ \E n \in 0..Uint16(loop.ev.size) : flash' = Written(loop.ev, n)
    <3>1. loop.ev \in EventData /\ loop.ev.size <= MaxPayload
      BY <1>1, <2>3 DEF IInv, EventsInv, TypeOK
    <3>2. Uint16(loop.ev.size) = loop.ev.size
      BY <3>1, Uint16Small, SizeAssumption DEF EventData
    <3> QED BY <1>1, <2>3, <3>1, <3>2, WrittenFacts DEF IInv
  <2> QED BY <2>1, <2>2, <2>3 DEF PowerLoss
<1>5. EmptyBuffer \in Buffers /\ \A i \in 1..MaxPayload : CellOK(EmptyBuffer.mem[i])
  BY ByteAssumption, SizeAssumption DEF EmptyBuffer, Buffers, CellOK, Cells
<1>6. BytesInv'
  <2>1. \A i \in 1..PartitionSize : CellOK(flash[i])'
    BY <1>3, <1>4
  <2>2. \A i \in 1..MaxPayload : CellOK(buf.mem[i])'
    BY <1>2, <1>3, <1>5
  <2> QED BY <2>1, <2>2 DEF BytesInv
<1>7. TypeOK'
  BY <1>1, <1>2, <1>4, <1>5, SizeAssumption
     DEF TypeOK, NoMessage, NoEvent, EventData
<1>8. IncomingInv' /\ ReassemblyInv' /\ PostInv' /\ EventsInv'
  BY <1>2 DEF IncomingInv, ReassemblyInv, PostInv, EventsInv, Receiving
<1> QED BY <1>6, <1>7, <1>8 DEF IInv

\* Every step keeps the inductive invariant.
LEMMA NextIInv == IInv /\ [Next]_vars => IInv'
<1> SUFFICES ASSUME IInv, [Next]_vars PROVE IInv'
  OBVIOUS
<1>1. CASE Connected \/ Disconnected \/ PostEvent
  BY <1>1, SessionPostIInv
<1>2. CASE \E n \in 0..MaxLength, k \in 0..MaxChunk : FirstChunk(n, k)
  BY <1>2, FirstChunkIInv
<1>3. CASE \E k \in 1..MaxChunk : LaterChunk(k)
  BY <1>3, LaterChunkIInv
<1>4. CASE LoopStep
  BY <1>4, LoopStepIInv
<1>5. CASE PowerLoss
  BY <1>5, PowerLossIInv
<1>6. CASE UNCHANGED vars
  BY <1>6 DEF vars, IInv, TypeOK, IncomingInv, ReassemblyInv, PostInv, BytesInv,
     EventsInv, CellOK, Receiving
<1> QED BY <1>1, <1>2, <1>3, <1>4, <1>5, <1>6 DEF Next

\* The inductive invariant holds in every reachable state: what is received,
\* buffered, posted and stored agrees with what the broker sent.
THEOREM Invariance == Spec => []IInv
  BY InitIInv, NextIInv, PTL DEF Spec

-----------------------------------------------------------------------------
\* The type invariant of the delivery pipeline.
THEOREM TypeCorrect == Spec => []TypeOK
<1>1. IInv => TypeOK
  BY DEF IInv
<1> QED BY <1>1, Invariance, PTL

\* Whatever chunks the broker's messages arrive in and whenever connections
\* are lost, the event posted by mqttEventHandler refers to one complete
\* message, byte for byte.
THEOREM ReassemblyCorrect == Spec => []PostedMessageIsWhole
<1>1. IInv => PostedMessageIsWhole
  <2> SUFFICES ASSUME IInv, mqtt.pc = "post" PROVE WholeMessage(mqtt.ev)
    BY DEF PostedMessageIsWhole
  <2>1. mqtt.ev.size \in Nat
    BY DEF IInv, TypeOK, EventData
  <2>2. \A i \in 1..mqtt.ev.size : i \in 1..MaxPayload /\ i <= mqtt.ev.size
    BY <2>1, SizeAssumption DEF IInv, PostInv
  <2>3. \A i \in 1..mqtt.ev.size : Pointee(mqtt.ev)[i] = buf.mem[i]
    BY <2>2 DEF IInv, PostInv, Pointee
  <2> QED BY <2>2, <2>3 DEF IInv, PostInv, WholeMessage
<1> QED BY <1>1, Invariance, PTL

\* A message above MAX_EXPECTED_PAYLOAD_SIZE leaves no byte behind.
THEOREM OversizeDropped == Spec => []OversizeNeverKept
<1>1. IInv => OversizeNeverKept
  <2> SUFFICES ASSUME IInv, NEW n \in DOMAIN sent, sent[n] > MaxPayload
               PROVE  /\ \A i \in 1..MaxPayload :
                            buf.mem[i] \in Cells => buf.mem[i][1] # n
                      /\ \A i \in 1..PartitionSize :
                            flash[i] \in Cells => flash[i][1] # n
    BY DEF OversizeNeverKept
  <2>1. sent[n] \in Nat /\ ~(sent[n] <= MaxPayload)
    BY SizeAssumption DEF IInv, TypeOK
  <2> QED BY <2>1 DEF IInv, BytesInv, CellOK
<1> QED BY <1>1, Invariance, PTL

-----------------------------------------------------------------------------
(***************************************************************************)
(* With a server that waits for its configuration to be stored, the        *)
(* pipeline implements the abstract store.                                 *)
(***************************************************************************)

\* Nothing is under way when the controller starts.
LEMMA InitPaced == Init => PacedInv
  BY DEF Init, PacedInv, PipelineIdle, Receiving

\* Chunks arrive only while no event is on its way.
LEMMA ChunkPaced ==
    ASSUME IInv, PacedInv, Paced,
           \/ \E n \in 0..MaxLength, k \in 0..MaxChunk : FirstChunk(n, k)
           \/ \E k \in 1..MaxChunk : LaterChunk(k)
    PROVE  PacedInv'
<1>1. /\ PipelineIdle
      /\ UNCHANGED <<queue, loop, flash>>
  BY DEF FirstChunk, LaterChunk, PacedInv
<1>2. PostInv'
  BY FirstChunkIInv, LaterChunkIInv DEF IInv
<1>3. mqtt'.pc \in {"wait", "post"}
  BY FirstChunkIInv, LaterChunkIInv DEF IInv, TypeOK
<1> QED BY <1>1, <1>2, <1>3 DEF PacedInv, PipelineIdle, PostInv

\* The other steps move the one event along.
LEMMA OtherPaced ==
    ASSUME IInv, PacedInv, Paced,
           \/ Connected \/ Disconnected \/ PostEvent \/ LoopStep \/ PowerLoss
           \/ UNCHANGED vars
    PROVE  PacedInv'
<1>1. TypeOK
  BY DEF IInv
<1>2. CASE UNCHANGED vars \/ Connected
  BY <1>2 DEF vars, Connected, PacedInv, PipelineIdle, Receiving, Newest, Blank
<1>3. CASE Disconnected
  BY <1>3 DEF Disconnected, PacedInv, PipelineIdle, Receiving, Newest, Blank
<1>4. CASE PostOutOfMemory
  <2>1. mqtt.pc = "post" /\ mqtt'.pc = "wait"
        /\ UNCHANGED <<incoming, queue, loop>>
    BY <1>4 DEF PostOutOfMemory
  <2> QED BY <2>1 DEF PacedInv, PipelineIdle
<1>5. CASE PostConfiguration
  <2>1. /\ mqtt.pc = "post" /\ mqtt'.pc = "wait"
        /\ queue' = Append(queue, mqtt.ev)
        /\ UNCHANGED <<sent, incoming, buf, loop>>
    BY <1>5 DEF PostConfiguration
  <2>2. queue = <<>> /\ loop.pc = "wait" /\ ~Receiving
    BY <2>1 DEF PacedInv, PipelineIdle
  <2>3. mqtt.ev \in EventData
    BY <1>1 DEF TypeOK
  <2>4. Len(queue') = 1 /\ queue'[1] = mqtt.ev
    BY <2>1, <2>2, <2>3
  <2>5. Newest(mqtt.ev)
    BY <2>1 DEF IInv, PostInv, Newest
  <2>6. Newest(queue[1])'
    BY <2>1, <2>4, <2>5 DEF Newest
  <2> QED BY <2>1, <2>2, <2>4, <2>6 DEF PacedInv, PipelineIdle, Receiving
<1>6. CASE AcceptConfiguration
  <2>1. /\ queue # <<>> /\ queue' = Tail(queue)
        /\ loop' = loop \/ loop' = [pc |-> "erase", ev |-> Head(queue)]
        /\ loop.pc = "wait"
        /\ UNCHANGED <<sent, incoming, buf, mqtt, flash>>
    BY <1>6 DEF AcceptConfiguration
  <2>2. Len(queue) = 1 /\ Newest(queue[1]) /\ ~Receiving /\ mqtt.pc # "post"
    BY <2>1 DEF PacedInv, PipelineIdle
  <2>3. queue' = <<>> /\ Head(queue) = queue[1]
    BY <1>1, <2>1, <2>2 DEF TypeOK
  <2>4. CASE loop' = loop
    BY <1>1, <2>1, <2>2, <2>3, <2>4 DEF PacedInv, PipelineIdle, Receiving, TypeOK
  <2>5. CASE loop' = [pc |-> "erase", ev |-> Head(queue)]
    <3>1. loop'.pc = "erase" /\ loop'.ev = queue[1]
      BY <2>3, <2>5
    <3>2. Newest(loop.ev)'
      BY <2>1, <2>2, <3>1 DEF Newest
    <3> QED BY <2>1, <2>2, <2>3, <3>1, <3>2 DEF PacedInv, PipelineIdle, Receiving
  <2> QED BY <2>1, <2>4, <2>5
<1>7. CASE EraseConfiguration
  <2>1. /\ loop.pc = "erase" /\ loop'.pc = "write" /\ loop'.ev = loop.ev
        /\ flash' = Blank
        /\ UNCHANGED <<sent, incoming, buf, mqtt, queue>>
    BY <1>1, <1>7 DEF EraseConfiguration, TypeOK
  <2>2. Newest(loop.ev)'
    BY <2>1 DEF PacedInv, Newest
  <2> QED BY <2>1, <2>2 DEF PacedInv, PipelineIdle, Receiving, Blank
<1>8. CASE EraseFails \/ WriteConfiguration \/ WriteFails
  <2>1. /\ loop.pc # "wait" /\ loop'.pc = "wait"
        /\ UNCHANGED <<incoming, mqtt, queue>>
    BY <1>8 DEF EraseFails, WriteConfiguration, WriteFails
  <2> QED BY <2>1 DEF PacedInv, PipelineIdle, Receiving
<1>9. CASE PowerLoss
  BY <1>9 DEF PowerLoss, PacedInv, PipelineIdle, Receiving
<1> QED BY <1>2, <1>3, <1>4, <1>5, <1>6, <1>7, <1>8, <1>9
        DEF PostEvent, LoopStep

\* Writing the first n bytes of the newest message over an erased partition
\* is the abstract Fill; nothing else is ever written.
LEMMA WriteIsFill ==
    ASSUME IInv, PacedInv, loop.pc = "write",
           NEW n \in 0..Uint16(loop.ev.size), flash' = Written(loop.ev, n),
           UNCHANGED sent
    PROVE  Store!Fill
<1>1. loop.ev \in EventData /\ Newest(loop.ev) /\ flash = Blank
  BY DEF IInv, TypeOK, PacedInv
<1>2. /\ loop.ev.size \in 0..MaxPayload
      /\ loop.ev.of = Len(sent) /\ loop.ev.size = sent[Len(sent)]
      /\ sent # <<>>
  BY <1>1, SizeAssumption DEF Newest, EventData
<1>3. n \in 0..sent[Len(sent)]
  BY <1>2, Uint16Small
<1>4. \A i \in 1..PartitionSize :
        i <= n => Pointee(loop.ev)[i] = <<Len(sent), i>>
  <2> SUFFICES ASSUME NEW i \in 1..PartitionSize, i <= n
               PROVE  Pointee(loop.ev)[i] = <<Len(sent), i>>
    OBVIOUS
  <2>1. i \in 1..MaxPayload /\ i <= loop.ev.size
    BY <1>2, <1>3, SizeAssumption
  <2> QED BY <1>1, <1>2, <2>1 DEF Newest, Pointee
<1>5. flash' = Store!Prefix(Len(sent), n)
  BY <1>1, <1>4 DEF Written, Blank, Store!Prefix
<1> QED BY <1>1, <1>2, <1>3, <1>5, SizeAssumption DEF Store!Fill, Store!Blank, Blank

\* Every step of the pipeline is a step of the abstract store or leaves the
\* messages and the partition as they are.
LEMMA StepSimulation ==
    IInv /\ PacedInv /\ Paced /\ [Next]_vars => [Store!Next]_(Store!vars)
<1> SUFFICES ASSUME IInv, PacedInv, [Next]_vars
             PROVE  Store!Next \/ UNCHANGED Store!vars
  OBVIOUS
<1> USE DEF Store!Next, Store!vars
<1>1. CASE Connected \/ Disconnected \/ PostEvent \/ AcceptConfiguration
           \/ UNCHANGED vars
  BY <1>1 DEF Connected, Disconnected, PostEvent, PostConfiguration,
              PostOutOfMemory, AcceptConfiguration, vars
<1>2. CASE \E n \in 0..MaxLength, k \in 0..MaxChunk : FirstChunk(n, k)
  BY <1>2 DEF FirstChunk, Store!Publish
<1>3. CASE \E k \in 1..MaxChunk : LaterChunk(k)
  BY <1>3 DEF LaterChunk
<1>4. CASE EraseConfiguration \/ EraseFails
  BY <1>4 DEF EraseConfiguration, EraseFails, Blank, Store!Erase, Store!Blank
<1>5. CASE WriteConfiguration \/ WriteFails
  <2>1. loop.pc = "write" /\ UNCHANGED sent
    BY <1>5 DEF WriteConfiguration, WriteFails
  <2>2. \E n \in 0..Uint16(loop.ev.size) : flash' = Written(loop.ev, n)
    <3>1. CASE WriteConfiguration
      <4>1. Uint16(loop.ev.size) \in 0..Uint16(loop.ev.size)
        BY DEF IInv, TypeOK, EventData, Uint16
      <4> QED BY <3>1, <4>1 DEF WriteConfiguration
    <3>2. CASE WriteFails
      BY <3>2 DEF WriteFails
    <3> QED BY <1>5, <3>1, <3>2
  <2> QED BY <2>1, <2>2, WriteIsFill
<1>6. CASE PowerLoss
  <2>1. CASE flash' = flash
    BY <1>6, <2>1 DEF PowerLoss
  <2>2. CASE flash' = Blank
    BY <1>6, <2>2 DEF PowerLoss, Blank, Store!Erase, Store!Blank
  <2>3. CASE /\ loop.pc = "write"
             /\ \E n \in 0..Uint16(loop.ev.size) : flash' = Written(loop.ev, n)
    BY <1>6, <2>3, WriteIsFill DEF PowerLoss
  <2> QED BY <1>6, <2>1, <2>2, <2>3 DEF PowerLoss
<1> QED BY <1>1, <1>2, <1>3, <1>4, <1>5, <1>6 DEF Next, LoopStep

\* If the server waits for each configuration to be stored, then through
\* lost connections, failed allocations, flash errors and power losses the
\* partition is erased or holds a prefix of the newest message, and goes from
\* one configuration to the next through the erased state.
THEOREM Refinement == ASSUME Paced PROVE Spec => StoreSpec
<1>1. Init => Store!Init
  BY DEF Init, Store!Init, Store!Blank
<1>2. IInv /\ PacedInv /\ [Next]_vars => PacedInv'
  BY ChunkPaced, OtherPaced DEF Next
<1>3. IInv /\ PacedInv /\ [Next]_vars => [Store!Next]_(Store!vars)
  BY StepSimulation
<1> QED BY <1>1, <1>2, <1>3, InitPaced, Invariance, PTL
        DEF Spec, StoreSpec, Store!Spec
=============================================================================
