---------------------------- MODULE ByteIOProofs ----------------------------
(***************************************************************************)
(* Type correctness of ByteIO, the bounds of the read cursor, and that the *)
(* sink with the buffer in front of it is a file, for any input, any       *)
(* offsets and any buffer size.                                            *)
(***************************************************************************)
EXTENDS ByteIO, TLAPS

\* A seek that is not refused ends at a position; one that may not pass the
\* end stays within it.
LEMMA ResolveSeekBounds ==
    ASSUME NEW pos \in Nat, NEW length \in Nat, NEW offset \in Int,
           NEW whence, NEW allow_past_end \in BOOLEAN
    PROVE  LET to == Moved(pos, ResolveSeek(pos, length, offset, whence,
                                            allow_past_end))
           IN  to \in Nat /\ (~allow_past_end /\ pos <= length => to <= length)
<1> DEFINE base == [SEEK_SET |-> 0, SEEK_CUR |-> pos, SEEK_END |-> length]
           target == SeekTarget(pos, length, offset, whence)
<1>1. DOMAIN base = {"SEEK_SET", "SEEK_CUR", "SEEK_END"}
  OBVIOUS
<1>2. target \in Int
  <2>1. CASE whence \in DOMAIN base
    <3>1. base[whence] \in Nat
      BY <2>1, <1>1
    <3> HIDE DEF base
    <3>2. target = IF base[whence] + offset > MaxI64 THEN -1
                   ELSE base[whence] + offset
      BY <2>1 DEF SeekTarget, Refused, base
    <3> QED  BY <3>1, <3>2, ByteIOAssumption
  <2>2. CASE whence \notin DOMAIN base
    BY <2>2 DEF SeekTarget, Refused
  <2> QED  BY <2>1, <2>2
<1> HIDE DEF target
<1> QED  BY <1>2 DEF Moved, ResolveSeek, Refused, target

\* resize and copy leave a sequence of bytes.
LEMMA OverwrittenType ==
    ASSUME NEW S, NEW old \in Seq(S), NEW new \in Seq(S), NEW at \in Nat,
           Zero \in S
    PROVE  Overwritten(old, at, new) \in Seq(S)
<1> DEFINE n == Larger(Len(old), at + Len(new))
           byte(i) == IF i \in at + 1 .. at + Len(new) THEN new[i - at]
                      ELSE IF i <= Len(old) THEN old[i] ELSE Zero
<1>1. n \in Nat
  BY DEF Larger
<1>2. \A i \in 1..n : byte(i) \in S
  <2> SUFFICES ASSUME NEW i \in 1..n PROVE byte(i) \in S
    OBVIOUS
  <2>1. CASE i \in at + 1 .. at + Len(new)
    <3>1. i - at \in 1..Len(new)
      BY <2>1
    <3> QED  BY <2>1, <3>1
  <2>2. CASE i \notin at + 1 .. at + Len(new) /\ i <= Len(old)
    <3>1. i \in 1..Len(old)
      BY <2>2, <1>1
    <3> QED  BY <2>2, <3>1
  <2>3. CASE i \notin at + 1 .. at + Len(new) /\ ~(i <= Len(old))
    BY <2>3
  <2> QED  BY <2>1, <2>2, <2>3
<1> HIDE DEF byte, n
<1>3. [i \in 1..n |-> byte(i)] \in Seq(S)
  BY <1>1, <1>2
<1>4. CASE new = << >>
  BY <1>4 DEF Overwritten
<1>5. CASE new # << >>
  BY <1>5, <1>3 DEF Overwritten, byte, n
<1> QED  BY <1>4, <1>5

ReadInv == len \in InputLengths /\ read_pos \in Nat /\ CursorInBounds

\* No read and no seek takes the cursor out of the input.
LEMMA ReadStep == ReadInv /\ [Next]_vars => ReadInv'
<1> SUFFICES ASSUME ReadInv, [Next]_vars PROVE ReadInv'
  OBVIOUS
<1> USE ByteIOAssumption DEF ReadInv, CursorInBounds
<1>1. ASSUME NEW n \in 1..AVIO_BUFFER_SIZE, ReadPacket(n) PROVE ReadInv'
  BY <1>1 DEF ReadPacket, Smaller
<1>2. ASSUME NEW offset \in Offsets, NEW whence \in Whences,
             ReadSeek(offset, whence)
      PROVE  ReadInv'
  <2>1. len \in Nat /\ offset \in Int
    OBVIOUS
  <2> QED  BY <1>2, <2>1, ResolveSeekBounds DEF ReadSeek
<1>3. ASSUME UNCHANGED readVars PROVE ReadInv'
  BY <1>3 DEF readVars
<1>4. ASSUME NEW offset \in Offsets, NEW whence \in Whences,
             WriteSeek(offset, whence)
      PROVE  UNCHANGED readVars
  BY <1>4 DEF WriteSeek
<1>5. ASSUME NEW b \in Bytes, Put(b) PROVE UNCHANGED readVars
  BY <1>5 DEF Put
<1>6. WriteBuffer \/ AvioFlush \/ IntoBytes => UNCHANGED readVars
  BY DEF WriteBuffer, AvioFlush, IntoBytes, WritePacket
<1>7. UNCHANGED vars => UNCHANGED readVars
  BY DEF vars
<1> QED  BY <1>1, <1>2, <1>3, <1>4, <1>5, <1>6, <1>7 DEF Next

\* The read cursor stays inside the input of load_bytes, whatever FFmpeg asks
\* (resolve_seek and read_packet of avio.rs): len - pos never wraps.
THEOREM ReadsStayInside == Spec => []CursorInBounds
<1>1. Init => ReadInv
  BY ByteIOAssumption DEF Init, ReadInv, CursorInBounds
<1>2. ReadInv => CursorInBounds
  BY DEF ReadInv
<1> QED  BY <1>1, <1>2, ReadStep, PTL DEF Spec
-----------------------------------------------------------------------------
Sink == Bytes \cup {Zero}

\* A write_packet leaves a sink of bytes and gaps, and an empty buffer.
LEMMA WritePacketType ==
    ASSUME TypeOK, WritePacket
    PROVE  data' \in Seq(Sink) /\ write_pos' \in Nat /\ buffer' = << >>
<1>1. buffer \in Seq(Sink) /\ data \in Seq(Sink) /\ write_pos \in Nat
      /\ Len(buffer) \in Nat
  BY DEF TypeOK, Sink
<1>2. Overwritten(data, write_pos, buffer) \in Seq(Sink)
  BY <1>1, OverwrittenType DEF Sink
<1> QED  BY <1>1, <1>2 DEF WritePacket

LEMMA TypeStep == TypeOK /\ ReadInv /\ [Next]_vars => TypeOK'
<1> SUFFICES ASSUME TypeOK, ReadInv, [Next]_vars PROVE TypeOK'
  OBVIOUS
<1> DEFINE ReadType == len \in InputLengths /\ read_pos \in Nat
           SinkType == data \in Seq(Sink) /\ write_pos \in Nat
           RestType == /\ buffer \in Seq(Bytes)
                       /\ Len(buffer) <= AVIO_BUFFER_SIZE
                       /\ stage \in {"muxing", "flushed", "done"}
                       /\ bytes \in Seq(Sink)
<1>1. TypeOK <=> ReadType /\ SinkType /\ RestType
  BY DEF TypeOK, Sink
<1>2. TypeOK' <=> ReadType' /\ SinkType' /\ RestType'
  BY DEF TypeOK, Sink
<1>3. ReadType'
  BY ReadStep DEF ReadInv
<1> HIDE DEF ReadType
<1>4. << >> \in Seq(Bytes) /\ Len(<< >>) = 0
  OBVIOUS
<1>5. ASSUME NEW n \in 1..AVIO_BUFFER_SIZE, ReadPacket(n) PROVE TypeOK'
  BY <1>1, <1>2, <1>3, <1>5 DEF ReadPacket, writeVars
<1>6. ASSUME NEW offset \in Offsets, NEW whence \in Whences,
             ReadSeek(offset, whence)
      PROVE  TypeOK'
  BY <1>1, <1>2, <1>3, <1>6 DEF ReadSeek, writeVars
<1>7. ASSUME NEW offset \in Offsets, NEW whence \in Whences,
             WriteSeek(offset, whence)
      PROVE  TypeOK'
  <2>1. write_pos \in Nat /\ Len(data) \in Nat /\ offset \in Int
    BY <1>1, ByteIOAssumption
  <2>2. Moved(write_pos, ResolveSeek(write_pos, Len(data), offset, whence,
                                     TRUE)) \in Nat
    BY <2>1, ResolveSeekBounds
  <2> QED  BY <1>1, <1>2, <1>3, <1>7, <2>2 DEF WriteSeek
<1>8. ASSUME NEW b \in Bytes, Put(b) PROVE TypeOK'
  <2>1. Append(buffer, b) \in Seq(Bytes)
        /\ Len(Append(buffer, b)) = Len(buffer) + 1
    BY <1>1
  <2>2. Len(buffer) + 1 <= AVIO_BUFFER_SIZE
    BY <1>1, <1>8, ByteIOAssumption DEF Put
  <2> QED  BY <1>1, <1>2, <1>3, <1>8, <2>1, <2>2 DEF Put
<1>9. CASE WriteBuffer
  BY <1>1, <1>2, <1>3, <1>4, <1>9, WritePacketType, ByteIOAssumption
  DEF WriteBuffer, WritePacket
<1>10. CASE AvioFlush
  BY <1>1, <1>2, <1>3, <1>4, <1>10, WritePacketType, ByteIOAssumption
  DEF AvioFlush, WritePacket
<1>11. CASE IntoBytes
  BY <1>1, <1>2, <1>3, <1>11 DEF IntoBytes
<1>12. CASE UNCHANGED vars
  BY <1>1, <1>2, <1>3, <1>12 DEF vars, writeVars
<1> QED  BY <1>5, <1>6, <1>7, <1>8, <1>9, <1>10, <1>11, <1>12 DEF Next

\* The state of avio.rs keeps its types: positions never go below 0, the
\* sink is bytes and zeroed gaps, the AVIOContext's buffer never overflows.
THEOREM TypeCorrect == Spec => []TypeOK
<1>1. Init => TypeOK /\ ReadInv
  BY ByteIOAssumption DEF Init, TypeOK, ReadInv, CursorInBounds
<1> QED  BY <1>1, TypeStep, ReadStep, PTL DEF Spec
-----------------------------------------------------------------------------
(* The sink is a file.                                                     *)

\* How many bytes a write leaves, and the one at offset i.
SizeAfter(old, at, new) ==
    IF Len(new) = 0 THEN Len(old) ELSE Larger(Len(old), at + Len(new))
ByteAt(old, at, new, i) ==
    IF at <= i /\ i < at + Len(new) THEN new[i - at + 1]
    ELSE IF i < Len(old) THEN old[i + 1] ELSE Zero

\* resize and copy, by the offsets of the file.
LEMMA OverwrittenBytes ==
    ASSUME NEW old \in Seq(Sink), NEW new \in Seq(Sink), NEW at \in Nat
    PROVE  /\ SizeAfter(old, at, new) \in Nat
           /\ AsFile(Overwritten(old, at, new))
                = [i \in 0..SizeAfter(old, at, new) - 1 |->
                      ByteAt(old, at, new, i)]
<1> DEFINE n == SizeAfter(old, at, new)
           w == Overwritten(old, at, new)
<1>1. n \in Nat
  BY DEF SizeAfter, Larger
<1>2. Len(w) = n /\ \A i \in 0..n - 1 : w[i + 1] = ByteAt(old, at, new, i)
  <2>1. CASE new = << >>
    <3>1. w = old /\ n = Len(old) /\ Len(new) = 0
      BY <2>1 DEF Overwritten, SizeAfter
    <3>2. \A i \in 0..n - 1 : ByteAt(old, at, new, i) = old[i + 1]
      BY <3>1 DEF ByteAt
    <3> QED  BY <3>1, <3>2
  <2>2. CASE new # << >>
    <3>1. Len(new) # 0 /\ Len(new) \in Nat /\ Len(old) \in Nat
      BY <2>2
    <3>2. n = Larger(Len(old), at + Len(new))
      BY <3>1 DEF SizeAfter
    <3>3. w = [i \in 1..n |->
                  IF i \in at + 1 .. at + Len(new) THEN new[i - at]
                  ELSE IF i <= Len(old) THEN old[i] ELSE Zero]
      BY <2>2, <3>2 DEF Overwritten
    <3> HIDE DEF n, w
    <3>4. Len(w) = n
      BY <1>1, <3>3
    <3>5. ASSUME NEW i \in 0..n - 1 PROVE w[i + 1] = ByteAt(old, at, new, i)
      <4>1. i + 1 \in 1..n
        BY <1>1
      <4>2. w[i + 1] = IF i + 1 \in at + 1 .. at + Len(new)
                       THEN new[(i + 1) - at]
                       ELSE IF i + 1 <= Len(old) THEN old[i + 1] ELSE Zero
        BY <3>3, <4>1
      <4>3. /\ (i + 1 \in at + 1 .. at + Len(new))
                 <=> (at <= i /\ i < at + Len(new))
            /\ (i + 1) - at = i - at + 1
            /\ i + 1 <= Len(old) <=> i < Len(old)
        BY <1>1, <3>1
      <4> QED  BY <4>2, <4>3 DEF ByteAt
    <3> QED  BY <3>4, <3>5
  <2> QED  BY <2>1, <2>2
<1> HIDE DEF n, w
<1>3. AsFile(w) = [i \in 0..n - 1 |-> ByteAt(old, at, new, i)]
  BY <1>2 DEF AsFile
<1> QED  BY <1>1, <1>3 DEF n, w

\* A file whose byte at the cursor is b.
WithByte(file, cursor, b) ==
    [i \in 0..cursor \cup DOMAIN file |->
        IF i = cursor THEN b
        ELSE IF i \in DOMAIN file THEN file[i] ELSE Zero]

\* Writing nothing changes nothing.
LEMMA OverwrittenByNothing ==
    ASSUME NEW old, NEW at
    PROVE  Overwritten(old, at, << >>) = old
BY DEF Overwritten

\* One byte more in the buffer is one byte written to the file at its cursor.
LEMMA BufferedByteIsWritten ==
    ASSUME NEW old \in Seq(Sink), NEW new \in Seq(Bytes), NEW at \in Nat,
           NEW b \in Bytes
    PROVE  AsFile(Overwritten(old, at, Append(new, b)))
             = WithByte(AsFile(Overwritten(old, at, new)), at + Len(new), b)
<1> DEFINE more == Append(new, b)
           file == AsFile(Overwritten(old, at, new))
           cursor == at + Len(new)
           n == SizeAfter(old, at, new)
           m == SizeAfter(old, at, more)
           next(i) == IF i = cursor THEN b
                      ELSE IF i \in DOMAIN file THEN file[i] ELSE Zero
<1>1. /\ new \in Seq(Sink) /\ more \in Seq(Sink)
      /\ Len(new) \in Nat /\ Len(old) \in Nat
      /\ Len(more) = Len(new) + 1
      /\ more[Len(new) + 1] = b
      /\ \A i \in 1..Len(new) : more[i] = new[i]
  <2>1. new \in Seq(Sink) /\ b \in Sink
    BY DEF Sink
  <2> QED  BY <2>1
<1>2. file = [i \in 0..n - 1 |-> ByteAt(old, at, new, i)] /\ n \in Nat
  BY <1>1, OverwrittenBytes, Zenon
<1>3. /\ AsFile(Overwritten(old, at, more))
           = [i \in 0..m - 1 |-> ByteAt(old, at, more, i)]
      /\ m \in Nat
  BY <1>1, OverwrittenBytes, Zenon
<1> HIDE DEF more, file
<1>4. 0..m - 1 = 0..cursor \cup DOMAIN file
  <2>1. DOMAIN file = 0..n - 1
    BY <1>2
  <2>2. m = Larger(Len(old), cursor + 1)
    BY <1>1 DEF SizeAfter
  <2>3. n = IF Len(new) = 0 THEN Len(old) ELSE Larger(Len(old), cursor)
    BY DEF SizeAfter
  <2> HIDE DEF n, m
  <2> QED  BY <1>1, <1>2, <1>3, <2>1, <2>2, <2>3 DEF Larger
<1>5. ASSUME NEW i \in 0..m - 1 PROVE ByteAt(old, at, more, i) = next(i)
  <2>1. i \in Nat /\ DOMAIN file = 0..n - 1
    BY <1>2, <1>3
  <2>2. CASE i = cursor
    <3>1. i - at + 1 = Len(new) + 1 /\ at <= i /\ i < at + Len(more)
      BY <1>1, <2>2
    <3> QED  BY <1>1, <2>2, <3>1 DEF ByteAt
  <2>3. CASE at <= i /\ i < cursor
    <3>1. i - at + 1 \in 1..Len(new) /\ i < at + Len(more)
      BY <1>1, <2>1, <2>3
    <3>2. ByteAt(old, at, more, i) = new[i - at + 1]
      BY <1>1, <2>3, <3>1 DEF ByteAt
    <3>3. ByteAt(old, at, new, i) = new[i - at + 1]
      BY <2>3 DEF ByteAt
    <3>4. i \in 0..n - 1
      BY <1>1, <2>1, <2>3 DEF SizeAfter, Larger
    <3>5. i # cursor
      BY <2>3, <2>1, <1>1
    <3> QED  BY <1>2, <2>1, <3>2, <3>3, <3>4, <3>5
  <2>4. CASE i < at \/ cursor < i
    <3>1. /\ ByteAt(old, at, more, i) = IF i < Len(old) THEN old[i + 1] ELSE Zero
          /\ ByteAt(old, at, new, i) = IF i < Len(old) THEN old[i + 1] ELSE Zero
          /\ i # cursor
      BY <1>1, <2>1, <2>4 DEF ByteAt
    <3>2. CASE i < n
      <4>1. i \in 0..n - 1
        BY <1>2, <2>1, <3>2
      <4> HIDE DEF n
      <4> QED  BY <1>2, <2>1, <3>1, <4>1
    <3>3. CASE ~(i < n)
      <4>1. i \notin 0..n - 1
        BY <1>2, <2>1, <3>3
      <4>2. ~(i < Len(old))
        BY <1>1, <2>1, <3>3 DEF SizeAfter, Larger
      <4> HIDE DEF n
      <4> QED  BY <2>1, <3>1, <4>1, <4>2
    <3> QED  BY <3>2, <3>3
  <2> QED  BY <1>1, <2>1, <2>2, <2>3, <2>4
<1> HIDE DEF n, m, next
<1>6. [i \in 0..m - 1 |-> ByteAt(old, at, more, i)] = [i \in 0..m - 1 |-> next(i)]
  BY <1>5
<1> QED  BY <1>3, <1>4, <1>6 DEF more, file, next, WithByte

\* When save_bytes takes the sink, nothing is left in the buffer.
Flushed == stage # "muxing" => buffer = << >>

LEMMA FlushedStep == Flushed /\ [Next]_vars => Flushed'
<1> SUFFICES ASSUME Flushed, [Next]_vars PROVE Flushed'
  OBVIOUS
<1>1. stage' # "muxing" => \/ UNCHANGED <<stage, buffer>>
                           \/ buffer' = << >>
                           \/ buffer = << >> /\ UNCHANGED buffer
  BY DEF Flushed, Next, ReadPacket, ReadSeek, Put, WriteBuffer, WriteSeek,
         AvioFlush, IntoBytes, WritePacket, vars, writeVars
<1> QED  BY <1>1 DEF Flushed

\* What the muxer sees of a write_packet: nothing.
LEMMA WritePacketIsInvisible ==
    ASSUME TypeOK, WritePacket
    PROVE  /\ AsFile(Overwritten(data', write_pos', buffer'))
                = AsFile(Overwritten(data, write_pos, buffer))
           /\ write_pos' + Len(buffer') = write_pos + Len(buffer)
           /\ bytes' = bytes
<1>1. /\ data' = Overwritten(data, write_pos, buffer) /\ buffer' = << >>
      /\ write_pos' = write_pos + Len(buffer) /\ bytes' = bytes
  BY DEF WritePacket
<1>2. Overwritten(data', write_pos', buffer') = data'
  BY <1>1, OverwrittenByNothing
<1>3. Len(buffer') = 0 /\ write_pos \in Nat /\ Len(buffer) \in Nat
  BY <1>1 DEF TypeOK
<1> QED  BY <1>1, <1>2, <1>3

\* Each step writes a byte, moves, returns, or is invisible to the muxer.
LEMMA StepIsOfFile ==
    ASSUME TypeOK, TypeOK', Flushed, [Next]_vars
    PROVE  [Promise!Next]_Promise!fileVars
<1> DEFINE file == AsFile(Overwritten(data, write_pos, buffer))
           cursor == write_pos + Len(buffer)
<1>1. CASE UNCHANGED writeVars
  BY <1>1 DEF writeVars, Promise!fileVars
<1>2. ASSUME NEW b \in Bytes, Put(b) PROVE Promise!Put(b)
  <2>1. /\ data \in Seq(Sink) /\ buffer \in Seq(Bytes) /\ write_pos \in Nat
    BY DEF TypeOK, Sink
  <2>2. buffer' = Append(buffer, b) /\ UNCHANGED <<data, write_pos, bytes>>
    BY <1>2 DEF Put
  <2>3. AsFile(Overwritten(data, write_pos, buffer'))
          = WithByte(file, cursor, b)
    BY <2>1, <2>2, BufferedByteIsWritten, Zenon
  <2>4. write_pos' + Len(buffer') = cursor + 1
    BY <2>1, <2>2
  <2> QED  BY <2>2, <2>3, <2>4, Zenon DEF Promise!Put, WithByte
<1>3. ASSUME NEW offset \in Offsets, NEW whence \in Whences,
             WriteSeek(offset, whence)
      PROVE  Promise!Move
  <2>1. buffer = << >> /\ UNCHANGED <<data, buffer, bytes>>
    BY <1>3 DEF WriteSeek
  <2>2. /\ Overwritten(data, write_pos, buffer) = data
        /\ Overwritten(data', write_pos', buffer') = data
    BY <2>1, OverwrittenByNothing
  <2>3. write_pos' + Len(buffer') \in Nat
    BY DEF TypeOK
  <2> QED  BY <2>1, <2>2, <2>3, Zenon DEF Promise!Move
<1>4. CASE WriteBuffer \/ AvioFlush
  <2>1. WritePacket
    BY <1>4 DEF WriteBuffer, AvioFlush
  <2> QED  BY <2>1, WritePacketIsInvisible DEF Promise!fileVars
<1>5. CASE IntoBytes
  <2>1. bytes' = data /\ buffer = << >> /\ UNCHANGED <<data, write_pos, buffer>>
    BY <1>5 DEF IntoBytes, Flushed
  <2>2. Overwritten(data, write_pos, buffer) = data
    BY <2>1, OverwrittenByNothing
  <2>3. Promise!Return
    BY <2>1, <2>2, Zenon DEF Promise!Return
  <2> QED  BY <2>3 DEF Promise!Next
<1>6. ASSUME NEW n \in 1..AVIO_BUFFER_SIZE, ReadPacket(n)
      PROVE  UNCHANGED writeVars
  BY <1>6 DEF ReadPacket
<1>7. ASSUME NEW offset \in Offsets, NEW whence \in Whences,
             ReadSeek(offset, whence)
      PROVE  UNCHANGED writeVars
  BY <1>7 DEF ReadSeek
<1>8. CASE UNCHANGED vars
  BY <1>1, <1>8 DEF vars
<1> QED  BY <1>1, <1>2, <1>3, <1>4, <1>5, <1>6, <1>7, <1>8
         DEF Next, Promise!Next

\* The sink of save_bytes, with the AVIOContext's buffer in front of it, is a
\* file to the muxer, however it writes and seeks (write_packet, write_seek);
\* and what save_bytes returns is the whole file, nothing left in the buffer.
THEOREM SinkIsAFile == Spec => KeepsPromise
<1>1. Init => Promise!Init /\ Flushed
  <2> SUFFICES ASSUME Init PROVE Promise!Init /\ Flushed
    OBVIOUS
  <2>1. /\ data = << >> /\ write_pos = 0 /\ buffer = << >> /\ bytes = << >>
        /\ stage = "muxing"
    BY DEF Init
  <2>2. AsFile(<< >>) = [i \in {} |-> Zero]
    <3>1. 0..Len(<< >>) - 1 = {}
      OBVIOUS
    <3>2. AsFile(<< >>) = [i \in 0..Len(<< >>) - 1 |-> << >>[i + 1]]
      BY Zenon DEF AsFile
    <3> QED  BY <3>1, <3>2
  <2>3. Overwritten(data, write_pos, buffer) = << >>
    BY <2>1, OverwrittenByNothing
  <2>4. write_pos + Len(buffer) = 0
    BY <2>1
  <2> QED  BY <2>1, <2>2, <2>3, <2>4, Zenon
           DEF Promise!Init, Promise!Empty, Flushed
<1>2. TypeOK /\ TypeOK' /\ Flushed /\ [Next]_vars
        => [Promise!Next]_Promise!fileVars
  BY StepIsOfFile
<1> QED  BY <1>1, <1>2, FlushedStep, TypeCorrect, PTL
         DEF Spec, KeepsPromise, Promise!Spec
=============================================================================
