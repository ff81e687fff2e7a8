------------------------------- MODULE ByteIO -------------------------------
(***************************************************************************)
(* avio.rs: the callbacks through which FFmpeg reads the input of          *)
(* load_bytes() and writes the output of save_bytes().                     *)
(*                                                                         *)
(* FFmpeg is the environment.  It calls the read callbacks in any order    *)
(* with any arguments; bytes written by the muxer gather in the buffer of  *)
(* the AVIOContext, which is given to write_packet when it is full, before *)
(* every seek, and when it is flushed.                                     *)
(***************************************************************************)
EXTENDS Runs

CONSTANTS Bytes, Zero,
          MaxI64,
          Offsets,         \* the offsets FFmpeg seeks to
          AVIO_BUFFER_SIZE,
          InputLengths,    \* of the inputs of load_bytes
          MaxFile          \* bound: the length of the file written

ASSUME ByteIOAssumption ==
    /\ InputLengths \subseteq Nat
    /\ Offsets \subseteq Int
    /\ AVIO_BUFFER_SIZE \in Nat \ {0}
    /\ MaxI64 \in Nat

VARIABLES len, read_pos,       \* ReadCursor
          data, write_pos,     \* WriteSink
          buffer,              \* the AVIOContext's write buffer
          stage,               \* of save_bytes: "muxing", "flushed" or "done"
          bytes                \* what save_bytes returned

readVars == <<len, read_pos>>
writeVars == <<data, write_pos, buffer, stage, bytes>>
vars == <<readVars, writeVars>>

Refused == -1                  \* AVERROR(EINVAL)
Whences == {"SEEK_SET", "SEEK_CUR", "SEEK_END", "other"}
-----------------------------------------------------------------------------
\* base.checked_add(offset), None past MaxI64 or for another whence.
SeekTarget(pos, length, offset, whence) ==
    LET base == [SEEK_SET |-> 0, SEEK_CUR |-> pos, SEEK_END |-> length]
    IN  IF whence \notin DOMAIN base \/ base[whence] + offset > MaxI64
        THEN Refused ELSE base[whence] + offset

\* Mutant: a position before the start is not refused.
ResolveSeekBeforeStart(pos, length, offset, whence, allow_past_end) ==
    LET target == SeekTarget(pos, length, offset, whence)
    IN  IF ~allow_past_end /\ target > length THEN Refused ELSE target

\* Mutant: readers may seek past the end too.
ResolveSeekPastEnd(pos, length, offset, whence, allow_past_end) ==
    LET target == SeekTarget(pos, length, offset, whence)
    IN  IF target < 0 THEN Refused ELSE target

\* resolve_seek.
ResolveSeek(pos, length, offset, whence, allow_past_end) ==
    LET target == SeekTarget(pos, length, offset, whence)
    IN  IF target < 0 \/ (~allow_past_end /\ target > length)
        THEN Refused ELSE target

\* Where a seek leaves a cursor that was at pos.
Moved(pos, target) == IF target = Refused THEN pos ELSE target

\* Mutant: the vector is cut to the end of the bytes written.
OverwrittenTail(old, at, new) ==
    [i \in 1..at + Len(new) |->
        IF i > at THEN new[i - at]
        ELSE IF i <= Len(old) THEN old[i] ELSE Zero]

\* old after write_packet(new) at the position at: resize, then copy.  A call
\* without bytes does nothing.
Overwritten(old, at, new) ==
    IF new = << >> THEN old
    ELSE [i \in 1..Larger(Len(old), at + Len(new)) |->
             IF i \in at + 1 .. at + Len(new) THEN new[i - at]
             ELSE IF i <= Len(old) THEN old[i] ELSE Zero]
-----------------------------------------------------------------------------
Init ==
    /\ len \in InputLengths
    /\ read_pos = 0
    /\ data = << >>
    /\ write_pos = 0
    /\ buffer = << >>
    /\ stage = "muxing"
    /\ bytes = << >>

\* read_packet: the bytes from read_pos on, or AVERROR_EOF.
ReadPacket(buf_size) ==
    /\ read_pos < len
    /\ read_pos' = read_pos + Smaller(len - read_pos, buf_size)
    /\ UNCHANGED <<len, writeVars>>

\* read_seek.
ReadSeek(offset, whence) ==
    /\ read_pos' = Moved(read_pos,
                         ResolveSeek(read_pos, len, offset, whence, FALSE))
    /\ UNCHANGED <<len, writeVars>>

\* The muxer writes a byte; it stays in the AVIOContext's buffer.
Put(b) ==
    /\ stage = "muxing"
    /\ Len(buffer) < AVIO_BUFFER_SIZE
    /\ write_pos + Len(buffer) < MaxFile
    /\ buffer' = Append(buffer, b)
    /\ UNCHANGED <<readVars, data, write_pos, stage, bytes>>

\* write_packet with the buffer.
WritePacket ==
    /\ data' = Overwritten(data, write_pos, buffer)
    /\ write_pos' = write_pos + Len(buffer)
    /\ buffer' = << >>
    /\ UNCHANGED <<readVars, bytes>>

\* The buffer is full, or the muxer flushes it.
WriteBuffer ==
    /\ stage = "muxing"
    /\ buffer # << >>
    /\ WritePacket
    /\ UNCHANGED stage

\* write_seek, once the buffer is written.
WriteSeek(offset, whence) ==
    /\ stage = "muxing"
    /\ buffer = << >>
    /\ write_pos' = Moved(write_pos,
            ResolveSeek(write_pos, Len(data), offset, whence, TRUE))
    /\ UNCHANGED <<readVars, data, buffer, stage, bytes>>

\* run_encode is done; avio_flush.
AvioFlush ==
    /\ stage = "muxing"
    /\ WritePacket
    /\ stage' = "flushed"

\* drop(out_ctx), which leaves the borrowed AVIOContext alone; into_bytes.
IntoBytes ==
    /\ stage = "flushed"
    /\ bytes' = data
    /\ stage' = "done"
    /\ UNCHANGED <<readVars, data, write_pos, buffer>>

Next ==
    \/ \E n \in 1..AVIO_BUFFER_SIZE : ReadPacket(n)
    \/ \E offset \in Offsets, whence \in Whences :
          ReadSeek(offset, whence) \/ WriteSeek(offset, whence)
    \/ \E b \in Bytes : Put(b)
    \/ WriteBuffer \/ AvioFlush \/ IntoBytes

Spec == Init /\ [][Next]_vars
-----------------------------------------------------------------------------
TypeOK ==
    /\ len \in InputLengths
    /\ read_pos \in Nat
    /\ data \in Seq(Bytes \cup {Zero}) /\ write_pos \in Nat
    /\ buffer \in Seq(Bytes) /\ Len(buffer) <= AVIO_BUFFER_SIZE
    /\ stage \in {"muxing", "flushed", "done"}
    /\ bytes \in Seq(Bytes \cup {Zero})

\* The read cursor stays inside the input, whatever seeks are asked of it, so
\* that len - pos never wraps and read_packet copies only input bytes.
CursorInBounds == read_pos <= len

\* The bytes of a sequence by their offset.
AsFile(s) == [i \in 0..Len(s) - 1 |-> s[i + 1]]

\* The sink and the buffer in front of it are a file to the muxer, and
\* save_bytes returns all of it.
Promise == INSTANCE ByteFile WITH
    contents <- AsFile(Overwritten(data, write_pos, buffer)),
    cursor <- write_pos + Len(buffer),
    returned <- AsFile(bytes)

KeepsPromise == Promise!Spec
=============================================================================
