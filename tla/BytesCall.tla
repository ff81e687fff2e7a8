------------------------------ MODULE BytesCall -----------------------------
(***************************************************************************)
(* A whole call of the library: Ownership with the callbacks of ByteIO.    *)
(* FFmpeg calls them only from the steps that work through the pb of the   *)
(* format context, any number of times; what they read or write is in the  *)
(* cursor or the sink that Ownership says is alive.                        *)
(***************************************************************************)
EXTENDS ByteIO, Ownership

callVars == <<vars, ownVars>>

\* The steps during which the muxer writes.
Muxing == /\ Running
          /\ Now.fn \in {"avformat_write_header", "encode_loop",
                           "av_write_trailer"}
          /\ call = "save_bytes"
-----------------------------------------------------------------------------
CallInit ==
    /\ Init
    /\ OwnInit
    /\ call \notin {"load_bytes", "info_bytes"} => len = 0

ReadCallback ==
    /\ "cursor" \in Touched
    /\ pb = "avio"
    /\ \/ \E n \in 1..AVIO_BUFFER_SIZE : ReadPacket(n)
       \/ \E offset \in Offsets, whence \in Whences : ReadSeek(offset, whence)
    /\ UNCHANGED ownVars

WriteCallback ==
    /\ Muxing
    /\ \/ \E b \in Bytes : Put(b)
       \/ WriteBuffer
       \/ \E offset \in Offsets, whence \in Whences : WriteSeek(offset, whence)
    /\ UNCHANGED ownVars

FlushSink == Running /\ Now.fn = "avio_flush" /\ Succeed /\ AvioFlush

TakeBytes == Running /\ Now.fn = "take" /\ Succeed /\ IntoBytes

OwnershipStep ==
    /\ OwnNext
    /\ Running => Now.fn \notin {"avio_flush", "take"}
    /\ UNCHANGED vars

CallNext == \/ ReadCallback \/ WriteCallback \/ FlushSink \/ TakeBytes
            \/ OwnershipStep

CallSpec == CallInit /\ [][CallNext]_callVars
=============================================================================
