----------------------------- MODULE DecodeLoop -----------------------------
(***************************************************************************)
(* load_from_ctx() and decode() of loader.rs: seek, then read packets,     *)
(* send them to the decoder, receive frames, cut each frame to the window  *)
(* asked for by its PTS, push what is left through the resampler into the  *)
(* output storage, and flush the resampler at the end.                     *)
(*                                                                         *)
(* FFmpeg is the environment.  The demuxer cuts the file into packets of   *)
(* any size up to MaxPacket, the decoder holds back up to DecDelay frames  *)
(* until it is flushed and returns frames of any size up to MaxFrame, the  *)
(* resampler holds back SwrLag frames, and every call in Faults may fail.  *)
(* Sample rates are equal and channels are alike: both are data here.      *)
(***************************************************************************)
EXTENDS LoadRequest

CONSTANTS Half,          \* 2^63: where `as i64` wraps
          TickNum,       \* the stream time base is TickNum / TickDen
          TickDen,       \*   source frames per tick
          MaxPacket, MaxFrame, DecDelay, SwrLag,
          MaxOthers,     \* packets of other streams met on the way
          Faults         \* FFmpeg calls that may fail

VARIABLES job,              \* the file and the LoadOptions
          pc,               \* where in load_from_ctx / decode control is
          demux,            \* position of the next packet in the file
          others,           \* packets of other streams still to come
          dec,              \* frames sent to the decoder, not yet received
          eof_sent, decoded_src_pos, consumed_in, total_frames,
          storage,          \* chbuf_planar / chbuf_packed
          held              \* frames inside the resampler

vars == <<job, pc, demux, others, dec, eof_sent, decoded_src_pos,
          consumed_in, total_frames, storage, held>>
-----------------------------------------------------------------------------
\* u64 as i64, and i64::saturating_add.
MaxI64 == Half - 1
AsI64(u) == IF u < Half THEN u ELSE u - 2 * Half
SaturatingAdd(a, b) == Larger(-Half, Smaller(MaxI64, a + b))

\* av_rescale_q: a * num / den, rounded to the nearest, halves away from 0.
Rescale(a, num, den) ==
    IF a >= 0 THEN (a * num + den \div 2) \div den
              ELSE -((-a * num + den \div 2) \div den)

\* The PTS the container gives the frame at position p.
PtsOf(j, p) == Rescale(p + j.first, TickDen, TickNum)

\* Mutant: the window is taken to include the frame at its end.
InclusiveTargetEnd ==
    IF job.num_frames = NoLimit THEN MaxI64
    ELSE SaturatingAdd(AsI64(job.frame_offset), AsI64(job.num_frames)) + 1

target_start == AsI64(job.frame_offset)
target_end == IF job.num_frames = NoLimit THEN MaxI64
              ELSE SaturatingAdd(target_start, AsI64(job.num_frames))

\* Where the code takes a received frame that starts at position p to start.
PtsOffset(p, stamped) ==
    IF stamped THEN Rescale(PtsOf(job, p), TickNum, TickDen)
               ELSE decoded_src_pos

\* T::default(), no frame of the file.
Filler == -1

\* grow_storage / Vec::resize, the writes of swr_convert, truncate_storage.
Resized(s, n) == [i \in 1..n |-> IF i <= Len(s) THEN s[i] ELSE Filler]
Written(s, at, new) ==
    [i \in 1..Len(s) |-> IF i \in at + 1 .. at + Len(new) THEN new[i - at]
                                                          ELSE s[i]]
\* Mutant: the unused tail of the grown storage is kept.
NotTruncated(s, n) == s

Truncated(s, n) == SubSeq(s, 1, Smaller(n, Len(s)))

\* storage after room was made for `room` frames and swr_convert wrote new.
Stored(new, room) ==
    Truncated(Written(Resized(storage, total_frames + room), total_frames, new),
              total_frames + Len(new))

\* How many of n buffered frames the resampler gives out while not flushed.
SwrReady(n) == Larger(0, n - SwrLag)
-----------------------------------------------------------------------------
Init ==
    /\ job \in Jobs
    /\ pc = "seek"
    /\ demux = 0
    /\ others = MaxOthers
    /\ dec = << >>
    /\ eof_sent = FALSE
    /\ decoded_src_pos = 0
    /\ consumed_in = 0
    /\ total_frames = 0
    /\ storage = << >>
    /\ held = << >>

NoSeek ==
    /\ pc = "seek"
    /\ job.frame_offset = 0
    /\ pc' = "read"
    /\ UNCHANGED <<job, demux, others, dec, eof_sent, decoded_src_pos,
                   consumed_in, total_frames, storage, held>>

\* Mutant: the seek without the BACKWARD flag.
ForwardLandings ==
    {p \in 0..job.total :
        PtsOf(job, p) >= Rescale(target_start, TickDen, TickNum)}

\* av_seek_frame(AVSEEK_FLAG_BACKWARD) lands on the start of the file or on
\* some packet whose PTS is not after the target.
SeekLandings ==
    {p \in 0..job.total :
        p = 0 \/ PtsOf(job, p) <= Rescale(target_start, TickDen, TickNum)}

\* The seek, and avcodec_flush_buffers.
Seek ==
    /\ pc = "seek"
    /\ job.frame_offset > 0
    /\ demux' \in SeekLandings
    /\ dec' = << >>
    /\ pc' = "read"
    /\ UNCHANGED <<job, others, eof_sent, decoded_src_pos, consumed_in,
                   total_frames, storage, held>>

ReadEof ==
    /\ pc = "read"
    /\ demux = job.total
    /\ eof_sent' = TRUE
    /\ pc' = "receive"
    /\ UNCHANGED <<job, demux, others, dec, decoded_src_pos, consumed_in,
                   total_frames, storage, held>>

ReadOther ==
    /\ pc = "read"
    /\ others > 0
    /\ others' = others - 1
    /\ UNCHANGED <<job, pc, demux, dec, eof_sent, decoded_src_pos,
                   consumed_in, total_frames, storage, held>>

\* A packet of n frames is read and sent.  The decoder refuses it (EAGAIN)
\* while a frame is ready to be received; the code drops a refused packet.
ReadPacket(n) ==
    /\ pc = "read"
    /\ n <= job.total - demux
    /\ demux' = demux + n
    /\ dec' = IF Len(dec) > DecDelay THEN dec ELSE dec \o Run(demux, n)
    /\ pc' = "receive"
    /\ UNCHANGED <<job, others, eof_sent, decoded_src_pos, consumed_in,
                   total_frames, storage, held>>

FrameReady == Len(dec) > (IF eof_sent THEN 0 ELSE DecDelay)

\* Mutant: the end of the stream is taken for EAGAIN.
ReceiveNothingMissingEof ==
    /\ pc = "receive"
    /\ ~FrameReady
    /\ pc' = "read"
    /\ UNCHANGED <<job, demux, others, dec, eof_sent, decoded_src_pos,
                   consumed_in, total_frames, storage, held>>

\* EAGAIN: read on.  EOF: the loop is over.
ReceiveNothing ==
    /\ pc = "receive"
    /\ ~FrameReady
    /\ pc' = IF eof_sent THEN "flush" ELSE "read"
    /\ UNCHANGED <<job, demux, others, dec, eof_sent, decoded_src_pos,
                   consumed_in, total_frames, storage, held>>

\* A frame of n samples is received; [in_start, in_end) is its intersection
\* with the window.
Receive(n, stamped) ==
    /\ pc = "receive"
    /\ FrameReady
    /\ n <= Len(dec)
    /\ stamped \/ ~job.stamped
    /\ dec' = Dropped(dec, n)
    /\ LET pts_offset == PtsOffset(Head(dec), stamped)
           frame_end == pts_offset + n
           in_start == Larger(pts_offset, target_start)
           in_end == Smaller(frame_end, target_end)
           input == held \o SubSeq(dec, in_start - pts_offset + 1,
                                        in_end - pts_offset)
           ready == SwrReady(Len(input))
       IN  /\ decoded_src_pos' = frame_end
           /\ \/ /\ in_start >= in_end
                 /\ pc' = IF pts_offset >= target_end THEN "flush" ELSE pc
                 /\ UNCHANGED <<consumed_in, total_frames, storage, held>>
              \/ /\ in_start < in_end
                 /\ storage' = Stored(SubSeq(input, 1, ready), Len(input))
                 /\ total_frames' = total_frames + ready
                 /\ held' = Dropped(input, ready)
                 /\ consumed_in' = consumed_in + (in_end - in_start)
                 /\ pc' = IF /\ job.num_frames # NoLimit
                             /\ consumed_in' >= job.num_frames
                          THEN "flush" ELSE pc
    /\ UNCHANGED <<job, demux, others, eof_sent>>

\* swr_get_out_samples(0) > 0: swr_convert(NULL) gives out n held frames.
Flush(n) ==
    /\ pc = "flush"
    /\ n <= Len(held)
    /\ storage' = Stored(SubSeq(held, 1, n), Len(held))
    /\ total_frames' = total_frames + n
    /\ held' = Dropped(held, n)
    /\ UNCHANGED <<job, pc, demux, others, dec, eof_sent, decoded_src_pos,
                   consumed_in>>

\* converted <= 0, a failed flush: the room made for what was to come is taken
\* back, and the call returns what it has.
FlushFails ==
    /\ pc = "flush"
    /\ held # << >>
    /\ ~job.flushes
    /\ storage' = Stored(<< >>, Len(held))
    /\ pc' = "ok"
    /\ UNCHANGED <<job, demux, others, dec, eof_sent, decoded_src_pos,
                   consumed_in, total_frames, held>>

\* Nothing left to flush.
Finish ==
    /\ pc = "flush"
    /\ held = << >>
    /\ pc' = "ok"
    /\ UNCHANGED <<job, demux, others, dec, eof_sent, decoded_src_pos,
                   consumed_in, total_frames, storage, held>>

\* A file that cannot be opened, has no audio or no decoder (setup), a failed
\* av_seek_frame, av_read_frame, avcodec_send_packet, avcodec_receive_frame or
\* swr_convert ends the call with an error.
Fail ==
    /\ \/ pc = "seek" /\ "setup" \in Faults
       \/ pc = "seek" /\ job.frame_offset > 0 /\ "seek" \in Faults
       \/ pc = "read" /\ Faults \cap {"read", "send"} # {}
       \/ pc = "receive" /\ Faults \cap {"receive", "convert"} # {}
    /\ pc' = "err"
    /\ UNCHANGED <<job, demux, others, dec, eof_sent, decoded_src_pos,
                   consumed_in, total_frames, storage, held>>

Returned ==
    /\ pc \in {"ok", "err"}
    /\ UNCHANGED vars

Next ==
    \/ NoSeek \/ Seek
    \/ ReadEof \/ ReadOther \/ \E n \in 1..MaxPacket : ReadPacket(n)
    \/ ReceiveNothing
    \/ \E n \in 1..MaxFrame, stamped \in BOOLEAN : Receive(n, stamped)
    \/ \E n \in 1..Len(held) : Flush(n)
    \/ FlushFails \/ Finish \/ Fail \/ Returned

Spec == Init /\ [][Next]_vars

\* One thread runs the loop and every FFmpeg call returns, so some step is
\* always taken until the call returns.
FairSpec == Spec /\ WF_vars(Next)
-----------------------------------------------------------------------------
TypeOK ==
    /\ job \in Jobs
    /\ pc \in {"seek", "read", "receive", "flush", "ok", "err"}
    /\ demux \in 0..job.total
    /\ others \in 0..MaxOthers
    /\ dec \in Seq(Int) /\ storage \in Seq(Int) /\ held \in Seq(Int)
    /\ eof_sent \in BOOLEAN
    /\ decoded_src_pos \in Int
    /\ consumed_in \in Nat
    /\ total_frames = Len(storage)

\* LoadOptions::num_frames is the maximum number of frames to decode: the
\* loop never hands the resampler more frames than that, however the file is
\* cut into packets and the decoder into frames.
NumFramesIsACap ==
    job.num_frames # NoLimit => consumed_in <= job.num_frames

\* load() refines its promise: at every moment the storage holds an initial
\* piece of the window asked for, and a call that returns Ok returns all of
\* it, whatever the packets, the frames and the seek do, or, when the flush of
\* the resampler fails, all but what the resampler held back.
Promise == INSTANCE LoadPromise WITH
    Withheld <- SwrLag,
    delivered <- storage,
    outcome <- IF pc \in {"ok", "err"} THEN pc ELSE "pending"

KeepsPromise == Promise!Spec

\* The call returns: the loop never spins on a decoder that has nothing, and
\* never waits for frames past the end of the window.
Terminates == <>(pc \in {"ok", "err"})

\* The first frame read after a seek is not past the window's first one, so
\* that no frame of the window is skipped (loader.rs: "A seek with the BACKWARD
\* flag may land before the requested position at an earlier keyframe; the
\* decode loop uses each frame's PTS to narrow the window").
SeekLandsBeforeWindow ==
    [][pc = "seek" /\ pc' = "read" => demux' <= job.frame_offset]_vars

\* frame_offset is the number of frames to skip from the start.
SkipsFrameOffset ==
    pc = "ok" /\ storage # << >> => storage[1] = job.frame_offset

=============================================================================
