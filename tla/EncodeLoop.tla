----------------------------- MODULE EncodeLoop -----------------------------
(***************************************************************************)
(* run_encode() and encode_loop() of encoder.rs: cut the buffer into       *)
(* chunks, push each through the resampler into the FIFO, encode a frame   *)
(* whenever the FIFO holds one, drain the resampler, encode what remains,  *)
(* flush the encoder and write the trailer.                                *)
(*                                                                         *)
(* FFmpeg is the environment: the resampler holds back up to SwrLag        *)
(* frames, the encoder EncDelay encoder frames, until they are flushed;    *)
(* every call in job.faulty may fail.  The sample rates are equal and the  *)
(* channels alike.                                                         *)
(***************************************************************************)
EXTENDS Runs

CONSTANTS Jobs,            \* buffers and encoders, see SavePromise
          Half,            \* 2^31: where `as i32` wraps
          CHUNK_FRAMES, SwrLag, EncDelay

ASSUME EncodeBounds ==
    /\ Half \in Nat /\ Half > 0
    /\ CHUNK_FRAMES \in Nat /\ CHUNK_FRAMES > 0
    /\ SwrLag \in Nat /\ EncDelay \in Nat

\* An encoder without a frame size of its own is given DEFAULT_FRAME_SIZE.
ASSUME EncodeJobs ==
    \A j \in Jobs : /\ j.frames \in Nat
                    /\ j.frame_size \in Nat /\ j.frame_size > 0

VARIABLES job,
          pc,              \* where in run_encode / encode_loop control is
          chunk_start, pts_counter,
          held,            \* frames inside the resampler
          fifo,            \* frames inside the AVAudioFifo
          enc, flushed,    \* encoder frames inside the encoder; NULL was sent
          packets          \* packets given to av_interleaved_write_frame

vars == <<job, pc, chunk_start, pts_counter, held, fifo, enc, flushed, packets>>
-----------------------------------------------------------------------------
\* i64 as i32.
AsI32(n) == LET low == n % (2 * Half)
            IN  IF low < Half THEN low ELSE low - 2 * Half

\* Mutant: the remainder of the buffer does not cut the last chunk short.
UnclampedChunk == CHUNK_FRAMES

chunk == Smaller(AsI32(job.frames - chunk_start), CHUNK_FRAMES)

\* Where send_frame_and_drain returns to.
AfterDrain == [frame_out |-> "frames", rest_out |-> "rest",
               null_out |-> "trailer"]

\* The FFmpeg calls made at each place.  Besides those of job.faulty,
\* swr_get_out_samples fails (EINVAL) on a negative count.
CallsAt == [open |-> {"setup"}, push |-> {"convert", "get_out"},
            frames |-> {"encode"}, drain |-> {"convert"}, rest |-> {"encode"},
            flush |-> {"encode"}, frame_out |-> {"write"},
            rest_out |-> {"write"}, null_out |-> {"write"},
            trailer |-> {"trailer"}]
Failing == job.faulty \cup (IF chunk < 0 THEN {"get_out"} ELSE {})
-----------------------------------------------------------------------------
Init ==
    /\ job \in Jobs
    /\ pc = "open"
    /\ chunk_start = 0 /\ pts_counter = 0
    /\ held = << >> /\ fifo = << >>
    /\ enc = << >> /\ flushed = FALSE
    /\ packets = << >>

\* The output, the encoder, the header, the resampler and the FIFO.
Setup ==
    /\ pc = "open"
    /\ pc' = "push"
    /\ UNCHANGED <<job, chunk_start, pts_counter, held, fifo, enc, flushed,
                   packets>>

\* push_through_swr with a chunk of the buffer: one swr_convert, whose output
\* goes to the FIFO.  A chunk of 0 frames is taken for a drain, but its planes
\* are not NULL, so swr_convert flushes nothing.
Push ==
    /\ pc = "push"
    /\ chunk_start < job.frames
    /\ chunk >= 0
    /\ LET input == held \o Run(chunk_start, chunk)
       IN  \E ready \in Larger(0, Len(input) - SwrLag)..Len(input) :
              /\ fifo' = fifo \o SubSeq(input, 1, ready)
              /\ held' = Dropped(input, ready)
    /\ pc' = "frames"
    /\ UNCHANGED <<job, chunk_start, pts_counter, enc, flushed, packets>>

\* encode_one_frame, up to avcodec_send_frame: n frames leave the FIFO.  An
\* encoder with a packet ready refuses the frame (EAGAIN); the code drops it.
EncodeOne(n) ==
    /\ fifo' = Dropped(fifo, n)
    /\ pts_counter' = pts_counter + n
    /\ LET frame == [pts |-> pts_counter, frames |-> SubSeq(fifo, 1, n)]
       IN  enc' = IF Len(enc) > EncDelay THEN enc ELSE Append(enc, frame)
    /\ UNCHANGED <<job, chunk_start, held, flushed, packets>>

\* while fifo.size() >= frame_size
EncodeFull ==
    /\ pc = "frames"
    /\ Len(fifo) >= job.frame_size
    /\ EncodeOne(job.frame_size)
    /\ pc' = "frame_out"

\* Mutant: `if` in place of `while`, a chunk need not empty the FIFO.
NextChunkEarly ==
    /\ pc = "frames"
    /\ chunk_start' = chunk_start + chunk
    /\ pc' = "push"
    /\ UNCHANGED <<job, pts_counter, held, fifo, enc, flushed, packets>>

NextChunk ==
    /\ pc = "frames"
    /\ Len(fifo) < job.frame_size
    /\ chunk_start' = chunk_start + chunk
    /\ pc' = "push"
    /\ UNCHANGED <<job, pts_counter, held, fifo, enc, flushed, packets>>

LastChunkDone ==
    /\ pc = "push"
    /\ chunk_start >= job.frames
    /\ pc' = "drain"
    /\ UNCHANGED <<job, chunk_start, pts_counter, held, fifo, enc, flushed,
                   packets>>

\* push_through_swr without input: swr_convert gives out n held frames, and
\* the loop goes on.
DrainSwr(n) ==
    /\ pc = "drain"
    /\ n <= Len(held)
    /\ fifo' = fifo \o SubSeq(held, 1, n)
    /\ held' = Dropped(held, n)
    /\ UNCHANGED <<job, pc, chunk_start, pts_counter, enc, flushed, packets>>

\* Mutant: the resampler is drained once at most.
SwrPartlyDrained ==
    /\ pc = "drain"
    /\ pc' = "rest"
    /\ UNCHANGED <<job, chunk_start, pts_counter, held, fifo, enc, flushed,
                   packets>>

SwrDrained ==
    /\ pc = "drain"
    /\ held = << >>
    /\ pc' = "rest"
    /\ UNCHANGED <<job, chunk_start, pts_counter, held, fifo, enc, flushed,
                   packets>>

EncodeRest ==
    /\ pc = "rest"
    /\ fifo # << >>
    /\ EncodeOne(Smaller(Len(fifo), job.frame_size))
    /\ pc' = "rest_out"

RestDone ==
    /\ pc = "rest"
    /\ fifo = << >>
    /\ pc' = "flush"
    /\ UNCHANGED <<job, chunk_start, pts_counter, held, fifo, enc, flushed,
                   packets>>

\* The NULL frame.
FlushEncoder ==
    /\ pc = "flush"
    /\ flushed' = TRUE
    /\ pc' = "null_out"
    /\ UNCHANGED <<job, chunk_start, pts_counter, held, fifo, enc, packets>>

PacketReady == Len(enc) > (IF flushed THEN 0 ELSE EncDelay)

\* avcodec_receive_packet returns a packet, and it is written.
WritePacket ==
    /\ pc \in DOMAIN AfterDrain
    /\ PacketReady
    /\ packets' = Append(packets, Head(enc))
    /\ enc' = Tail(enc)
    /\ UNCHANGED <<job, pc, chunk_start, pts_counter, held, fifo, flushed>>

\* Mutant: only EAGAIN ends the drain, not the end of the stream.
DrainedUnlessEof ==
    /\ pc \in DOMAIN AfterDrain
    /\ ~PacketReady
    /\ pc' = IF flushed THEN pc ELSE AfterDrain[pc]
    /\ UNCHANGED <<job, chunk_start, pts_counter, held, fifo, enc, flushed,
                   packets>>

\* EAGAIN or EOF.
Drained ==
    /\ pc \in DOMAIN AfterDrain
    /\ ~PacketReady
    /\ pc' = AfterDrain[pc]
    /\ UNCHANGED <<job, chunk_start, pts_counter, held, fifo, enc, flushed,
                   packets>>

WriteTrailer ==
    /\ pc = "trailer"
    /\ pc' = "ok"
    /\ UNCHANGED <<job, chunk_start, pts_counter, held, fifo, enc, flushed,
                   packets>>

\* Any failed call ends the save with its error.
Fail ==
    /\ pc \in DOMAIN CallsAt
    /\ Failing \cap CallsAt[pc] # {}
    /\ pc' = "err"
    /\ UNCHANGED <<job, chunk_start, pts_counter, held, fifo, enc, flushed,
                   packets>>

Returned ==
    /\ pc \in {"ok", "err"}
    /\ UNCHANGED vars

Next ==
    \/ Setup \/ Push \/ EncodeFull \/ NextChunk \/ LastChunkDone
    \/ \E n \in 1..Len(held) : DrainSwr(n)
    \/ SwrDrained \/ EncodeRest \/ RestDone \/ FlushEncoder
    \/ WritePacket \/ Drained \/ WriteTrailer \/ Fail \/ Returned

Spec == Init /\ [][Next]_vars

\* One thread runs the loop and every FFmpeg call returns.
FairSpec == Spec /\ WF_vars(Next)
-----------------------------------------------------------------------------
Positions == 0..job.frames - 1
Frames == [pts : Positions, frames : Seq(Positions)]

TypeOK ==
    /\ job \in Jobs
    /\ pc \in DOMAIN CallsAt \cup {"ok", "err"}
    /\ chunk_start \in 0..job.frames
    /\ pts_counter \in 0..job.frames
    /\ held \in Seq(Positions) /\ fifo \in Seq(Positions)
    /\ enc \in Seq(Frames) /\ packets \in Seq(Frames)
    /\ flushed \in BOOLEAN

\* The FIFO and the resampler together never hold more than an encoder frame
\* less one and a chunk: the memory a save takes beside the buffer does not
\* grow with the buffer (the inner while of encode_loop).
FifoBounded == Len(fifo) + Len(held) < job.frame_size + SwrLag + CHUNK_FRAMES

\* save() refines its promise: all of the buffer, once, in order, in full
\* encoder frames with contiguous PTS, in whatever portions the chunks, the
\* resampler and the encoder pass it on; and no error of its own making.
Promise == INSTANCE SavePromise WITH
    outcome <- IF pc \in {"ok", "err"} THEN pc ELSE "pending"

KeepsPromise == Promise!Spec

\* The call returns.
Terminates == <>(pc \in {"ok", "err"})
=============================================================================
