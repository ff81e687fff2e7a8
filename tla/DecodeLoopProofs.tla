-------------------------- MODULE DecodeLoopProofs --------------------------
(***************************************************************************)
(* For every file, every way FFmpeg may cut it up and every window below   *)
(* 2^63: load() keeps its promise, provided the stream's PTS are exact.    *)
(***************************************************************************)
EXTENDS DecodeLoop, RunLemmas

ASSUME BoundsAssumption ==
    /\ Half \in Nat /\ Half > 0
    /\ MaxPacket \in Nat /\ MaxFrame \in Nat
    /\ DecDelay \in Nat /\ SwrLag \in Nat /\ MaxOthers \in Nat
    /\ NoLimit \notin Nat

\* The jobs lib.rs lets through (num_frames is not 0) whose numbers fit an
\* i64; a stream without PTS is loaded from its start.
ASSUME JobsAssumption ==
    \A j \in Jobs :
        /\ j.total \in Nat /\ j.total < Half
        /\ j.frame_offset \in Nat /\ j.frame_offset < Half
        /\ j.num_frames # NoLimit =>
              j.num_frames \in Nat /\ j.num_frames > 0 /\ j.num_frames < Half
        /\ j.stamped \in BOOLEAN
        /\ ~j.stamped => j.frame_offset = 0

\* The time base is fine enough for every PTS to name its frame, and the
\* stream starts at PTS 0.
ASSUME ExactTimeBase ==
    \A j \in Jobs : \A p \in 0..j.total :
        /\ Rescale(PtsOf(j, p), TickNum, TickDen) = p
        /\ PtsOf(j, p) <= Rescale(j.frame_offset, TickDen, TickNum)
              => p <= j.frame_offset
-----------------------------------------------------------------------------
\* The position of the next frame the decoder will give out.
Upcoming == demux - Len(dec)

\* Audio is nowhere reordered, lost or repeated: in the decoder, in the
\* storage and in the resampler there are runs that meet.
Gapless ==
    /\ Upcoming >= 0
    /\ dec = Run(Upcoming, Len(dec))
    /\ storage = Run(job.frame_offset, total_frames)
    /\ held = Run(job.frame_offset + total_frames, Len(held))
    /\ consumed_in = total_frames + Len(held)

\* What each place in the loop knows.
Progress ==
    /\ consumed_in <= WindowLength(job)
    /\ pc = "seek" => /\ demux = 0 /\ Len(dec) = 0 /\ consumed_in = 0
                      /\ decoded_src_pos = 0 /\ ~eof_sent
    /\ pc = "read" => Len(dec) <= DecDelay /\ ~eof_sent
    /\ eof_sent => demux = job.total
    /\ pc \in {"read", "receive"} =>
         /\ consumed_in = Larger(0, Upcoming - job.frame_offset)
         /\ job.num_frames # NoLimit => consumed_in < job.num_frames
         /\ ~job.stamped => decoded_src_pos = Upcoming
    /\ pc \in {"flush", "ok"} => consumed_in = WindowLength(job)
    /\ Len(held) <= SwrLag
    /\ pc = "ok" /\ job.flushes => Len(held) = 0

IInv == TypeOK /\ Gapless /\ Progress
-----------------------------------------------------------------------------
\* Growing the storage, converting into it and truncating it appends exactly
\* the frames swr_convert gave out: no filler stays, nothing is overwritten.
LEMMA StoredAppends ==
  ASSUME NEW a \in Int, NEW k \in Nat, NEW room \in Nat, k <= room,
         NEW t \in Nat, t = total_frames, storage = Run(a, t)
  PROVE  Stored(Run(a + t, k), room) = Run(a, t + k)
<1>1. /\ storage \in Seq(Int) /\ Len(storage) = t
      /\ \A i \in 1..t : storage[i] = a + i - 1
  BY RunType
<1>2. ASSUME NEW new \in Seq(Int), Len(new) = k,
             \A i \in 1..k : new[i] = (a + t) + i - 1,
             NEW s \in Seq(Int), Len(s) = t, \A i \in 1..t : s[i] = a + i - 1,
             NEW g, g = Resized(s, t + room),
             NEW w, w = Written(g, t, new)
      PROVE  Truncated(w, t + k) = Run(a, t + k)
  <2>1. Len(g) = t + room /\ \A i \in 1..t : g[i] = s[i]
    BY <1>2 DEF Resized
  <2>2. /\ Len(w) = t + room
        /\ \A i \in 1..t + room :
              w[i] = IF i \in t + 1 .. t + k THEN new[i - t] ELSE g[i]
    BY <1>2, <2>1 DEF Written
  <2>3. ASSUME NEW i \in 1..t + k PROVE w[i] = a + i - 1
    <3>0. i \in 1..t + room
      OBVIOUS
    <3>1. CASE i <= t
      <4>1. w[i] = g[i]
        BY <2>2, <3>0, <3>1
      <4> QED BY <1>2, <2>1, <3>1, <4>1
    <3>2. CASE ~(i <= t)
      <4>1. i - t \in 1..k /\ i \in t + 1 .. t + k
        BY <3>2
      <4>2. w[i] = new[i - t]
        BY <2>2, <3>0, <4>1
      <4>3. new[i - t] = (a + t) + (i - t) - 1
        BY <1>2, <4>1
      <4> QED BY <4>2, <4>3
    <3> QED BY <3>1, <3>2
  <2>4. \A i \in 1..t + k : w[i] \in Int
    BY <2>3
  <2>5. t + k \in Int /\ 1 \in Int /\ t + k \in Nat
    OBVIOUS
  <2>6. /\ SubSeq(w, 1, t + k) \in Seq(Int)
        /\ Len(SubSeq(w, 1, t + k)) = IF 1 <= t + k THEN t + k - 1 + 1 ELSE 0
        /\ \A i \in 1..t + k - 1 + 1 : SubSeq(w, 1, t + k)[i] = w[1 + i - 1]
    BY <2>4, <2>5, SubSeqProperties
  <2>7. /\ Len(SubSeq(w, 1, t + k)) = t + k
        /\ \A i \in 1..t + k : SubSeq(w, 1, t + k)[i] = a + i - 1
    BY <2>3, <2>6
  <2>8. SubSeq(w, 1, t + k) = Run(a, t + k)
    BY <2>5, <2>6, <2>7, IsRun, Zenon
  <2> QED BY <2>2, <2>8 DEF Truncated, Smaller
<1>3. a + t \in Int
  OBVIOUS
<1>4. /\ Run(a + t, k) \in Seq(Int) /\ Len(Run(a + t, k)) = k
      /\ \A i \in 1..k : Run(a + t, k)[i] = (a + t) + i - 1
  BY <1>3, RunType, Zenon
<1>5. Truncated(Written(Resized(storage, t + room), t, Run(a + t, k)), t + k)
        = Run(a, t + k)
  BY <1>1, <1>2, <1>4, Zenon
<1>6. Stored(Run(a + t, k), room)
        = Truncated(Written(Resized(storage, t + room), t, Run(a + t, k)),
                    t + Len(Run(a + t, k)))
  BY DEF Stored
<1> QED BY <1>4, <1>5, <1>6, Zenon
-----------------------------------------------------------------------------
LEMMA InitEstablishesIInv == Init => IInv
<1> SUFFICES ASSUME Init PROVE IInv
  OBVIOUS
<1>1. /\ job \in Jobs /\ pc = "seek" /\ demux = 0 /\ others = MaxOthers
      /\ eof_sent = FALSE /\ decoded_src_pos = 0 /\ consumed_in = 0
      /\ total_frames = 0
  BY DEF Init
<1>2. /\ Len(dec) = 0 /\ Len(storage) = 0 /\ Len(held) = 0
      /\ dec \in Seq(Int) /\ storage \in Seq(Int) /\ held \in Seq(Int)
  BY DEF Init
<1>3. job.total \in Nat /\ job.frame_offset \in Nat /\ MaxOthers \in Nat
  BY <1>1, JobsAssumption, BoundsAssumption
<1>4. TypeOK
  <2>1. /\ demux \in 0..job.total /\ others \in 0..MaxOthers
        /\ decoded_src_pos \in Int /\ consumed_in \in Nat
        /\ total_frames = Len(storage)
    BY <1>1, <1>2, <1>3
  <2> QED BY <1>1, <1>2, <2>1 DEF TypeOK
<1>5. Gapless
  <2>1. Upcoming = 0 /\ total_frames = 0 /\ job.frame_offset + 0 \in Int
    BY <1>1, <1>2, <1>3 DEF Upcoming
  <2>2. Run(0, 0) = << >> /\ Run(job.frame_offset, 0) = << >>
        /\ Run(job.frame_offset + 0, 0) = << >>
    BY <1>3, <2>1, RunEmpty
  <2>3. dec = << >> /\ storage = << >> /\ held = << >>
    BY DEF Init
  <2>4. /\ dec = Run(Upcoming, Len(dec))
        /\ storage = Run(job.frame_offset, total_frames)
        /\ held = Run(job.frame_offset + total_frames, Len(held))
    BY <1>2, <2>1, <2>2, <2>3, Zenon
  <2> QED BY <1>1, <1>2, <2>1, <2>4 DEF Gapless
<1>6. Progress
  BY <1>1, <1>2, <1>3, JobsAssumption, BoundsAssumption
     DEF Progress, WindowLength, Larger, Smaller
<1> QED BY <1>4, <1>5, <1>6 DEF IInv

\* The numbers behind the invariant, without the sequences.
LEMMA Numbers ==
  ASSUME IInv
  PROVE  /\ job \in Jobs /\ job.total \in Nat /\ job.frame_offset \in Nat
         /\ Len(dec) \in Nat /\ Len(held) \in Nat
         /\ total_frames \in Nat /\ consumed_in = total_frames + Len(held)
         /\ demux \in 0..job.total /\ Upcoming \in 0..demux
         /\ demux = Upcoming + Len(dec)
<1>1. TypeOK /\ Gapless
  BY DEF IInv
<1>2. job \in Jobs /\ job.total \in Nat /\ job.frame_offset \in Nat
  BY <1>1, JobsAssumption DEF TypeOK
<1>3. /\ dec \in Seq(Int) /\ storage \in Seq(Int) /\ held \in Seq(Int)
      /\ total_frames = Len(storage) /\ demux \in 0..job.total
  BY <1>1 DEF TypeOK
<1>4. Len(dec) \in Nat /\ Len(held) \in Nat /\ total_frames \in Nat
  BY <1>3
<1>5. consumed_in = total_frames + Len(held) /\ Upcoming >= 0
  BY <1>1 DEF Gapless
<1> QED BY <1>2, <1>3, <1>4, <1>5 DEF Upcoming

\* Steps that leave the audio where it is keep it gapless.
LEMMA GaplessUnchanged ==
  ASSUME Gapless,
         UNCHANGED <<job, demux, dec, consumed_in, total_frames, storage, held>>
  PROVE  Gapless'
BY DEF Gapless, Upcoming

LEMMA NoSeekKeepsIInv == IInv /\ NoSeek => IInv'
<1> SUFFICES ASSUME IInv, NoSeek PROVE IInv'
  OBVIOUS
<1>1. TypeOK'
  BY DEF IInv, TypeOK, NoSeek
<1>2. Gapless'
  BY GaplessUnchanged DEF IInv, NoSeek
<1>3. /\ demux = 0 /\ Len(dec) = 0 /\ consumed_in = 0
      /\ decoded_src_pos = 0 /\ ~eof_sent /\ consumed_in <= WindowLength(job)
      /\ Len(held) <= SwrLag
  BY DEF IInv, Progress, NoSeek
<1>4. job.num_frames # NoLimit => consumed_in < job.num_frames
  BY <1>3, Numbers, JobsAssumption
<1>5. Upcoming = 0 /\ Len(dec) <= DecDelay
  BY <1>3, BoundsAssumption DEF Upcoming
<1>6. consumed_in = Larger(0, Upcoming - job.frame_offset)
  BY <1>3, <1>5 DEF NoSeek, Larger
<1>7. Progress'
  BY <1>3, <1>4, <1>5, <1>6
     DEF Progress, NoSeek, Upcoming, WindowLength, Larger, Smaller
<1> QED BY <1>1, <1>2, <1>7 DEF IInv

LEMMA ReadOtherKeepsIInv == IInv /\ ReadOther => IInv'
<1> SUFFICES ASSUME IInv, ReadOther PROVE IInv'
  OBVIOUS
<1>1. TypeOK'
  BY BoundsAssumption DEF IInv, TypeOK, ReadOther
<1>2. Gapless'
  BY GaplessUnchanged DEF IInv, ReadOther
<1>3. Progress'
  BY DEF IInv, Progress, ReadOther, Upcoming, WindowLength,
         Larger, Smaller
<1> QED BY <1>1, <1>2, <1>3 DEF IInv

LEMMA ReadEofKeepsIInv == IInv /\ ReadEof => IInv'
<1> SUFFICES ASSUME IInv, ReadEof PROVE IInv'
  OBVIOUS
<1>1. TypeOK'
  BY DEF IInv, TypeOK, ReadEof
<1>2. Gapless'
  BY GaplessUnchanged DEF IInv, ReadEof
<1>3. Progress'
  BY DEF IInv, Progress, ReadEof, Upcoming, WindowLength,
         Larger, Smaller
<1> QED BY <1>1, <1>2, <1>3 DEF IInv

LEMMA ReceiveNothingKeepsIInv == IInv /\ ReceiveNothing => IInv'
<1> SUFFICES ASSUME IInv, ReceiveNothing PROVE IInv'
  OBVIOUS
<1>1. TypeOK'
  BY DEF IInv, TypeOK, ReceiveNothing
<1>2. Gapless'
  BY GaplessUnchanged DEF IInv, ReceiveNothing
<1>3. /\ consumed_in = Larger(0, Upcoming - job.frame_offset)
      /\ job.num_frames # NoLimit => consumed_in < job.num_frames
      /\ ~job.stamped => decoded_src_pos = Upcoming
      /\ eof_sent => demux = job.total
      /\ consumed_in <= WindowLength(job)
  BY DEF IInv, Progress, ReceiveNothing
<1>4. CASE eof_sent
  <2>1. Len(dec) = 0 /\ Upcoming = job.total
    BY <1>3, <1>4, Numbers DEF ReceiveNothing, FrameReady
  <2>2. job.num_frames # NoLimit => job.num_frames \in Nat
    BY Numbers, JobsAssumption
  <2>3. consumed_in = WindowLength(job)
    BY <1>3, <2>1, <2>2, Numbers DEF WindowLength, Larger, Smaller
  <2> QED BY <1>1, <1>2, <1>3, <1>4, <2>3 DEF IInv, Progress, ReceiveNothing, WindowLength
<1>5. CASE ~eof_sent
  <2>1. Len(dec) <= DecDelay
    BY <1>5, Numbers, BoundsAssumption DEF ReceiveNothing, FrameReady
  <2> QED BY <1>1, <1>2, <1>3, <1>5, <2>1
          DEF IInv, Progress, ReceiveNothing, Upcoming, WindowLength, Larger, Smaller
<1> QED BY <1>4, <1>5

LEMMA FinishKeepsIInv == IInv /\ Finish => IInv'
<1> SUFFICES ASSUME IInv, Finish PROVE IInv'
  OBVIOUS
<1>1. TypeOK'
  BY DEF IInv, TypeOK, Finish
<1>2. Gapless'
  BY GaplessUnchanged DEF IInv, Finish
<1>3. Len(held) = 0
  BY DEF Finish
<1>4. Progress'
  BY <1>3 DEF IInv, Progress, Finish, Upcoming, WindowLength
<1> QED BY <1>1, <1>2, <1>4 DEF IInv

\* The storage that a failed flush has grown is what it was when the call
\* returns.
LEMMA FailedFlushIsUndone ==
  ASSUME IInv, FlushFails
  PROVE  storage' = storage
<1>1. PICK a \in Int, t \in Nat, h \in Nat :
         a = job.frame_offset /\ t = total_frames /\ h = Len(held)
  BY Numbers
<1>2. storage = Run(a, t)
  BY <1>1, Zenon DEF IInv, Gapless
<1>3. storage' = Stored(<< >>, h)
  BY <1>1, Zenon DEF FlushFails
<1>4. Run(a + t, 0) = << >> /\ 0 \in Nat /\ 0 <= h /\ t + 0 = t
  BY RunEmpty
<1>5. Stored(Run(a + t, 0), h) = Run(a, t + 0)
  BY <1>1, <1>2, <1>4, StoredAppends
<1> QED BY <1>2, <1>3, <1>4, <1>5, Zenon

LEMMA FlushFailsKeepsIInv == IInv /\ FlushFails => IInv'
<1> SUFFICES ASSUME IInv, FlushFails PROVE IInv'
  OBVIOUS
<1>1. /\ pc = "flush" /\ pc' = "ok" /\ ~job.flushes
      /\ UNCHANGED <<job, demux, others, dec, eof_sent, decoded_src_pos,
                     consumed_in, total_frames, storage, held>>
  BY FailedFlushIsUndone DEF FlushFails
<1>2. TypeOK'
  BY <1>1 DEF IInv, TypeOK
<1>3. Gapless'
  BY <1>1, GaplessUnchanged DEF IInv
<1>4. Progress'
  BY <1>1 DEF IInv, Progress, Upcoming, WindowLength
<1> QED BY <1>2, <1>3, <1>4 DEF IInv

LEMMA FailKeepsIInv == IInv /\ Fail => IInv'
<1> SUFFICES ASSUME IInv, Fail PROVE IInv'
  OBVIOUS
<1>1. TypeOK'
  BY DEF IInv, TypeOK, Fail
<1>2. Gapless'
  BY GaplessUnchanged DEF IInv, Fail
<1>3. Progress'
  BY DEF IInv, Progress, Fail, Upcoming, WindowLength,
         Larger, Smaller
<1> QED BY <1>1, <1>2, <1>3 DEF IInv

\* A seek lands at or before the window, and nothing is in flight yet.
LEMMA SeekKeepsIInv == IInv /\ Seek => IInv'
<1> SUFFICES ASSUME IInv, Seek PROVE IInv'
  OBVIOUS
<1>1. /\ Len(dec) = 0 /\ consumed_in = 0 /\ ~eof_sent
      /\ consumed_in <= WindowLength(job)
  BY DEF IInv, Progress, Seek
<1>2. job.frame_offset < Half
  BY Numbers, JobsAssumption
<1>3. PICK p \in 0..job.total : demux' = p /\ p <= job.frame_offset
  <2>1. target_start = job.frame_offset
    BY <1>2 DEF target_start, AsI64
  <2>2. \A p \in 0..job.total :
           PtsOf(job, p) <= Rescale(job.frame_offset, TickDen, TickNum)
              => p <= job.frame_offset
    BY Numbers, ExactTimeBase, Zenon
  <2>3. demux' \in {p \in 0..job.total :
           \/ p = 0
           \/ PtsOf(job, p) <= Rescale(job.frame_offset, TickDen, TickNum)}
    BY <2>1, Zenon DEF Seek, SeekLandings
  <2> QED BY <2>2, <2>3, Numbers
<1>4. job.frame_offset > 0 /\ job.stamped
  BY Numbers, JobsAssumption DEF Seek
<1>5. Len(dec') = 0
  BY DEF Seek
<1>u. p \in Nat /\ Upcoming' = p
  BY <1>3, <1>5, Numbers DEF Upcoming
<1>6. TypeOK'
  <2>1. /\ pc' \in {"seek", "read", "receive", "flush", "ok", "err"}
        /\ UNCHANGED <<job, others, eof_sent, decoded_src_pos, consumed_in,
                       total_frames, storage, held>>
    BY DEF Seek
  <2>2. dec' \in Seq(Int)
    BY DEF Seek
  <2> QED BY <1>3, <2>1, <2>2 DEF IInv, TypeOK
<1>7. Gapless'
  <2>1. Upcoming' = p /\ p \in Int
    BY <1>u
  <2>2. dec' = Run(Upcoming', Len(dec'))
    <3>1. dec' = << >>
      BY DEF Seek
    <3> QED BY <1>5, <2>1, <3>1, RunEmpty, Zenon
  <2>3. UNCHANGED <<job, consumed_in, total_frames, storage, held>>
    BY DEF Seek
  <2> QED BY <1>3, <2>1, <2>2, <2>3, Numbers DEF IInv, Gapless
<1>8. Progress'
  <2>1. Upcoming' = p /\ Len(dec') <= DecDelay
    BY <1>u, <1>5, BoundsAssumption
  <2>2. /\ pc' = "read"
        /\ UNCHANGED <<job, eof_sent, consumed_in, held>> /\ Len(held) <= SwrLag
    BY DEF Seek, IInv, Progress
  <2>3. job.num_frames # NoLimit => consumed_in < job.num_frames
    BY <1>1, Numbers, JobsAssumption
  <2>4. (Larger(0, Upcoming - job.frame_offset))' = 0
    BY <1>3, <2>1, <2>2, Numbers DEF Larger
  <2>5. WindowLength(job)' = WindowLength(job)
    BY <2>2 DEF WindowLength
  <2> QED BY <1>1, <1>4, <2>1, <2>2, <2>3, <2>4, <2>5 DEF Progress
<1> QED BY <1>6, <1>7, <1>8 DEF IInv

\* A packet ends where the file does, or before.
LEMMA StillInFile ==
  ASSUME NEW total \in Nat, NEW d \in 0..total, NEW n \in Nat, n <= total - d
  PROVE  d + n \in 0..total
OBVIOUS

\* The decoder never refuses a packet, because the loop reads one only when
\* every frame that was ready has been received; so the packet's frames
\* continue those in the decoder.

LEMMA ReadPacketKeepsIInv ==
  ASSUME IInv, NEW n \in 1..MaxPacket, ReadPacket(n)
  PROVE  IInv'
<1> USE Numbers
<1>1. n \in Nat /\ n <= job.total - demux /\ demux' = demux + n
  BY BoundsAssumption DEF ReadPacket
<1>2. pc = "read" /\ Len(dec) <= DecDelay /\ ~eof_sent
  BY DEF IInv, Progress, ReadPacket
<1>3. dec' = Run(Upcoming, Len(dec) + n)
  <2>1. dec' = dec \o Run(demux, n)
    BY <1>2, BoundsAssumption DEF ReadPacket
  <2>2. dec = Run(Upcoming, Len(dec))
    BY DEF IInv, Gapless
  <2>3. Upcoming \in Int /\ Len(dec) \in Nat /\ demux = Upcoming + Len(dec)
    OBVIOUS
  <2>4. Run(Upcoming, Len(dec)) \o Run(Upcoming + Len(dec), n)
           = Run(Upcoming, Len(dec) + n)
    BY <1>1, <2>3, RunConcat, Zenon
  <2> QED BY <2>1, <2>2, <2>3, <2>4, Zenon
<1>4. Len(dec') = Len(dec) + n /\ dec' \in Seq(Int)
  <2>1. Upcoming \in Int /\ Len(dec) + n \in Nat
    BY <1>1
  <2> QED BY <1>3, <2>1, RunType, Zenon
<1>5. Upcoming' = Upcoming
  <2>1. Len(dec') = Len(dec) + n
    BY <1>4
  <2> QED BY <1>1, <2>1 DEF Upcoming
<1>6. /\ pc' = "receive"
      /\ UNCHANGED <<job, others, eof_sent, decoded_src_pos, consumed_in,
                     total_frames, storage, held>>
  BY DEF ReadPacket
<1>7. TypeOK'
  <2>1. demux' \in 0..job.total
    BY <1>1, StillInFile, Zenon
  <2>2. dec' \in Seq(Int)
    BY <1>4
  <2>3. pc' \in {"seek", "read", "receive", "flush", "ok", "err"}
    BY <1>6
  <2> QED BY <1>6, <2>1, <2>2, <2>3, Zenon DEF IInv, TypeOK
<1>8. Gapless'
  <2>1. dec' = Run(Upcoming', Len(dec'))
    BY <1>3, <1>4, <1>5, Zenon
  <2> QED BY <1>5, <1>6, <2>1 DEF IInv, Gapless
<1>9. Progress'
  BY <1>2, <1>5, <1>6 DEF IInv, Progress, WindowLength, Larger, Smaller
<1> QED BY <1>7, <1>8, <1>9 DEF IInv

\* Moving k frames out of a run of frames that continues the storage, the
\* resampler's held ones first, keeps storage and resampler gapless.
LEMMA ConvertKeepsRuns ==
  ASSUME IInv, NEW h \in Nat, NEW k \in 0..h,
         storage' = Stored(SubSeq(Run(job.frame_offset + total_frames, h), 1, k), h),
         held' = Dropped(Run(job.frame_offset + total_frames, h), k),
         total_frames' = total_frames + k
  PROVE  /\ storage' = Run(job.frame_offset, total_frames')
         /\ held' = Run(job.frame_offset + total_frames', Len(held'))
         /\ Len(held') = h - k /\ Len(storage') = total_frames'
         /\ storage' \in Seq(Int) /\ held' \in Seq(Int)
<1>1. PICK a \in Int, t \in Nat : a = job.frame_offset /\ t = total_frames
  BY Numbers
<1>2. PICK b \in Int, c \in Int, u \in Nat, r \in Nat :
         /\ b = a + t /\ c = b + k /\ u = t + k /\ c = a + u /\ r = h - k
  OBVIOUS
<1>3. SubSeq(Run(b, h), 1, k) = Run(b, k)
  BY RunTake
<1>4. storage' = Run(a, u)
  <2>1. storage = Run(a, t)
    BY <1>1, Zenon DEF IInv, Gapless
  <2>2. k \in Nat /\ k <= h
    OBVIOUS
  <2>3. Stored(Run(a + t, k), h) = Run(a, t + k)
    BY <1>1, <2>1, <2>2, StoredAppends
  <2> QED BY <1>1, <1>2, <1>3, <2>3, Zenon
<1>5. held' = Run(c, r)
  <2>1. Dropped(Run(b, h), k) = Run(b + k, h - k)
    BY RunDropped
  <2> QED BY <1>1, <1>2, <2>1, Zenon
<1>6. total_frames' = u /\ job.frame_offset + total_frames' = c
  BY <1>1, <1>2
<1>7. Len(storage') = u /\ storage' \in Seq(Int)
  BY <1>4, RunType, Zenon
<1>8. Len(held') = r /\ held' \in Seq(Int)
  BY <1>5, RunType, Zenon
<1> QED BY <1>1, <1>2, <1>4, <1>5, <1>6, <1>7, <1>8, Zenon

\* Frames that leave the resampler for the storage are counted once.
LEMMA MovedOn ==
  ASSUME NEW t \in Nat, NEW h \in Nat, NEW n \in 0..h
  PROVE  t + h = (t + n) + (h - n)
OBVIOUS

LEMMA FlushKeepsIInv ==
  ASSUME IInv, NEW n \in 1..Len(held), Flush(n)
  PROVE  IInv'
<1>1. PICK h \in Nat : h = Len(held) /\ n \in 0..h
  BY Numbers
<1>2. /\ pc = "flush" /\ total_frames' = total_frames + n
      /\ storage' = Stored(SubSeq(held, 1, n), Len(held))
      /\ held' = Dropped(held, n)
      /\ UNCHANGED <<job, pc, demux, others, dec, eof_sent, decoded_src_pos,
                     consumed_in>>
  BY DEF Flush
<1>3. held = Run(job.frame_offset + total_frames, h)
  BY <1>1, Zenon DEF IInv, Gapless
<1>4. /\ storage' = Run(job.frame_offset, total_frames')
      /\ held' = Run(job.frame_offset + total_frames', Len(held'))
      /\ Len(held') = h - n /\ Len(storage') = total_frames'
      /\ storage' \in Seq(Int) /\ held' \in Seq(Int)
  BY <1>1, <1>2, <1>3, ConvertKeepsRuns, Zenon
<1>5. TypeOK'
  BY <1>2, <1>4, Zenon DEF IInv, TypeOK
<1>6. consumed_in' = total_frames' + Len(held')
  <2>1. Len(held') = h - n /\ total_frames' = total_frames + n
    BY <1>2, <1>4, Zenon
  <2>2. total_frames \in Nat /\ consumed_in' = total_frames + h
    BY <1>1, <1>2, Numbers
  <2>3. total_frames + h = (total_frames + n) + (h - n)
    BY <1>1, <2>2, MovedOn, Zenon
  <2> QED BY <2>1, <2>2, <2>3, Zenon
<1>7. Gapless'
  <2>1. Upcoming' = Upcoming /\ job' = job /\ dec' = dec
    BY <1>2 DEF Upcoming
  <2> QED BY <1>4, <1>6, <2>1, Zenon DEF IInv, Gapless
<1>8. Progress'
  <2>1. Len(held') <= SwrLag
    <3>1. h <= SwrLag
      BY <1>1 DEF IInv, Progress
    <3> QED BY <1>1, <1>4, <3>1, BoundsAssumption
  <2> QED BY <1>2, <2>1 DEF IInv, Progress, Upcoming, WindowLength
<1> QED BY <1>5, <1>7, <1>8 DEF IInv

\* What the loop pushes into the resampler continues what is in it: the
\* frames from the decoder's run that follow the ones consumed so far.
LEMMA InputIsRun ==
  ASSUME IInv, NEW from \in Int, NEW to \in Int,
         Upcoming <= from, from <= to, to <= Upcoming + Len(dec),
         from = job.frame_offset + consumed_in
  PROVE  held \o SubSeq(dec, from - Upcoming + 1, to - Upcoming)
           = Run(job.frame_offset + total_frames, Len(held) + (to - from))
<1>1. PICK p \in Int, d \in Nat : p = Upcoming /\ d = Len(dec)
  BY Numbers
<1>2. SubSeq(dec, from - p + 1, to - p) = Run(from, to - from)
  <2>1. p <= from /\ to <= p + d
    BY <1>1
  <2>2. SubSeq(Run(p, d), from - p + 1, to - p) = Run(from, to - from)
    <3>1. p <= from /\ from <= to /\ to <= p + d
      BY <2>1, Zenon
    <3> QED BY <3>1, RunPiece, ZenonT(40)
  <2>3. dec = Run(p, d)
    BY <1>1, Zenon DEF IInv, Gapless
  <2> QED BY <2>2, <2>3, Zenon
<1>3. PICK b \in Int, k \in Nat, r \in Nat :
         /\ b = job.frame_offset + total_frames /\ k = Len(held)
         /\ r = to - from /\ from = b + k
  <2>1. /\ job.frame_offset + total_frames \in Int /\ Len(held) \in Nat
        /\ from = job.frame_offset + total_frames + Len(held)
    BY Numbers
  <2>2. to - from \in Nat
    OBVIOUS
  <2> QED BY <2>1, <2>2, Zenon
<1>4. held = Run(b, k)
  BY <1>3, Zenon DEF IInv, Gapless
<1>5. Run(b, k) \o Run(b + k, r) = Run(b, k + r)
  BY RunConcat
<1> QED BY <1>1, <1>2, <1>3, <1>4, <1>5, Zenon

\* Receiving a frame moves exactly its part of the window on, and leaves the
\* loop when, and only when, the window is complete.
LEMMA ReceiveKeepsIInv ==
  ASSUME IInv, NEW n \in 1..MaxFrame, NEW stamped \in BOOLEAN,
         Receive(n, stamped)
  PROVE  IInv' /\ total_frames' >= total_frames
<1>1. PICK p \in Nat, d \in Nat, o \in Nat, c \in Nat, total \in Nat :
         /\ p = Upcoming /\ d = Len(dec) /\ o = job.frame_offset
         /\ c = consumed_in /\ total = job.total /\ p + d <= total
  <2>1. /\ Upcoming \in Nat /\ Len(dec) \in Nat /\ job.frame_offset \in Nat
        /\ consumed_in \in Nat /\ job.total \in Nat
        /\ Upcoming + Len(dec) <= job.total
    BY Numbers
  <2> QED BY <2>1, Zenon
<1>3. n \in Nat /\ n > 0 /\ n <= d /\ d - n \in Nat /\ p + n \in Nat
  BY <1>1, BoundsAssumption DEF Receive
<1>4. dec = Run(p, d)
  BY <1>1, Zenon DEF IInv, Gapless
<1>5. total < Half /\ o < Half /\ job \in Jobs
  BY <1>1, Numbers, JobsAssumption
<1>6. PtsOffset(Head(dec), stamped) = p
  <2>1. Head(dec) = p
    BY <1>3, <1>4, RunHead
  <2>2. CASE stamped
    <3>1. p \in 0..job.total
      BY <1>1
    <3>2. Rescale(PtsOf(job, p), TickNum, TickDen) = p
      BY <1>5, <3>1, ExactTimeBase
    <3> QED BY <2>1, <2>2, <3>2, Zenon DEF PtsOffset
  <2>3. CASE ~stamped
    <3>1. ~job.stamped /\ pc = "receive"
      BY <2>3 DEF Receive
    <3>2. decoded_src_pos = p
      BY <1>1, <3>1 DEF IInv, Progress
    <3> QED BY <2>3, <3>2, Zenon DEF PtsOffset
  <2> QED BY <2>2, <2>3
<1>u. PICK m \in Nat :
         m > 0 /\ (job.num_frames # NoLimit => job.num_frames = m /\ m < Half)
  <2>1. CASE job.num_frames = NoLimit
    <3>1. 1 \in Nat /\ 1 > 0
      OBVIOUS
    <3> QED BY <2>1, <3>1, Zenon
  <2>2. CASE job.num_frames # NoLimit
    <3>1. /\ job.num_frames \in Nat /\ job.num_frames > 0
          /\ job.num_frames < Half
      BY <1>5, <2>2, JobsAssumption
    <3> QED BY <3>1, Zenon
  <2> QED BY <2>1, <2>2
<1>7. PICK limited \in BOOLEAN :
         /\ limited <=> job.num_frames # NoLimit
         /\ limited => job.num_frames = m /\ m < Half
  BY <1>u, Zenon
<1>8. target_start = o
  BY <1>1, <1>5 DEF target_start, AsI64
<1>9. PICK e \in Int :
         /\ target_end = e
         /\ e = IF limited THEN Smaller(Half - 1, o + m) ELSE Half - 1
  <2>1. CASE limited
    <3>1. target_end = SaturatingAdd(o, m)
      <4>1. AsI64(job.num_frames) = m
        BY <1>7, <2>1 DEF AsI64
      <4> QED BY <1>7, <1>8, <2>1, <4>1, Zenon DEF target_end
    <3>2. SaturatingAdd(o, m) = Smaller(Half - 1, o + m)
      BY BoundsAssumption DEF SaturatingAdd, MaxI64, Larger, Smaller
    <3>3. Smaller(Half - 1, o + m) \in Int
      BY BoundsAssumption DEF Smaller
    <3> QED BY <2>1, <3>1, <3>2, <3>3
  <2>2. CASE ~limited
    <3>1. target_end = Half - 1
      BY <1>7, <2>2 DEF target_end, MaxI64
    <3> QED BY <2>2, <3>1, BoundsAssumption
  <2> QED BY <2>1, <2>2
<1>10. PICK from \in Int, to \in Int, w \in Int :
         /\ from = Larger(p, o) /\ to = Smaller(p + n, e)
         /\ w = IF limited THEN Smaller(Larger(0, total - o), m)
                           ELSE Larger(0, total - o)
  <2>1. Larger(p, o) \in Int /\ Smaller(p + n, e) \in Int
    BY DEF Larger, Smaller
  <2>2. /\ Smaller(Larger(0, total - o), m) \in Int
        /\ Larger(0, total - o) \in Int
    BY DEF Larger, Smaller
  <2>3. (IF limited THEN Smaller(Larger(0, total - o), m)
                    ELSE Larger(0, total - o)) \in Int
    BY <2>2
  <2> QED BY <2>1, <2>3, Zenon
<1>11. w = WindowLength(job)
  BY <1>1, <1>7, <1>10, Zenon DEF WindowLength
<1>12. /\ c = Larger(0, p - o) /\ (limited => c < m)
       /\ ~job.stamped => decoded_src_pos = p
       /\ eof_sent => demux = total
       /\ pc = "receive"
  <2>1. pc = "receive"
    BY DEF Receive
  <2>2. /\ consumed_in = Larger(0, Upcoming - job.frame_offset)
        /\ job.num_frames # NoLimit => consumed_in < job.num_frames
        /\ ~job.stamped => decoded_src_pos = Upcoming
        /\ eof_sent => demux = job.total
    BY <2>1 DEF IInv, Progress
  <2> QED BY <1>1, <1>7, <2>1, <2>2, Zenon
<1>13. p + n <= total
  BY <1>1, <1>3
\* The arithmetic: [p, p + n) is the frame, [o, e) the window, w its length.
<1>14. /\ from >= to => p < e /\ c = Larger(0, p + n - o)
       /\ from < to =>
            /\ from = o + c
            /\ p <= from /\ to <= p + n
            /\ c + (to - from) <= w
            /\ limited /\ c + (to - from) >= m => c + (to - from) = w
            /\ ~(limited /\ c + (to - from) >= m)
                  => c + (to - from) = Larger(0, p + n - o)
  <2>1. m > 0 /\ (limited => c < m) /\ c = Larger(0, p - o)
    BY <1>u, <1>12
  <2>2. e = IF limited THEN Smaller(Half - 1, o + m) ELSE Half - 1
    BY <1>9
  <2> QED BY <1>3, <1>5, <1>10, <1>13, <2>1, <2>2, BoundsAssumption
          DEF Smaller, Larger
<1>15. /\ decoded_src_pos' = p + n
       /\ dec' = Dropped(dec, n)
       /\ UNCHANGED <<job, demux, others, eof_sent>>
       /\ \/ /\ from >= to
             /\ pc' = IF p >= e THEN "flush" ELSE pc
             /\ UNCHANGED <<consumed_in, total_frames, storage, held>>
          \/ LET input == held \o SubSeq(dec, from - p + 1, to - p)
                 ready == SwrReady(Len(input))
             IN  /\ from < to
                 /\ storage' = Stored(SubSeq(input, 1, ready), Len(input))
                 /\ total_frames' = total_frames + ready
                 /\ held' = Dropped(input, ready)
                 /\ consumed_in' = consumed_in + (to - from)
                 /\ pc' = IF /\ job.num_frames # NoLimit
                             /\ consumed_in' >= job.num_frames
                          THEN "flush" ELSE pc
  BY <1>6, <1>8, <1>9, <1>10, Zenon DEF Receive
<1>16. /\ dec' = Run(p + n, d - n)
       /\ Len(dec') = d - n /\ dec' \in Seq(Int)
       /\ Upcoming' = p + n
  <2>1. dec' = Run(p + n, d - n)
    BY <1>3, <1>4, <1>15, RunDropped
  <2>q. PICK q \in Int, rest \in Nat : q = p + n /\ rest = d - n
    BY <1>3
  <2>2. Len(dec') = d - n /\ dec' \in Seq(Int)
    BY <2>1, <2>q, RunType, Zenon
  <2>3. Len(dec') = d - n
    BY <2>2
  <2>4. demux' = demux /\ demux = p + d /\ demux \in Int
    BY <1>1, <1>15, Numbers
  <2>5. Upcoming' = p + n
    BY <2>3, <2>4 DEF Upcoming
  <2> QED BY <2>1, <2>2, <2>5
<1>17. CASE from >= to
  <2>1. pc' = "receive" /\ UNCHANGED <<consumed_in, total_frames, storage, held>>
    BY <1>12, <1>14, <1>15, <1>17
  <2>2. TypeOK'
    <3>1. decoded_src_pos' \in Int
      BY <1>3, <1>15
    <3> QED BY <1>15, <1>16, <2>1, <3>1, Zenon DEF IInv, TypeOK
  <2>3. Gapless'
    <3>1. p + n >= 0
      BY <1>3
    <3> QED BY <1>15, <1>16, <2>1, <3>1, Zenon DEF IInv, Gapless
  <2>4. Progress'
    <3>1. consumed_in' = (Larger(0, Upcoming - job.frame_offset))'
      <4>1. consumed_in' = Larger(0, p + n - o)
        BY <1>1, <1>14, <1>17, <2>1
      <4>2. Upcoming' = p + n /\ job'.frame_offset = o
        BY <1>1, <1>15, <1>16
      <4> QED BY <4>1, <4>2 DEF Larger
    <3>2. WindowLength(job)' = WindowLength(job) /\ job' = job
      BY <1>15 DEF WindowLength
    <3> QED BY <1>7, <1>12, <1>1, <1>15, <1>16, <2>1, <3>1, <3>2
            DEF IInv, Progress
  <2>5. total_frames' >= total_frames
    BY <2>1, Numbers
  <2> QED BY <2>2, <2>3, <2>4, <2>5 DEF IInv
<1>18. CASE from < to
  <2>0. PICK r \in Nat, k0 \in Nat, t \in Nat :
           /\ r = to - from /\ k0 = Len(held) /\ t = total_frames
           /\ c = t + k0
    <3>1. Len(held) \in Nat /\ total_frames \in Nat /\ c = total_frames + Len(held)
      BY <1>1, Numbers
    <3>2. to - from \in Nat
      BY <1>18
    <3> QED BY <3>1, <3>2, Zenon
  <2>1. PICK h \in Nat, b \in Int : h = k0 + r /\ b = o + t /\ b + k0 = from
    <3>1. from = o + c
      BY <1>14, <1>18
    <3> QED BY <2>0, <3>1
  <2>2. held \o SubSeq(dec, from - p + 1, to - p)
          = Run(job.frame_offset + total_frames, h)
    <3>1. /\ Upcoming <= from /\ from <= to /\ to <= Upcoming + Len(dec)
          /\ from = job.frame_offset + consumed_in
      BY <1>1, <1>3, <1>14, <1>18
    <3>2. held \o SubSeq(dec, from - Upcoming + 1, to - Upcoming)
            = Run(job.frame_offset + total_frames, Len(held) + (to - from))
      BY <3>1, InputIsRun
    <3> QED BY <1>1, <2>0, <2>1, <3>2, Zenon
  <2>3. Len(Run(job.frame_offset + total_frames, h)) = h
    BY <1>1, <2>0, <2>1, RunType, Zenon
  <2>4. PICK k \in 0..h : k = SwrReady(h)
    <3>1. SwrReady(h) \in 0..h
      BY <2>1, BoundsAssumption DEF SwrReady, Larger
    <3> QED BY <3>1, Zenon
  <2>5. /\ storage' = Stored(SubSeq(Run(job.frame_offset + total_frames, h), 1, k), h)
        /\ held' = Dropped(Run(job.frame_offset + total_frames, h), k)
        /\ total_frames' = total_frames + k
        /\ consumed_in' = consumed_in + (to - from)
        /\ pc' = IF /\ job.num_frames # NoLimit
                    /\ consumed_in' >= job.num_frames
                 THEN "flush" ELSE pc
    <3>1. ~(from >= to)
      BY <1>10, <1>18
    <3> QED BY <1>15, <2>2, <2>3, <2>4, <3>1, Zenon
  <2>6. /\ storage' = Run(job.frame_offset, total_frames')
        /\ held' = Run(job.frame_offset + total_frames', Len(held'))
        /\ Len(held') = h - k /\ Len(storage') = total_frames'
        /\ storage' \in Seq(Int) /\ held' \in Seq(Int)
    BY <2>5, ConvertKeepsRuns
  <2>7. consumed_in' = c + (to - from) /\ consumed_in' = total_frames' + Len(held')
    <3>1. Len(held') = h - k /\ total_frames' = t + k
      BY <2>0, <2>5, <2>6
    <3>2. consumed_in' = c + (to - from)
      BY <1>1, <2>5
    <3> QED BY <2>0, <2>1, <3>1, <3>2
  <2>8. PICK c1 \in Nat : c1 = c + (to - from) /\ consumed_in' = c1
    BY <1>10, <1>18, <2>7
  <2>9. TypeOK'
    <3>1. decoded_src_pos' \in Int /\ consumed_in' \in Nat
      BY <1>3, <1>15, <2>8
    <3>2. pc' \in {"seek", "read", "receive", "flush", "ok", "err"}
      BY <1>12, <2>5
    <3> QED BY <1>15, <1>16, <2>6, <3>1, <3>2, Zenon DEF IInv, TypeOK
  <2>10. Gapless'
    <3>1. p + n >= 0
      BY <1>3
    <3> QED BY <1>15, <1>16, <2>6, <2>7, <3>1, Zenon DEF IInv, Gapless
  <2>11. WindowLength(job)' = WindowLength(job) /\ job' = job
    BY <1>15 DEF WindowLength
  <2>12. total_frames' >= total_frames
    BY <2>0, <2>1, <2>5
  <2>h. Len(held') <= SwrLag
    <3>1. h - k <= SwrLag
      BY <2>1, <2>4, BoundsAssumption DEF SwrReady, Larger
    <3> QED BY <2>6, <3>1
  <2>13. CASE limited /\ c1 >= m
    <3>1. pc' = "flush" /\ c1 = w /\ c1 <= w
      BY <1>7, <1>14, <1>18, <2>5, <2>8, <2>13
    <3>2. Progress'
      BY <1>1, <1>11, <1>12, <1>15, <2>8, <2>11, <2>h, <3>1 DEF Progress
    <3> QED BY <2>9, <2>10, <2>12, <3>2 DEF IInv
  <2>14. CASE ~(limited /\ c1 >= m)
    <3>1. /\ pc' = "receive" /\ c1 = Larger(0, p + n - o) /\ c1 <= w
          /\ limited => c1 < m
      BY <1>7, <1>12, <1>14, <1>18, <2>5, <2>8, <2>14
    <3>2. consumed_in' = (Larger(0, Upcoming - job.frame_offset))'
      <4>1. Upcoming' = p + n /\ job'.frame_offset = o
        BY <1>1, <1>16, <2>11
      <4>2. consumed_in' = Larger(0, p + n - o)
        BY <2>8, <3>1
      <4> QED BY <4>1, <4>2 DEF Larger
    <3>3. Progress'
      BY <1>1, <1>7, <1>11, <1>12, <1>15, <1>16, <2>8, <2>11, <2>h, <3>1, <3>2
         DEF Progress
    <3> QED BY <2>9, <2>10, <2>12, <3>3 DEF IInv
  <2> QED BY <2>13, <2>14
<1>19. from >= to \/ from < to
  BY <1>10
<1> QED BY <1>17, <1>18, <1>19
-----------------------------------------------------------------------------
LEMMA StepKeepsIInv == IInv /\ [Next]_vars => IInv'
<1> SUFFICES ASSUME IInv, [Next]_vars PROVE IInv'
  OBVIOUS
<1>1. CASE NoSeek
  BY <1>1, NoSeekKeepsIInv
<1>2. CASE Seek
  BY <1>2, SeekKeepsIInv
<1>3. CASE ReadEof
  BY <1>3, ReadEofKeepsIInv
<1>4. CASE ReadOther
  BY <1>4, ReadOtherKeepsIInv
<1>5. ASSUME NEW n \in 1..MaxPacket, ReadPacket(n) PROVE IInv'
  BY <1>5, ReadPacketKeepsIInv
<1>6. CASE ReceiveNothing
  BY <1>6, ReceiveNothingKeepsIInv
<1>7. ASSUME NEW n \in 1..MaxFrame, NEW stamped \in BOOLEAN, Receive(n, stamped)
      PROVE  IInv'
  BY <1>7, ReceiveKeepsIInv
<1>8. ASSUME NEW n \in 1..Len(held), Flush(n) PROVE IInv'
  BY <1>8, FlushKeepsIInv
<1>9. CASE Finish
  BY <1>9, FinishKeepsIInv
<1>10. CASE Fail
  BY <1>10, FailKeepsIInv
<1>11. CASE FlushFails
  BY <1>11, FlushFailsKeepsIInv
<1>12. CASE UNCHANGED vars
  <2>1. TypeOK'
    BY <1>12 DEF IInv, TypeOK, vars
  <2>2. Gapless'
    BY <1>12, GaplessUnchanged DEF IInv, vars
  <2>3. Progress'
    BY <1>12 DEF IInv, Progress, Upcoming, WindowLength, Larger, Smaller, vars
  <2> QED BY <2>1, <2>2, <2>3 DEF IInv
<1> QED BY <1>1, <1>2, <1>3, <1>4, <1>5, <1>6, <1>7, <1>8, <1>9, <1>10, <1>11,
           <1>12
        DEF Next, Returned

\* The inductive invariant holds of every execution.
THEOREM Invariance == Spec => []IInv
<1>1. Init => IInv
  BY InitEstablishesIInv
<1>2. IInv /\ [Next]_vars => IInv'
  BY StepKeepsIInv
<1> QED BY <1>1, <1>2, PTL DEF Spec

\* Type correctness of the decode loop.
THEOREM TypeCorrect == Spec => []TypeOK
<1>1. IInv => TypeOK
  BY DEF IInv
<1> QED BY <1>1, Invariance, PTL

\* decode() never consumes more than num_frames frames, for every file and
\* every way FFmpeg cuts it into packets and frames (exact time base).
THEOREM NumFramesCap == Spec => []NumFramesIsACap
<1>1. IInv => NumFramesIsACap
  <2> SUFFICES ASSUME IInv, job.num_frames # NoLimit
               PROVE  consumed_in <= job.num_frames
    BY DEF NumFramesIsACap
  <2>1. job.num_frames \in Nat /\ job.total \in Nat /\ job.frame_offset \in Nat
    BY Numbers, JobsAssumption
  <2>2. consumed_in \in Nat /\ consumed_in <= WindowLength(job)
    BY Numbers DEF IInv, TypeOK, Progress
  <2>3. WindowLength(job) <= job.num_frames
    BY <2>1 DEF WindowLength, Larger, Smaller
  <2>4. WindowLength(job) \in Nat
    BY <2>1 DEF WindowLength, Larger, Smaller
  <2> QED BY <2>1, <2>2, <2>3, <2>4
<1> QED BY <1>1, Invariance, PTL

\* The promise speaks of the same window.
LEMMA SameWindow ==
  /\ \A j : Promise!WindowLength(j) = WindowLength(j)
  /\ \A a, n : Promise!Run(a, n) = Run(a, n)
BY DEF Promise!WindowLength, WindowLength, Promise!Larger, Promise!Smaller,
       Larger, Smaller, Promise!Run, Run

\* A step that does not end the call extends what is delivered.
LEMMA StepExtends ==
  ASSUME IInv, IInv', pc \notin {"ok", "err"}, pc' \notin {"ok", "err"},
         job' = job, total_frames' >= total_frames
  PROVE  Promise!Next
<1>1. /\ Len(storage) = total_frames /\ total_frames \in Nat
      /\ storage' = Run(job.frame_offset, total_frames')
  <2>1. storage' = Run(job'.frame_offset, total_frames')
    BY DEF IInv, Gapless
  <2>2. Len(storage) = total_frames
    BY DEF IInv, TypeOK
  <2> QED BY <2>1, <2>2, Numbers
<1>2. PICK k \in Nat : k = total_frames' /\ k <= WindowLength(job)
  <2>1. /\ total_frames' = Len(storage') /\ storage' \in Seq(Int)
        /\ held' \in Seq(Int) /\ consumed_in' = total_frames' + Len(held')
    BY DEF IInv, TypeOK, Gapless
  <2>2. PICK k \in Nat, h \in Nat : k = total_frames' /\ h = Len(held')
    <3>1. Len(storage') \in Nat /\ Len(held') \in Nat
      BY <2>1, LenProperties, Zenon
    <3> QED BY <2>1, <3>1, Zenon
  <2>3. consumed_in' <= WindowLength(job)
    BY DEF IInv, Progress, WindowLength
  <2>4. consumed_in' = k + h
    BY <2>1, <2>2
  <2>5. WindowLength(job) \in Int
    <3>1. job.num_frames # NoLimit => job.num_frames \in Nat
      BY Numbers, JobsAssumption
    <3> QED BY <3>1, Numbers DEF WindowLength, Larger, Smaller
  <2> QED BY <2>2, <2>3, <2>4, <2>5
<1>3. WindowLength(job) \in Int
  <2>1. job.num_frames # NoLimit => job.num_frames \in Nat
    BY Numbers, JobsAssumption
  <2> QED BY <2>1, Numbers DEF WindowLength, Larger, Smaller
<1>4. k \in Len(storage)..WindowLength(job)
  BY <1>1, <1>2, <1>3
<1>5. Promise!WindowLength(job) = WindowLength(job)
  BY SameWindow
<1>6. /\ (IF pc \in {"ok", "err"} THEN pc ELSE "pending") = "pending"
      /\ (IF pc' \in {"ok", "err"} THEN pc' ELSE "pending") = "pending"
  OBVIOUS
<1>7. \E n \in Len(storage)..Promise!WindowLength(job) :
         storage' = Promise!Run(job.frame_offset, n)
  BY <1>1, <1>2, <1>4, <1>5, SameWindow, Zenon
<1>8. Promise!Extend
  BY <1>6, <1>7, Zenon DEF Promise!Extend
<1> QED BY <1>8 DEF Promise!Next

\* The steps of the loop: IInv gives what each one may do to the promise.
LEMMA StepKeepsPromise ==
  ASSUME IInv, IInv', [Next]_vars
  PROVE  [Promise!Next]_Promise!promiseVars
<1>1. CASE UNCHANGED vars
  BY <1>1, Zenon DEF vars, Promise!promiseVars
<1>2. ASSUME total_frames' = total_frames, job' = job,
             pc \notin {"ok", "err"}, pc' \notin {"ok", "err"}
      PROVE  Promise!Next
  <2>1. total_frames' >= total_frames
    BY <1>2, Numbers
  <2> QED BY <1>2, <2>1, StepExtends
<1>3. CASE NoSeek \/ Seek \/ ReadEof \/ ReadOther \/ ReceiveNothing
  BY <1>2, <1>3 DEF NoSeek, Seek, ReadEof, ReadOther, ReceiveNothing
<1>4. ASSUME NEW n \in 1..MaxPacket, ReadPacket(n) PROVE Promise!Next
  BY <1>2, <1>4 DEF ReadPacket
<1>5. ASSUME NEW n \in 1..MaxFrame, NEW stamped \in BOOLEAN, Receive(n, stamped)
      PROVE  Promise!Next
  <2>1. total_frames' >= total_frames
    BY <1>5, ReceiveKeepsIInv
  <2>2. /\ pc \notin {"ok", "err"} /\ pc' \notin {"ok", "err"} /\ job' = job
    BY <1>5 DEF Receive
  <2> QED BY <2>1, <2>2, StepExtends
<1>6. ASSUME NEW n \in 1..Len(held), Flush(n) PROVE Promise!Next
  <2>1. /\ pc \notin {"ok", "err"} /\ pc' \notin {"ok", "err"} /\ job' = job
        /\ total_frames' = total_frames + n
    BY <1>6 DEF Flush
  <2>2. total_frames' >= total_frames
    BY <2>1, Numbers
  <2> QED BY <2>1, <2>2, StepExtends
<1>7. CASE Finish \/ FlushFails
  <2>1. /\ pc = "flush" /\ pc' = "ok" /\ UNCHANGED <<job, storage>>
        /\ job.flushes => Len(held) = 0
    BY <1>7, FailedFlushIsUndone DEF Finish, FlushFails
  <2>2. Len(storage) + Len(held) = WindowLength(job) /\ Len(held) <= SwrLag
    <3>1. consumed_in = Len(storage) + Len(held)
      BY DEF IInv, TypeOK, Gapless
    <3> QED BY <2>1, <3>1 DEF IInv, Progress
  <2>3. Promise!WindowLength(job) = WindowLength(job)
    BY SameWindow
  <2>4. Promise!Missing <= IF job.flushes THEN 0 ELSE SwrLag
    <3>1. Len(storage) \in Nat /\ Len(held) \in Nat
      BY Numbers DEF IInv, TypeOK
    <3>2. Promise!WindowLength(job) - Len(storage) = Len(held)
      BY <2>2, <2>3, <3>1
    <3> QED BY <2>1, <2>2, <3>1, <3>2 DEF Promise!Missing
  <2>5. Promise!Return
    BY <2>1, <2>4, Zenon DEF Promise!Return
  <2> QED BY <2>5 DEF Promise!Next
<1>8. CASE Fail
  <2>1. /\ pc \notin {"ok", "err"} /\ pc' = "err" /\ UNCHANGED <<job, storage>>
    BY <1>8 DEF Fail
  <2>2. Promise!Fail
    BY <2>1, Zenon DEF Promise!Fail
  <2> QED BY <2>2 DEF Promise!Next
<1> QED BY <1>1, <1>3, <1>4, <1>5, <1>6, <1>7, <1>8, <1>2 DEF Next, Returned

\* load() implements its promise for every file, window and behaviour of
\* FFmpeg: an Ok result is the window asked for, but for what a resampler
\* that fails to flush keeps (`converted <= 0` in loader.rs).
THEOREM LoadKeepsPromise == Spec => KeepsPromise
<1>1. Init => Promise!Init
  BY Zenon DEF Init, Promise!Init
<1>2. IInv /\ IInv' /\ [Next]_vars => [Promise!Next]_Promise!promiseVars
  BY StepKeepsPromise
<1> QED BY <1>1, <1>2, Invariance, PTL DEF Spec, KeepsPromise, Promise!Spec
=============================================================================
