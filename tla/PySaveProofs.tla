---------------------------- MODULE PySaveProofs ----------------------------
(***************************************************************************)
(* A call from Python is a save of EncodeLoop, so what EncodeLoopProofs    *)
(* shows holds of it; and the encoder reads what the argument held, for    *)
(* every shape, every strides and every chunk.                             *)
(***************************************************************************)
EXTENDS PySave, EncodeLoopProofs

\* The AudioBuffer built from an argument.
BufferOf(arg) ==
    [NoAudio EXCEPT !.samples = Passed(arg).samples,
                    !.channels = Passed(arg).channels,
                    !.frames = Passed(arg).frames,
                    !.layout = Passed(arg).layout,
                    !.sample_rate = Rate(arg)]

\* The copy is taken before anything is encoded and before the array may
\* change, and only what validate_buffer accepts is encoded.
CopyInv ==
    /\ py_pc = "called" => pc = "open" /\ memory = job.arg.array.memory
    /\ py_pc = "detached" => ~Unacceptable(job.arg) /\ audio = BufferOf(job.arg)
    /\ pc # "open" => /\ ~Unacceptable(job.arg) /\ audio = BufferOf(job.arg)
                      /\ ValidateBuffer(audio)
-----------------------------------------------------------------------------
\* The encode loop takes a step of its own or none.
LEMMA CallStep == [PyNext]_allVars => [Next]_vars
BY DEF PyNext, PyCall, RaiseForArgument, BuildAudioBuffer, RefuseBuffer, Encode,
       Attach, Overwrite, PyReturned, allVars

LEMMA CopyStep ==
  ASSUME CopyInv, [PyNext]_allVars
  PROVE  CopyInv'
<1>1. CASE RaiseForArgument
  BY <1>1 DEF CopyInv, RaiseForArgument, vars
<1>2. CASE BuildAudioBuffer
  <2>1. audio' = BufferOf(job.arg)
    BY <1>2, Zenon DEF CopyInv, BuildAudioBuffer, BufferOf, Passed
  <2> QED BY <1>2, <2>1 DEF CopyInv, BuildAudioBuffer, vars
<1>3. CASE RefuseBuffer
  BY <1>3 DEF CopyInv, RefuseBuffer, vars
<1>4. CASE Encode
  <2>1. job' = job /\ UNCHANGED pyVars
    BY <1>4 DEF Encode, Next, Setup, Push, EncodeFull, EncodeOne, NextChunk,
                LastChunkDone, DrainSwr, SwrDrained, EncodeRest, RestDone,
                FlushEncoder, WritePacket, Drained, WriteTrailer, Fail,
                Returned, vars
  <2> QED BY <1>4, <2>1 DEF CopyInv, Encode, pyVars, ValidateBuffer
<1>5. CASE Attach
  BY <1>5 DEF CopyInv, Attach, vars
<1>6. CASE Overwrite
  BY <1>6 DEF CopyInv, Overwrite, vars
<1>7. CASE UNCHANGED allVars
  BY <1>7 DEF CopyInv, allVars, vars, pyVars
<1> QED BY <1>1, <1>2, <1>3, <1>4, <1>5, <1>6, <1>7 DEF PyNext, PyCall, PyReturned
-----------------------------------------------------------------------------
\* Row c and column f of the position that is c rows and f columns on.
LEMMA RowAndColumn ==
  ASSUME NEW c \in Nat, NEW f \in Nat, NEW width \in Nat, f < width
  PROVE  (c * width + f) \div width = c /\ (c * width + f) % width = f
<1>1. PICK q \in Int, r \in Int :
         /\ q = (c * width + f) \div width /\ r = (c * width + f) % width
         /\ c * width + f = width * q + r /\ 0 <= r /\ r < width
  <2>1. c * width + f \in Int /\ width > 0
    OBVIOUS
  <2> QED BY <2>1
<1>2. width * q = q * width /\ (q - c) * width = f - r
  BY <1>1
<1>3. q = c
  <2>1. ASSUME q - c >= 1 PROVE FALSE
    <3>1. (q - c) * width >= width
      BY <2>1
    <3> QED BY <1>1, <1>2, <3>1
  <2>2. ASSUME c - q >= 1 PROVE FALSE
    <3>1. (c - q) * width >= width /\ (c - q) * width = r - f
      BY <1>2, <2>2
    <3> QED BY <1>1, <3>1
  <2> QED BY <1>1, <2>1, <2>2
<1>4. r = f
  BY <1>1, <1>2, <1>3
<1> QED BY <1>1, <1>3, <1>4

\* It is one of the first height rows if c is.
LEMMA InsideRows ==
  ASSUME NEW c \in Nat, NEW f \in Nat, NEW width \in Nat, NEW height \in Nat,
         f < width, c < height
  PROVE  c * width + f \in Nat /\ 1 + c * width + f \in 1..height * width
<1>1. c * width \in Nat
  OBVIOUS
<1>2. (c + 1) * width <= height * width /\ (c + 1) * width = c * width + width
  OBVIOUS
<1> QED BY <1>1, <1>2
-----------------------------------------------------------------------------
\* What the copy of an array holds at a position.
LEMMA CollectedAt ==
  ASSUME NEW array, NEW cells, NEW k, 1 + k \in 1..Product(array.shape), k \in Nat
  PROVE  Collected(array, cells)[1 + k] = Element(array, cells, k)
<1>1. (1 + k) - 1 = k
  OBVIOUS
<1>2. Collected(array, cells)[1 + k] = Element(array, cells, (1 + k) - 1)
  BY Zenon DEF Collected
<1> QED BY <1>1, <1>2

\* An array of one dimension is one channel.
LEMMA CopiedLine ==
  ASSUME NEW arg, NEW frames \in Nat, NEW f \in 0..frames - 1,
         arg.array.shape = <<frames>>
  PROVE  Passed(arg).samples[1 + f]
           = arg.array.memory[1 + f * arg.array.strides[1]]
<1>1. Len(arg.array.shape) = 1 /\ arg.array.shape[1] = frames
  OBVIOUS
<1>2. Product(arg.array.shape) = frames
  BY <1>1 DEF Product
<1>3. f \in Nat /\ 1 + f \in 1..Product(arg.array.shape)
  BY <1>2
<1>4. Collected(arg.array, arg.array.memory)[1 + f]
        = Element(arg.array, arg.array.memory, f)
  BY <1>3, CollectedAt, Zenon
<1>5. Element(arg.array, arg.array.memory, f)
        = arg.array.memory[1 + f * arg.array.strides[1]]
  BY <1>1, Zenon DEF Element
<1> QED BY <1>1, <1>4, <1>5 DEF Passed, PyarrayToSamples

\* An array of two dimensions is copied row by row.
LEMMA CopiedRows ==
  ASSUME NEW arg, NEW rows \in Nat, NEW columns \in Nat,
         NEW r \in 0..rows - 1, NEW c \in 0..columns - 1,
         arg.array.shape = <<rows, columns>>
  PROVE  Passed(arg).samples[1 + (r * columns + c)]
           = arg.array.memory[1 + (r * arg.array.strides[1]
                                    + c * arg.array.strides[2])]
<1>1. /\ Len(arg.array.shape) = 2 /\ Len(arg.array.shape) # 1
      /\ arg.array.shape[1] = rows /\ arg.array.shape[2] = columns
  OBVIOUS
<1>2. Product(arg.array.shape) = rows * columns
  BY <1>1, Zenon DEF Product
<1>3. PICK k \in Nat : /\ k = r * columns + c
                       /\ 1 + k \in 1..Product(arg.array.shape)
                       /\ k \div columns = r /\ k % columns = c
  <2>1. r \in Nat /\ c \in Nat /\ c < columns /\ r < rows
    OBVIOUS
  <2>2. r * columns + c \in Nat /\ 1 + r * columns + c \in 1..rows * columns
    BY <2>1, InsideRows
  <2>3. 1 + (r * columns + c) = 1 + r * columns + c
    BY <2>1
  <2>4. (r * columns + c) \div columns = r /\ (r * columns + c) % columns = c
    BY <2>1, RowAndColumn
  <2> QED BY <1>2, <2>2, <2>3, <2>4, Zenon
<1>4. Collected(arg.array, arg.array.memory)[1 + k]
        = Element(arg.array, arg.array.memory, k)
  BY <1>3, CollectedAt, Zenon
<1>5. Element(arg.array, arg.array.memory, k)
        = arg.array.memory[1 + (r * arg.array.strides[1]
                                 + c * arg.array.strides[2])]
  BY <1>1, <1>3, Zenon DEF Element
<1>6. Passed(arg).samples = Collected(arg.array, arg.array.memory)
  BY DEF Passed, PyarrayToSamples
<1> QED BY <1>3, <1>4, <1>5, <1>6, Zenon

\* What shape an argument is taken for.
LEMMA ShapeOfLine ==
  ASSUME NEW arg, NEW frames, arg.array.shape = <<frames>>
  PROVE  /\ Passed(arg).channels = 1 /\ Passed(arg).frames = frames
         /\ Passed(arg).layout = "planar"
<1>1. Len(arg.array.shape) = 1 /\ arg.array.shape[1] = frames
  OBVIOUS
<1> QED BY <1>1 DEF Passed, PyarrayToSamples

LEMMA ShapeOfRows ==
  ASSUME NEW arg, NEW rows, NEW columns, arg.array.shape = <<rows, columns>>
  PROVE  /\ ChannelsFirst(arg) =>
               /\ Passed(arg).channels = rows /\ Passed(arg).frames = columns
               /\ Passed(arg).layout = "planar"
         /\ ~ChannelsFirst(arg) =>
               /\ Passed(arg).channels = columns /\ Passed(arg).frames = rows
               /\ Passed(arg).layout = "interleaved"
<1>1. /\ Len(arg.array.shape) # 1
      /\ arg.array.shape[1] = rows /\ arg.array.shape[2] = columns
  OBVIOUS
<1> QED BY <1>1 DEF Passed, PyarrayToSamples

\* The pointers and strides of a chunk find the samples that were passed.
LEMMA ChunkOfTheArgument ==
  ASSUME NEW arg, NEW frames \in Nat, NEW start \in Nat,
         arg.channels \in Nat, Describes(arg, frames),
         ~ChannelsFirst(arg) \/ arg.channels <= AV_NUM_DATA_POINTERS,
         NEW buf, buf = BufferOf(arg)
  PROVE  /\ buf.channels = arg.channels /\ buf.frames = frames
         /\ \A c \in 0..arg.channels - 1, i \in Nat :
               start + i < frames => InputSample(buf, c, start, i) = <<c, start + i>>
<1>1. /\ buf.samples = Passed(arg).samples /\ buf.channels = Passed(arg).channels
      /\ buf.frames = Passed(arg).frames /\ buf.layout = Passed(arg).layout
  BY DEF BufferOf, NoAudio
<1>2. CASE arg.array.shape = <<frames>> /\ arg.channels = 1
           /\ \A f \in 0..frames - 1 :
                 arg.array.memory[1 + f * arg.array.strides[1]] = <<0, f>>
  <2>1. buf.channels = 1 /\ buf.frames = frames /\ buf.layout = "planar"
    BY <1>1, <1>2, ShapeOfLine
  <2>2. ASSUME NEW c \in 0..arg.channels - 1, NEW i \in Nat, start + i < frames
        PROVE  InputSample(buf, c, start, i) = <<c, start + i>>
    <3>1. PICK f \in 0..frames - 1 : f = start + i
      BY <2>2
    <3>2. c = 0 /\ c < AV_NUM_DATA_POINTERS
      BY <1>2, PlanePointers
    <3>3. buf.samples[1 + f] = <<0, f>>
      BY <1>1, <1>2, CopiedLine
    <3>4. 1 + PlaneStart(buf, c, start) + i = 1 + f
      BY <2>1, <3>1, <3>2 DEF PlaneStart
    <3> QED BY <2>1, <3>1, <3>2, <3>3, <3>4 DEF InputSample
  <2> QED BY <1>2, <2>1, <2>2
<1>3. CASE ChannelsFirst(arg) /\ arg.array.shape = <<arg.channels, frames>>
           /\ \A c \in 0..arg.channels - 1, f \in 0..frames - 1 :
                 arg.array.memory[1 + (c * arg.array.strides[1]
                                        + f * arg.array.strides[2])] = <<c, f>>
  <2>1. buf.channels = arg.channels /\ buf.frames = frames /\ buf.layout = "planar"
    BY <1>1, <1>3, ShapeOfRows
  <2>2. ASSUME NEW c \in 0..arg.channels - 1, NEW i \in Nat, start + i < frames
        PROVE  InputSample(buf, c, start, i) = <<c, start + i>>
    <3>1. PICK f \in 0..frames - 1 : f = start + i
      BY <2>2
    <3>2. c < AV_NUM_DATA_POINTERS
      BY <1>3, PlanePointers
    <3>3. buf.samples[1 + (c * frames + f)] = <<c, f>>
      <4>1. Passed(arg).samples[1 + (c * frames + f)]
              = arg.array.memory[1 + (c * arg.array.strides[1]
                                       + f * arg.array.strides[2])]
        BY <1>3, CopiedRows, Zenon
      <4> QED BY <1>1, <1>3, <4>1, Zenon
    <3>4. 1 + PlaneStart(buf, c, start) + i = 1 + (c * frames + f)
      BY <2>1, <3>1 DEF PlaneStart
    <3> QED BY <2>1, <3>1, <3>2, <3>3, <3>4 DEF InputSample
  <2> QED BY <2>1, <2>2
<1>4. CASE ~ChannelsFirst(arg) /\ arg.array.shape = <<frames, arg.channels>>
           /\ \A c \in 0..arg.channels - 1, f \in 0..frames - 1 :
                 arg.array.memory[1 + (f * arg.array.strides[1]
                                        + c * arg.array.strides[2])] = <<c, f>>
  <2>1. /\ buf.channels = arg.channels /\ buf.frames = frames
        /\ buf.layout = "interleaved"
    BY <1>1, <1>4, ShapeOfRows
  <2>2. ASSUME NEW c \in 0..arg.channels - 1, NEW i \in Nat, start + i < frames
        PROVE  InputSample(buf, c, start, i) = <<c, start + i>>
    <3>1. PICK f \in 0..frames - 1 : f = start + i
      BY <2>2
    <3>2. buf.samples[1 + (f * arg.channels + c)] = <<c, f>>
      <4>1. Passed(arg).samples[1 + (f * arg.channels + c)]
              = arg.array.memory[1 + (f * arg.array.strides[1]
                                       + c * arg.array.strides[2])]
        BY <1>4, CopiedRows, Zenon
      <4> QED BY <1>1, <1>4, <4>1, Zenon
    <3>3. 1 + PlaneStart(buf, 0, start) + i * buf.channels + c
            = 1 + (f * arg.channels + c)
      BY <2>1, <3>1 DEF PlaneStart
    <3> QED BY <2>1, <3>1, <3>2, <3>3 DEF InputSample
  <2> QED BY <2>1, <2>2
<1> QED BY <1>2, <1>3, <1>4, Zenon DEF Describes

LEMMA CopyIsRead ==
  ASSUME \A j \in Jobs : \/ ~ChannelsFirst(j.arg)
                         \/ j.arg.channels <= AV_NUM_DATA_POINTERS,
         CopyInv, TypeOK
  PROVE  EncoderReadsTheArgument
<1> SUFFICES ASSUME pc = "push", chunk_start < job.frames
    PROVE  /\ audio.channels = job.arg.channels /\ audio.frames = job.frames
           /\ \A c \in 0..audio.channels - 1, i \in 0..chunk - 1 :
                 InputSample(audio, c, chunk_start, i) = <<c, chunk_start + i>>
  BY DEF EncoderReadsTheArgument
<1>1. /\ job \in Jobs /\ job.frames \in Nat /\ chunk_start \in Nat
      /\ chunk \in Int /\ chunk <= job.frames - chunk_start
  BY Numbers
<1>2. /\ ~Unacceptable(job.arg) /\ audio = BufferOf(job.arg)
      /\ ValidateBuffer(audio)
  BY DEF CopyInv
<1>3. audio.channels = Passed(job.arg).channels /\ audio.channels # 0
  <2>1. BufferOf(job.arg).channels = Passed(job.arg).channels
    BY DEF BufferOf, NoAudio
  <2> QED BY <1>2, <2>1, Zenon DEF ValidateBuffer
<1>4. /\ Describes(job.arg, job.frames) /\ job.arg.channels \in Nat
      /\ ~ChannelsFirst(job.arg) \/ job.arg.channels <= AV_NUM_DATA_POINTERS
  BY <1>1, <1>2, <1>3, PyArguments, Zenon
<1>5. /\ audio.channels = job.arg.channels /\ audio.frames = job.frames
      /\ \A c \in 0..job.arg.channels - 1, i \in Nat :
            chunk_start + i < job.frames =>
               InputSample(audio, c, chunk_start, i) = <<c, chunk_start + i>>
  BY <1>1, <1>2, <1>4, ChunkOfTheArgument, SMTT(30)
<1>6. ASSUME NEW c \in 0..audio.channels - 1, NEW i \in 0..chunk - 1
      PROVE  InputSample(audio, c, chunk_start, i) = <<c, chunk_start + i>>
  <2>1. i \in Nat /\ chunk_start + i < job.frames
    BY <1>1
  <2> QED BY <1>5, <1>6, <2>1, Zenon
<1> QED BY <1>5, <1>6
-----------------------------------------------------------------------------
\* What save() and save_bytes() of the Python binding do is a save.
THEOREM CallIsASave == PySpec => Spec
<1>1. PyInit => Init
  BY DEF PyInit
<1> QED BY <1>1, CallStep, PTL DEF PySpec, Spec

\* So a call's variables keep their types, its FIFO stays bounded, and its file
\* keeps the promise of save().
THEOREM CallTypeCorrect == PySpec => []TypeOK
BY CallIsASave, TypeCorrect, PTL

THEOREM CallFifoStaysBounded == PySpec => []FifoBounded
BY CallIsASave, FifoStaysBounded, PTL

THEOREM CallKeepsPromise ==
  ASSUME \A j \in Jobs : j.frames < Half
  PROVE  PySpec => KeepsPromise
BY CallIsASave, SaveKeepsPromise, PTL

\* Whatever the shape, the strides and the order of the dimensions of the array
\* passed, and whatever other threads write to it once the call has detached,
\* each chunk that swr_convert is given holds the samples that were passed
\* (pyarray_to_samples, validate_buffer, plane_offset_bytes, in_stride_bytes).
\* Only planar buffers of more channels than there are plane pointers are
\* excluded: PlaneStart knows no pointer for them.
THEOREM EncoderGetsTheArgument ==
  ASSUME \A j \in Jobs : \/ ~ChannelsFirst(j.arg)
                         \/ j.arg.channels <= AV_NUM_DATA_POINTERS
  PROVE  PySpec => []EncoderReadsTheArgument
<1>1. PyInit => CopyInv
  BY DEF PyInit, Init, CopyInv
<1>2. CopyInv /\ [PyNext]_allVars => CopyInv'
  BY CopyStep
<1>3. CopyInv /\ TypeOK => EncoderReadsTheArgument
  BY CopyIsRead
<1> QED BY <1>1, <1>2, <1>3, CallTypeCorrect, PTL DEF PySpec
=============================================================================
