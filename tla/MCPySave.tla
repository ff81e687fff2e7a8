------------------------------ MODULE MCPySave ------------------------------
(***************************************************************************)
(* PySave with encoders that take fewer frames than a chunk, as many, and  *)
(* more, for buffers that end inside and at the end of a chunk and of an   *)
(* encoder frame; and, for one encoder, with every form of argument:       *)
(* arrays in row-major and column-major order and with gaps, of one to     *)
(* four channels, buffers returned by load, and arguments that are refused.*)
(***************************************************************************)
EXTENDS PySave

FFmpegCalls == {"setup", "convert", "encode", "write", "trailer"}

\* A two-dimensional array whose element <<i, j>> lies where its strides say.
Laid(shape, strides, transposed) ==
    [shape |-> shape, strides |-> strides, memory |->
        [k \in 1..1 + (shape[1] - 1) * strides[1] + (shape[2] - 1) * strides[2] |->
            LET at == {<<i, j>> \in (0..shape[1] - 1) \X (0..shape[2] - 1) :
                          i * strides[1] + j * strides[2] = k - 1}
            IN  IF at = {} THEN Null
                ELSE LET e == CHOOSE x \in at : TRUE
                     IN  IF transposed THEN <<e[2], e[1]>> ELSE e]]

\* Row-major, column-major, and every other element of a larger array.
Strides(shape) == {<<shape[2], 1>>, <<1, shape[1]>>, <<2 * shape[2], 2>>}

Arg(data, array, channels) ==
    [data |-> data, array |-> array, channels |-> channels, sample_rate |-> 8,
     channels_first |-> "None", codec |-> "Wav", buffer_rate |-> 8,
     layout |-> "planar"]

Mono(frames) == Arg("ndarray", SamplesToPyarray(Decoded(1, frames, TRUE)), 1)

Arrays2D(frames, channels) ==
    {[Arg("ndarray", Laid(<<channels, frames>>, s, FALSE), channels)
        EXCEPT !.channels_first = cf] :
            s \in Strides(<<channels, frames>>), cf \in {"None", "True"}}
    \cup {[Arg("ndarray", Laid(<<frames, channels>>, s, TRUE), channels)
        EXCEPT !.channels_first = "False"] : s \in Strides(<<frames, channels>>)}

Buffers(frames, channels) ==
    {[Arg("AudioBuffer", SamplesToPyarray(Decoded(channels, frames, cf)),
          channels)
        EXCEPT !.layout = IF cf THEN "planar" ELSE "interleaved",
               !.sample_rate = rate] : cf \in BOOLEAN, rate \in {0, 8}}

RefusedArgs(frames) ==
    {[Mono(frames) EXCEPT !.sample_rate = 0], [Mono(frames) EXCEPT !.data = "list"],
     [Mono(frames) EXCEPT !.codec = "other"],
     [Mono(frames) EXCEPT !.data = "AudioBuffer", !.channels_first = "True"],
     [Mono(frames) EXCEPT !.array.shape = <<1, 1, frames>>],
     [Mono(frames) EXCEPT !.array.shape = <<0, frames>>,
                          !.array.strides = <<frames, 1>>],
     [Mono(frames) EXCEPT !.data = "AudioBuffer", !.buffer_rate = 0,
                          !.sample_rate = 0]}

ArgsOf(frames) ==
    {Mono(frames)} \cup RefusedArgs(frames)
    \cup UNION {Buffers(frames, channels) : channels \in 1..3}
    \cup {a \in Buffers(frames, 4) : a.layout = "interleaved"}
    \cup (IF frames = 0 THEN {}
          ELSE UNION {Arrays2D(frames, channels) : channels \in 1..3})

Job(frames, frame_size, faulty, arg) ==
    [frames |-> frames, frame_size |-> frame_size, faulty |-> faulty,
     arg |-> arg]

PyJobs ==
    {Job(n, size, faulty, Mono(n)) :
        n \in 0..10, size \in 1..5, faulty \in {{}, FFmpegCalls}}
    \cup {Job(n, 2, {}, arg) : <<n, arg>> \in
             UNION {{n} \X ArgsOf(n) : n \in {0, 3, 5}}}
=============================================================================
