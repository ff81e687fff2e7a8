------------------------------- MODULE Arrays -------------------------------
(***************************************************************************)
(* How samples lie in memory on their way between Python and the encoder:  *)
(* NumPy arrays with strides, the Vec of an AudioBuffer, and the planes    *)
(* handed to swr_convert.  The sample of channel c and frame f is <<c, f>>,*)
(* so that a swapped, shifted or stale sample shows.  Indices start at 0.  *)
(***************************************************************************)
EXTENDS Runs, SequencesExt

CONSTANT AV_NUM_DATA_POINTERS    \* entries of the array of plane pointers

ASSUME PlanePointers == AV_NUM_DATA_POINTERS \in Nat \ {0}

Null == <<-1, -1>>               \* no sample there
-----------------------------------------------------------------------------
(* An array is its shape, and for each dimension the distance in memory     *)
(* between neighbours.                                                      *)
Product(shape) == IF Len(shape) = 1 THEN shape[1] ELSE shape[1] * shape[2]

\* The element of a 1-D or 2-D array number k in logical (row-major) order.
Element(array, memory, k) ==
    memory[1 + IF Len(array.shape) = 1 THEN k * array.strides[1]
               ELSE (k \div array.shape[2]) * array.strides[1]
                    + (k % array.shape[2]) * array.strides[2]]

\* Mutant: the elements as they lie in memory.
CollectedAsTheyLie(array, memory) == SubSeq(memory, 1, Product(array.shape))

\* view.iter().copied().collect().
Collected(array, memory) ==
    [k \in 1..Product(array.shape) |-> Element(array, memory, k - 1)]

\* into_pyarray, for two dimensions after Array2::from_shape_vec.
FromVec(shape, vec) ==
    [shape |-> shape, memory |-> vec,
     strides |-> IF Len(shape) = 1 THEN <<1>> ELSE <<shape[2], 1>>]

\* samples_to_pyarray.
SamplesToPyarray(buf) ==
    FromVec(IF buf.channels = 1 THEN <<Len(buf.samples)>>
            ELSE IF buf.layout = "planar" THEN <<buf.channels, buf.frames>>
            ELSE <<buf.frames, buf.channels>>,
            buf.samples)

\* pyarray_to_samples, of an array of at most two dimensions.
PyarrayToSamples(array, memory, channels_first) ==
    LET shape == array.shape
        dims == IF Len(shape) = 1 THEN <<1, shape[1], "planar">>
                ELSE IF channels_first THEN <<shape[1], shape[2], "planar">>
                ELSE <<shape[2], shape[1], "interleaved">>
    IN  [samples |-> Collected(array, memory),
         channels |-> dims[1], frames |-> dims[2], layout |-> dims[3]]
-----------------------------------------------------------------------------
\* What decode returns of a stream: Sample::into_planar joins the planes
\* (flatten_planes), into_packed takes the one buffer as it is.
Decoded(channels, frames, channels_first) ==
    [samples |-> IF channels_first
                 THEN FlattenSeq([c \in 1..channels |->
                                     [f \in 1..frames |-> <<c - 1, f - 1>>]])
                 ELSE [k \in 1..channels * frames |->
                          <<(k - 1) % channels, (k - 1) \div channels>>],
     channels |-> channels, frames |-> frames,
     layout |-> IF channels_first THEN "planar" ELSE "interleaved"]

\* validate_buffer.
ValidateBuffer(buf) ==
    /\ buf.channels # 0
    /\ buf.sample_rate # 0
    /\ Len(buf.samples) = buf.channels * buf.frames

\* The first sample of plane c of the chunk from chunk_start (plane_offset_bytes
\* and in_stride_bytes, in samples); only so many planes get a pointer.
PlaneStart(buf, c, chunk_start) ==
    IF buf.layout = "planar" THEN c * buf.frames + chunk_start
    ELSE chunk_start * buf.channels

\* The sample of channel c that swr_convert reads for frame i of a chunk.
InputSample(buf, c, chunk_start, i) ==
    IF buf.layout = "planar"
    THEN IF c < AV_NUM_DATA_POINTERS
         THEN buf.samples[1 + PlaneStart(buf, c, chunk_start) + i] ELSE Null
    ELSE buf.samples[1 + PlaneStart(buf, 0, chunk_start) + i * buf.channels + c]
=============================================================================
