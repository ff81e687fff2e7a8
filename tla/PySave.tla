------------------------------- MODULE PySave -------------------------------
(***************************************************************************)
(* save() and save_bytes() of the Python binding around EncodeLoop: the    *)
(* argument is checked and copied while the thread holds the interpreter's *)
(* lock, then the thread detaches and encodes.  Meanwhile other Python     *)
(* threads run, and may write to the array they share with it.             *)
(*                                                                         *)
(* job.arg is what was passed: data, the kind of object; the array in it   *)
(* (array); sample_rate (0 for None); channels_first ("None", "True" or    *)
(* "False"); codec; and for an AudioBuffer its own rate and layout.        *)
(***************************************************************************)
EXTENDS EncodeLoop, Arrays

VARIABLES py_pc,       \* "called", "detached", "returned" or "raised"
          memory,      \* of the array passed
          audio        \* the AudioBuffer built from it

pyVars == <<py_pc, memory, audio>>
allVars == <<vars, pyVars>>

NoAudio == [samples |-> << >>, channels |-> 0, frames |-> 0,
            layout |-> "planar", sample_rate |-> 0]
-----------------------------------------------------------------------------
\* The sample rate of the buffer: an explicit one comes first, the one of an
\* AudioBuffer next.
Rate(arg) == IF arg.sample_rate # 0 THEN arg.sample_rate
             ELSE IF arg.data = "AudioBuffer" THEN arg.buffer_rate ELSE 0

ChannelsFirst(arg) == IF arg.data = "AudioBuffer" THEN arg.layout # "interleaved"
                      ELSE arg.channels_first # "False"

\* What build_audio_buffer, pyarray_to_samples and resolve_codec raise for: an
\* AudioBuffer with channels_first, an array without a rate or of more than two
\* dimensions, another type of samples or of codec.
Unacceptable(arg) ==
    \/ arg.data = "AudioBuffer" /\ arg.channels_first # "None"
    \/ arg.data = "ndarray" /\ arg.sample_rate = 0
    \/ Len(arg.array.shape) > 2
    \/ arg.data \notin {"AudioBuffer", "ndarray"}
    \/ arg.codec = "other"

\* What is passed is job.frames frames of arg.channels channels: the sample of
\* channel c and frame f lies where shape, strides and the order of the
\* dimensions say.
Describes(arg, frames) ==
    LET shape == arg.array.shape
        strides == arg.array.strides
        cells == arg.array.memory
    IN  \/ /\ shape = <<frames>> /\ arg.channels = 1
           /\ \A f \in 0..frames - 1 : cells[1 + f * strides[1]] = <<0, f>>
        \/ /\ ChannelsFirst(arg)
           /\ shape = <<arg.channels, frames>>
           /\ \A c \in 0..arg.channels - 1, f \in 0..frames - 1 :
                 cells[1 + (c * strides[1] + f * strides[2])] = <<c, f>>
        \/ /\ ~ChannelsFirst(arg)
           /\ shape = <<frames, arg.channels>>
           /\ \A c \in 0..arg.channels - 1, f \in 0..frames - 1 :
                 cells[1 + (f * strides[1] + c * strides[2])] = <<c, f>>

\* The samples of an argument as it was passed.
Passed(arg) == PyarrayToSamples(arg.array, arg.array.memory, ChannelsFirst(arg))

\* A call that is not refused passes what its job says, or no channel at all.
ASSUME PyArguments ==
    \A j \in Jobs : /\ j.arg.channels \in Nat
                    /\ \/ Unacceptable(j.arg)
                       \/ Passed(j.arg).channels = 0
                       \/ Describes(j.arg, j.frames)
-----------------------------------------------------------------------------
PyInit ==
    /\ Init
    /\ py_pc = "called"
    /\ memory = job.arg.array.memory
    /\ audio = NoAudio

RaiseForArgument ==
    /\ py_pc = "called"
    /\ Unacceptable(job.arg)
    /\ py_pc' = "raised"
    /\ UNCHANGED <<vars, memory, audio>>

\* build_audio_buffer; py.detach.
BuildAudioBuffer ==
    /\ py_pc = "called"
    /\ ~Unacceptable(job.arg)
    /\ LET samples == PyarrayToSamples(job.arg.array, memory,
                                       ChannelsFirst(job.arg))
       IN  audio' = [NoAudio EXCEPT !.samples = samples.samples,
                                    !.channels = samples.channels,
                                    !.frames = samples.frames,
                                    !.layout = samples.layout,
                                    !.sample_rate = Rate(job.arg)]
    /\ py_pc' = "detached"
    /\ UNCHANGED <<vars, memory>>

\* validate_buffer refuses the buffer.
RefuseBuffer ==
    /\ py_pc = "detached"
    /\ ~ValidateBuffer(audio)
    /\ py_pc' = "raised"
    /\ UNCHANGED <<vars, memory, audio>>

Encode ==
    /\ py_pc = "detached"
    /\ ValidateBuffer(audio)
    /\ Next
    /\ UNCHANGED pyVars

\* The encoding is done and the thread attaches again.
Attach ==
    /\ py_pc = "detached"
    /\ pc \in {"ok", "err"}
    /\ py_pc' = IF pc = "ok" THEN "returned" ELSE "raised"
    /\ UNCHANGED <<vars, memory, audio>>

\* Another thread writes to the array.
Overwrite ==
    /\ py_pc = "detached"
    /\ memory' = [k \in DOMAIN memory |-> Null]
    /\ UNCHANGED <<vars, py_pc, audio>>

PyReturned == py_pc \in {"returned", "raised"} /\ UNCHANGED allVars

PyCall == RaiseForArgument \/ BuildAudioBuffer \/ RefuseBuffer \/ Encode \/ Attach

PyNext == PyCall \/ Overwrite \/ PyReturned

\* The calling thread runs, and gets the interpreter's lock back.
PySpec == PyInit /\ [][PyNext]_allVars /\ WF_allVars(PyCall)
-----------------------------------------------------------------------------
\* Whatever the array's shape, strides and layout, and whatever happens to it
\* once the call has detached, swr_convert reads of each chunk the samples that
\* were passed, channel by channel, frame by frame: copy, shape and pointer
\* arithmetic agree (docs of save: channels_first and AudioBuffer.layout).
EncoderReadsTheArgument ==
    pc = "push" /\ chunk_start < job.frames =>
        /\ audio.channels = job.arg.channels /\ audio.frames = job.frames
        /\ \A c \in 0..audio.channels - 1, i \in 0..chunk - 1 :
              InputSample(audio, c, chunk_start, i) = <<c, chunk_start + i>>

\* The call returns or raises, whatever the argument and whichever call fails.
CallReturns == <>(py_pc \in {"returned", "raised"})
=============================================================================
