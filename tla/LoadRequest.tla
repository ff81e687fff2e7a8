----------------------------- MODULE LoadRequest -----------------------------
(***************************************************************************)
(* What a call of load() asks for, and what it meets.  A job is a file,    *)
(* the LoadOptions and a resampler:                                        *)
(*   total         the file's frames,                                      *)
(*   first         the PTS of the first one, in frames,                    *)
(*   stamped       whether every decoded frame carries its PTS,            *)
(*   frame_offset  and num_frames, the window to load,                     *)
(*   flushes       whether the resampler gives out at the end all it holds.*)
(***************************************************************************)
EXTENDS Runs

CONSTANTS Jobs,        \* the files and options load() is called with
          NoLimit      \* num_frames: None

\* The options ask for num_frames of the frames after frame_offset, or for all
\* of them.
WindowLength(j) ==
    LET left == Larger(0, j.total - j.frame_offset)
    IN  IF j.num_frames = NoLimit THEN left ELSE Smaller(left, j.num_frames)
=============================================================================
