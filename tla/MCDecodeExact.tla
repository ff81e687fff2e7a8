---------------------------- MODULE MCDecodeExact ----------------------------
(***************************************************************************)
(* DecodeLoop under the assumptions of the proofs.  Half = 16 stands for   *)
(* 2^63: every number of these jobs is below it.                           *)
(***************************************************************************)
EXTENDS DecodeLoopProofs

\* Files of up to 5 frames, windows that start and end inside, at the end of
\* and past the file; PTS may be absent when nothing is sought.
ExactJobs ==
    [total : 0..5, first : {0}, frame_offset : 0..6,
     num_frames : 1..5 \cup {NoLimit}, stamped : {TRUE}, flushes : BOOLEAN]
    \cup
    [total : 0..5, first : {0}, frame_offset : {0},
     num_frames : 1..5 \cup {NoLimit}, stamped : {FALSE}, flushes : BOOLEAN]

\* Every call whose failure the code reports.
ReportedFaults == {"setup", "seek", "read", "send", "receive", "convert"}
=============================================================================
