--------------------------- MODULE MCDecodeInexact ---------------------------
(***************************************************************************)
(* DecodeLoop on streams whose PTS do not name the frame exactly: a time   *)
(* base of five frames per tick (Matroska's is a millisecond, 44.1 frames  *)
(* at 44.1 kHz), and a stream that does not start at PTS 0 (MPEG-TS, MP3   *)
(* with encoder delay).                                                    *)
(***************************************************************************)
EXTENDS DecodeLoop

Stamped(totals, firsts, offsets, limits) ==
    [total : totals, first : firsts, frame_offset : offsets,
     num_frames : limits, stamped : {TRUE}, flushes : {TRUE}]

CoarseJobs == Stamped({10}, {0}, {0}, {7})
SeekJobs == Stamped({10}, {0}, {3}, {NoLimit})
LateJobs == Stamped({6}, {2}, 0..3, {NoLimit})

NoFaults == {}
=============================================================================
