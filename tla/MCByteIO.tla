------------------------------ MODULE MCByteIO ------------------------------
(***************************************************************************)
(* BytesCall for every entry point, with files of up to 4 bytes and seeks  *)
(* before the start, inside, to the end, past the end and past the largest *)
(* offset (MaxI64 = 6).                                                    *)
(***************************************************************************)
EXTENDS BytesCall

AllCalls == DOMAIN Program

SmallOffsets == {-7, -1, 0, 1, 3, 6}
=============================================================================
