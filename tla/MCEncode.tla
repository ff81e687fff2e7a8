------------------------------ MODULE MCEncode ------------------------------
(***************************************************************************)
(* EncodeLoop with a buffer of as many frames as the integer of a chunk    *)
(* has values (Half = 4).                                                  *)
(***************************************************************************)
EXTENDS EncodeLoop

WideJobs == [frames : {8}, frame_size : {2}, faulty : {{}}]
=============================================================================
