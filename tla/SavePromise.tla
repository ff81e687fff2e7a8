----------------------------- MODULE SavePromise -----------------------------
(***************************************************************************)
(* What save() and save_bytes() promise, without saying how: the file      *)
(* holds every frame of the buffer once and in order, cut into packets of  *)
(* frame_size frames (the last one may be shorter), each stamped with the  *)
(* position of its first frame; a call fails only when FFmpeg does.        *)
(* A job is a buffer of job.frames frames, an encoder that takes           *)
(* job.frame_size frames at a time, and job.faulty, the calls that fail.   *)
(***************************************************************************)
EXTENDS Runs

CONSTANT Jobs          \* the buffers and encoders save() is called with

VARIABLES job,         \* the call under way
          packets,     \* what the file holds so far
          outcome      \* "pending", "ok" or "err"

promiseVars == <<job, packets, outcome>>

\* The position after the last frame of the packets ps.
End(ps) == IF ps = << >> THEN 0
           ELSE LET last == ps[Len(ps)] IN last.pts + Len(last.frames)

Init ==
    /\ job \in Jobs
    /\ packets = << >>
    /\ outcome = "pending"

Write(n) ==
    /\ outcome = "pending"
    /\ LET at == End(packets)
       IN  /\ n = Smaller(job.frame_size, job.frames - at)
           /\ packets' = Append(packets, [pts |-> at, frames |-> Run(at, n)])
    /\ UNCHANGED <<job, outcome>>

Return ==
    /\ outcome = "pending"
    /\ End(packets) = job.frames
    /\ outcome' = "ok"
    /\ UNCHANGED <<job, packets>>

Fail ==
    /\ outcome = "pending"
    /\ job.faulty # {}
    /\ outcome' = "err"
    /\ UNCHANGED <<job, packets>>

Next == (\E n \in 1..job.frame_size : Write(n)) \/ Return \/ Fail

Spec == Init /\ [][Next]_promiseVars
=============================================================================
