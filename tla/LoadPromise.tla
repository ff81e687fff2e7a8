----------------------------- MODULE LoadPromise -----------------------------
(***************************************************************************)
(* What load() promises, without saying how: the buffer it returns holds   *)
(* the frames of the stream from frame_offset on, at most num_frames of    *)
(* them, each once and in order; a call that fails returns no buffer.  The *)
(* one failure it does not report is that of the last flush of the         *)
(* resampler, which costs the end of the window at most Withheld frames.   *)
(***************************************************************************)
EXTENDS LoadRequest

CONSTANT Withheld      \* the most a resampler holds back

VARIABLES job,         \* the call under way
          delivered,   \* the frames in the buffer so far
          outcome      \* "pending", "ok" or "err"

promiseVars == <<job, delivered, outcome>>

Init ==
    /\ job \in Jobs
    /\ delivered = << >>
    /\ outcome = "pending"

Extend ==
    /\ outcome = "pending"
    /\ \E n \in Len(delivered)..WindowLength(job) :
          delivered' = Run(job.frame_offset, n)
    /\ UNCHANGED <<job, outcome>>

\* What a returned buffer lacks at its end.
Missing == WindowLength(job) - Len(delivered)

Return ==
    /\ outcome = "pending"
    /\ Missing <= IF job.flushes THEN 0 ELSE Withheld
    /\ outcome' = "ok"
    /\ UNCHANGED <<job, delivered>>

Fail ==
    /\ outcome = "pending"
    /\ outcome' = "err"
    /\ UNCHANGED <<job, delivered>>

Next == Extend \/ Return \/ Fail

Spec == Init /\ [][Next]_promiseVars
=============================================================================
