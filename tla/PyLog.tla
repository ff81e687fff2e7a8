-------------------------------- MODULE PyLog --------------------------------
(***************************************************************************)
(* set_log() of the Python binding over LogBridge, in an interpreter that  *)
(* has a lock (the GIL); a free-threaded one has none, the module being    *)
(* declared gil_used = false, and there LogBridge itself is the model.     *)
(*                                                                         *)
(* A thread has the GIL when it enters set_log and does not let go of it   *)
(* around log_set.  A handler needs the GIL while it runs (Python::attach).*)
(* The interpreter may take the GIL from a thread that runs Python code    *)
(* and give it back later: from a handler, and from set_log while it drops *)
(* the handler it replaces, which may run a finalizer, under the write     *)
(* guard.  The threads that log do so from load(), save() and info(),      *)
(* which give the GIL up (py.detach) first, or are FFmpeg's own.           *)
(***************************************************************************)
EXTENDS LogBridge

VARIABLES gil,         \* the thread that holds the GIL, or None
          dropping     \* the thread that drops the old handler, or None

pyVars == <<vars, gil, dropping>>

PyInit == Init /\ gil = None /\ dropping = None

\* A Python thread calls set_log.
SetLog(s, v) ==
    /\ gil = None
    /\ Reset(s, v)
    /\ gil' = s
    /\ UNCHANGED dropping

\* log_set has the write guard and replaces a handler, which is dropped first.
BeginDrop(s) ==
    /\ gil = s /\ dropping = None
    /\ set_pc[s] \in {"store", "waiting"}
    /\ Readers = {}
    /\ CALLBACK # None
    /\ dropping' = s
    /\ UNCHANGED <<vars, gil>>

\* The guard is released.
StoreHandler(s) ==
    /\ gil = s
    /\ dropping = IF CALLBACK = None THEN None ELSE s
    /\ Store(s)
    /\ dropping' = None
    /\ UNCHANGED gil

\* What else log_set does with the GIL held, up to its last step ...
KeepGil(s) ==
    /\ gil = s
    /\ Wait(s) \/ SetLevel(s)
    /\ UNCHANGED <<gil, dropping>>

\* ... after which set_log returns.
SetLogReturns(s) ==
    /\ gil = s
    /\ Install(s) \/ Restore(s)
    /\ gil' = None
    /\ UNCHANGED dropping

\* The threads that run Python code inside the bridge: the handler, and the
\* finalizer of the one that is replaced.
RunsPython(t) == dropping = t \/ (t \in Loggers /\ log_pc[t] = "callback")

\* Python::attach in the callback, or the interpreter resuming a thread.
Attach(t) ==
    /\ RunsPython(t)
    /\ gil = None
    /\ gil' = t
    /\ UNCHANGED <<vars, dropping>>

\* The interpreter's switch interval.
SwitchAway(t) ==
    /\ RunsPython(t)
    /\ gil = t
    /\ gil' = None
    /\ UNCHANGED <<vars, dropping>>

HandlerReturns(t) ==
    /\ gil = t
    /\ EndDispatch(t)
    /\ gil' = None
    /\ UNCHANGED dropping

\* What a logging thread does without the GIL.
StartLog(t) == CallAvLog(t) /\ UNCHANGED <<gil, dropping>>

LogWithoutGil(t) ==
    /\ \/ PrintToStderr(t) \/ Accumulate(t)
       \/ \E newline \in BOOLEAN : \/ Detach(t, newline)
                                  \/ LoseFragment(t, newline)
                                  \/ LoseLine(t, newline)
       \/ /\ dropping = None
          /\ BeginDispatch(t) \/ DispatchToNobody(t)
    /\ UNCHANGED <<gil, dropping>>

InSetLog(s) ==
    BeginDrop(s) \/ StoreHandler(s) \/ KeepGil(s) \/ SetLogReturns(s)

PyNext ==
    \/ \E s \in Setters : InSetLog(s) \/ \E v \in Settings : SetLog(s, v)
    \/ \E t \in Setters \cup Loggers : Attach(t) \/ SwitchAway(t)
    \/ \E t \in Loggers : HandlerReturns(t) \/ StartLog(t) \/ LogWithoutGil(t)

PySpec == PyInit /\ [][PyNext]_pyVars

\* Every thread runs, a thread that asks for the GIL gets it in the end, and
\* a handler or a finalizer that has it returns in the end.
PyFairSpec ==
    /\ PySpec
    /\ \A t \in Setters \cup Loggers : SF_pyVars(Attach(t))
    /\ \A s \in Setters : SF_pyVars(InSetLog(s))
    /\ \A t \in Loggers : /\ SF_pyVars(HandlerReturns(t))
                          /\ WF_pyVars(LogWithoutGil(t))
-----------------------------------------------------------------------------
\* "It may be called from any thread, including internal codec worker threads"
\* (the documentation of set_log): a handler that is called on another thread
\* while set_log runs does not keep set_log from returning.
SetLogCallsReturn == \A s \in Setters : []<>(set_pc[s] = "idle")
=============================================================================
