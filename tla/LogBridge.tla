------------------------------ MODULE LogBridge ------------------------------
(***************************************************************************)
(* log.rs and log_shim.c: threads that call log_set() change FFmpeg's      *)
(* global logger while other threads log through it.                       *)
(*                                                                         *)
(* FFmpeg's av_log() loads the handler and calls it.  The shim's handler   *)
(* appends the fragment to one line buffer shared by all threads, under a  *)
(* spinlock (each critical section is one step here); once a newline       *)
(* completes the line it releases the lock and hands the line to           *)
(* codecpod_log_dispatch, which calls the callback under the read guard    *)
(* of CALLBACK.  A writer waits for the readers, and while it waits no     *)
(* new reader enters (std's RwLock).                                       *)
(***************************************************************************)
EXTENDS Integers, Sequences

CONSTANTS Setters,       \* threads that call log_set
          Loggers,       \* threads on which FFmpeg logs
          Callbacks, Levels,
          Quiet,         \* the level set by the shim's constructor
          None,          \* no callback
          MaxSets,       \* bound: calls of log_set
          MaxFragments   \* bound: calls of av_log of each thread

ASSUME ConstantsAssumption ==
    /\ Quiet \in Levels
    /\ None \notin Callbacks
    /\ Levels \cap Callbacks = {}
    /\ MaxSets \in Nat
    /\ MaxFragments \in Nat

VARIABLES handler,       \* FFmpeg's log callback: "default" or "shim"
          av_level,      \* FFmpeg's log level
          CALLBACK,
          set_pc, setting,         \* of each setter: where in set(), with what
          sets,                    \* calls of log_set so far
          latest,                  \* history: who made the last call
          log_pc, sent,            \* of each logger: where in av_log, calls so far
          line, running,           \* of each logger: detached line, callback run
          acc, print_prefix,       \* the shim's line buffer
          cut,                     \* history: the last line was cut off
          lost                     \* history: memory ran out in the shim

setVars == <<handler, av_level, CALLBACK, set_pc, setting, sets, latest>>
logVars == <<log_pc, sent, line, running, lost>>
shimVars == <<acc, print_prefix, cut>>
vars == <<setVars, logVars, shimVars>>

Settings == Levels \cup Callbacks
-----------------------------------------------------------------------------
\* Mutant: dispatch takes the callback out and releases the guard first.
NoReaders == {}

\* Mutant: dispatch takes the guard, and again for the call.
EagerReaders == {t \in Loggers : log_pc[t] \in {"dispatch", "callback"}}

\* The threads that hold the read guard of CALLBACK.
Readers == {t \in Loggers : log_pc[t] = "callback"}

\* The threads that wait for the write guard.
Writers == {s \in Setters : set_pc[s] = "waiting"}

\* Mutant: whatever is set is stored.
StoredAsIs(v) == v

\* What CALLBACK becomes when v is set.
Stored(v) == IF v \in Callbacks THEN v ELSE None

Init ==
    /\ handler = "default"
    /\ av_level = Quiet
    /\ CALLBACK = None
    /\ set_pc = [s \in Setters |-> "idle"]
    /\ setting = [s \in Setters |-> Quiet]
    /\ sets = 0
    /\ latest = Setters
    /\ log_pc = [t \in Loggers |-> "idle"]
    /\ sent = [t \in Loggers |-> 0]
    /\ line = [t \in Loggers |-> << >>]
    /\ running = [t \in Loggers |-> None]
    /\ acc = << >>
    /\ print_prefix = TRUE
    /\ cut = FALSE
    /\ lost = FALSE
-----------------------------------------------------------------------------
(* log_set().                                                              *)

\* The threads inside log_set.
Inside == {s \in Setters : set_pc[s] # "idle"}

\* Mutant: the reset leaves the prefix state alone.
ResetAccOnly(s, v) ==
    /\ set_pc[s] = "idle"
    /\ sets < MaxSets
    /\ sets' = sets + 1
    /\ setting' = [setting EXCEPT ![s] = v]
    /\ latest' = {s} \cup Inside
    /\ acc' = << >>
    /\ cut' = FALSE
    /\ set_pc' = [set_pc EXCEPT ![s] = "store"]
    /\ UNCHANGED <<handler, av_level, CALLBACK, logVars, print_prefix>>

\* log_set(v) is called: codecpod_log_reset.  The call comes after those that
\* have returned and overlaps those that have not: any of these may be the last.
Reset(s, v) ==
    /\ set_pc[s] = "idle"
    /\ sets < MaxSets
    /\ sets' = sets + 1
    /\ setting' = [setting EXCEPT ![s] = v]
    /\ latest' = {s} \cup Inside
    /\ acc' = << >>
    /\ print_prefix' = TRUE
    /\ cut' = FALSE
    /\ set_pc' = [set_pc EXCEPT ![s] = "store"]
    /\ UNCHANGED <<handler, av_level, CALLBACK, logVars>>

\* CALLBACK.write() while a callback runs.
Wait(s) ==
    /\ set_pc[s] = "store"
    /\ Readers # {}
    /\ set_pc' = [set_pc EXCEPT ![s] = "waiting"]
    /\ UNCHANGED <<handler, av_level, CALLBACK, setting, sets, latest, logVars,
                   shimVars>>

\* *CALLBACK.write() = ...; the old callback is dropped under the guard.
Store(s) ==
    /\ set_pc[s] \in {"store", "waiting"}
    /\ Readers = {}
    /\ CALLBACK' = Stored(setting[s])
    /\ set_pc' = [set_pc EXCEPT ![s] =
                     IF setting[s] \in Callbacks THEN "install" ELSE "level"]
    /\ UNCHANGED <<handler, av_level, setting, sets, latest, logVars,
                   shimVars>>

\* codecpod_log_install.
Install(s) ==
    /\ set_pc[s] = "install"
    /\ handler' = "shim"
    /\ set_pc' = [set_pc EXCEPT ![s] = "idle"]
    /\ UNCHANGED <<av_level, CALLBACK, setting, sets, latest, logVars,
                   shimVars>>

\* codecpod_log_restore: av_log_set_level ...
SetLevel(s) ==
    /\ set_pc[s] = "level"
    /\ av_level' = setting[s]
    /\ set_pc' = [set_pc EXCEPT ![s] = "restore"]
    /\ UNCHANGED <<handler, CALLBACK, setting, sets, latest, logVars,
                   shimVars>>

\* Mutant: the handler is left in place when a level is set.
KeepHandler(s) ==
    /\ set_pc[s] = "restore"
    /\ set_pc' = [set_pc EXCEPT ![s] = "idle"]
    /\ UNCHANGED <<handler, av_level, CALLBACK, setting, sets, latest, logVars,
                   shimVars>>

\* ... and av_log_set_callback(av_log_default_callback).
Restore(s) ==
    /\ set_pc[s] = "restore"
    /\ handler' = "default"
    /\ set_pc' = [set_pc EXCEPT ![s] = "idle"]
    /\ UNCHANGED <<av_level, CALLBACK, setting, sets, latest, logVars,
                   shimVars>>
-----------------------------------------------------------------------------
(* av_log().                                                               *)

\* av_log loads the handler.
CallAvLog(t) ==
    /\ log_pc[t] = "idle"
    /\ sent[t] < MaxFragments
    /\ sent' = [sent EXCEPT ![t] = @ + 1]
    /\ log_pc' = [log_pc EXCEPT ![t] = handler]
    /\ UNCHANGED <<setVars, line, running, lost, shimVars>>

\* FFmpeg's default handler prints the fragment to stderr, or not.
PrintToStderr(t) ==
    /\ log_pc[t] = "default"
    /\ log_pc' = [log_pc EXCEPT ![t] = "idle"]
    /\ UNCHANGED <<setVars, sent, line, running, lost, shimVars>>

Fragment(t) == [by |-> t, n |-> sent[t], prefixed |-> print_prefix]

\* A fragment without a newline is appended.  (FFmpeg's libraries end no
\* fragment in a carriage return.)
Accumulate(t) ==
    /\ log_pc[t] = "shim"
    /\ acc' = Append(acc, Fragment(t))
    /\ print_prefix' = FALSE
    /\ log_pc' = [log_pc EXCEPT ![t] = "idle"]
    /\ UNCHANGED <<setVars, sent, line, running, lost, cut>>

\* Mutant: the shared buffer is not emptied when its line is detached.
DetachCopy(t, newline) ==
    /\ log_pc[t] = "shim"
    /\ line' = [line EXCEPT ![t] = Append(acc, Fragment(t))]
    /\ acc' = Append(acc, Fragment(t))
    /\ print_prefix' = newline
    /\ cut' = ~newline
    /\ log_pc' = [log_pc EXCEPT ![t] = "dispatch"]
    /\ UNCHANGED <<setVars, sent, running, lost>>

\* A fragment with a newline completes the line, which is detached.  So does
\* one of LINE_SIZE or more, even if it has no newline.
Detach(t, newline) ==
    /\ log_pc[t] = "shim"
    /\ line' = [line EXCEPT ![t] = Append(acc, Fragment(t))]
    /\ acc' = << >>
    /\ print_prefix' = newline
    /\ cut' = ~newline
    /\ log_pc' = [log_pc EXCEPT ![t] = "dispatch"]
    /\ UNCHANGED <<setVars, sent, running, lost>>

\* The fragment cannot be formatted or stored (realloc): it is gone, the
\* prefix state moves on all the same.
LoseFragment(t, newline) ==
    /\ log_pc[t] = "shim"
    /\ print_prefix' = newline
    /\ log_pc' = [log_pc EXCEPT ![t] = "idle"]
    /\ lost' = TRUE
    /\ UNCHANGED <<setVars, sent, line, running, acc, cut>>

\* A completed line cannot be copied (malloc): it is gone.
LoseLine(t, newline) ==
    /\ log_pc[t] = "shim"
    /\ acc' = << >>
    /\ print_prefix' = newline
    /\ cut' = ~newline
    /\ log_pc' = [log_pc EXCEPT ![t] = "idle"]
    /\ lost' = TRUE
    /\ UNCHANGED <<setVars, sent, line, running>>

\* codecpod_log_dispatch takes the read guard and finds a callback ...
BeginDispatch(t) ==
    /\ log_pc[t] = "dispatch"
    /\ Writers = {}
    /\ CALLBACK # None
    /\ running' = [running EXCEPT ![t] = CALLBACK]
    /\ log_pc' = [log_pc EXCEPT ![t] = "callback"]
    /\ UNCHANGED <<setVars, sent, line, lost, shimVars>>

\* ... or none.
DispatchToNobody(t) ==
    /\ log_pc[t] = "dispatch"
    /\ Writers = {}
    /\ CALLBACK = None
    /\ line' = [line EXCEPT ![t] = << >>]
    /\ log_pc' = [log_pc EXCEPT ![t] = "idle"]
    /\ UNCHANGED <<setVars, sent, running, lost, shimVars>>

\* The callback returns or panics; the guard is released, the line freed.
EndDispatch(t) ==
    /\ log_pc[t] = "callback"
    /\ running' = [running EXCEPT ![t] = None]
    /\ line' = [line EXCEPT ![t] = << >>]
    /\ log_pc' = [log_pc EXCEPT ![t] = "idle"]
    /\ UNCHANGED <<setVars, sent, lost, shimVars>>
-----------------------------------------------------------------------------
\* What a thread does inside log_set, and inside av_log.
InSet(s) == Wait(s) \/ Store(s) \/ Install(s) \/ SetLevel(s) \/ Restore(s)

InLog(t) ==
    \/ PrintToStderr(t) \/ Accumulate(t)
    \/ \E newline \in BOOLEAN : \/ Detach(t, newline)
                               \/ LoseFragment(t, newline)
                               \/ LoseLine(t, newline)
    \/ BeginDispatch(t) \/ DispatchToNobody(t) \/ EndDispatch(t)

Next ==
    \/ \E s \in Setters : InSet(s) \/ \E v \in Settings : Reset(s, v)
    \/ \E t \in Loggers : InLog(t) \/ CallAvLog(t)

Spec == Init /\ [][Next]_vars

\* The operating system runs every thread, and a callback returns; nobody
\* has to call log_set or av_log.
FairSpec ==
    /\ Spec
    /\ \A s \in Setters : WF_vars(InSet(s))
    /\ \A t \in Loggers : WF_vars(InLog(t))
-----------------------------------------------------------------------------
Fragments == [by : Loggers, n : 1..MaxFragments, prefixed : BOOLEAN]

TypeOK ==
    /\ handler \in {"default", "shim"}
    /\ av_level \in Levels
    /\ CALLBACK \in Callbacks \cup {None}
    /\ set_pc \in [Setters -> {"idle", "store", "waiting", "install", "level",
                               "restore"}]
    /\ setting \in [Setters -> Settings]
    /\ sets \in 0..MaxSets
    /\ latest \subseteq Setters
    /\ log_pc \in [Loggers -> {"idle", "default", "shim", "dispatch",
                               "callback"}]
    /\ sent \in [Loggers -> 0..MaxFragments]
    /\ line \in [Loggers -> Seq(Fragments)]
    /\ running \in [Loggers -> Callbacks \cup {None}]
    /\ acc \in Seq(Fragments)
    /\ print_prefix \in BOOLEAN /\ cut \in BOOLEAN /\ lost \in BOOLEAN

\* A callback that runs is the one installed: it is never dropped under a
\* thread that runs it, and once log_set has replaced it no thread is still
\* inside it (dispatch holds the read guard throughout the call).
RunningIsInstalled ==
    \A t \in Loggers : running[t] # None => running[t] = CALLBACK

\* What a thread configures with v.
Configured(v) ==
    IF v \in Callbacks
    THEN handler = "shim" /\ CALLBACK = v
    ELSE handler = "default" /\ CALLBACK = None /\ av_level = v

\* "The setting is process-global, so the last call wins across all threads"
\* (lib.rs): when no call is under way, handler, level and callback are all
\* those of the last call, or of one of the last if several overlapped; a call
\* that returned before another one began has left nothing.
LastCallWins ==
    (\A s \in Setters : set_pc[s] = "idle") =>
        \E s \in latest : Configured(setting[s])

\* The lines handed on are made of fragments of which none is handed on a
\* second time, by this thread or another, or left in the buffer.
Parts(q) == {<<q[i].by, q[i].n>> : i \in 1..Len(q)}
EachFragmentOnce ==
    \A t \in Loggers :
        /\ Parts(line[t]) \cap Parts(acc) = {}
        /\ \A u \in Loggers \ {t} : Parts(line[t]) \cap Parts(line[u]) = {}

\* "the same text FFmpeg's default handler would print, including any prefix"
\* (the documentation of set_log), "only the first such fragment carries the
\* prefix" (lib.rs): the shim's buffer starts every line with a prefix, but for
\* the rest of a line that was cut off, and puts none inside a line, whatever
\* the threads that build it and whatever log_set throws away, until memory
\* runs out.
LinesHaveOnePrefix ==
    \/ lost
    \/ /\ \A q \in {acc} \cup {line[t] : t \in Loggers} :
             \A i \in 2..Len(q) : ~q[i].prefixed
       /\ print_prefix <=> acc = << >> /\ ~cut

\* "so switching handlers never fuses leftover fragments" (log.rs): of each
\* thread, a line holds fragments that follow one another.
SwitchNeverFuses ==
    \A t \in Loggers : \A i, j \in 1..Len(line[t]) :
        LET q == line[t] IN
        \/ lost \/ i >= j \/ q[i].by # q[j].by
        \/ \A n \in q[i].n + 1..q[j].n - 1 :
              <<q[i].by, n>> \in Parts(q)

\* Every call of log_set returns, and every call of av_log does: writers wait
\* for callbacks that end, readers for writers that store.
CallsReturn ==
    /\ \A s \in Setters : []<>(set_pc[s] = "idle")
    /\ \A t \in Loggers : []<>(log_pc[t] = "idle")
=============================================================================
