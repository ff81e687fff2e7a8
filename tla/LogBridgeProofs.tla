--------------------------- MODULE LogBridgeProofs ---------------------------
(***************************************************************************)
(* LogBridge for any threads, callbacks, levels and bounds: the types; a   *)
(* callback that runs is the one installed; no fragment is in two lines;   *)
(* a line has one prefix; of calls of log_set that do not overlap the last *)
(* wins.  PyLog implements it, and with a GIL the last call wins.          *)
(***************************************************************************)
EXTENDS PyLog, TLAPS

\* A fragment has a number: a thread inside the shim has called av_log.
Started == \A t \in Loggers : log_pc[t] # "idle" => sent[t] > 0

\* A callback runs under the read guard, which a thread holds while it is in
\* "callback": RunningIsInstalled by itself does not say that the writer's
\* guard (no reader) excludes the threads that run something.
RunsUnderGuard ==
    \A t \in Loggers : running[t] # None => log_pc[t] = "callback"

\* A setter that is about to set the level was given one.
LevelToSet ==
    \A s \in Setters : set_pc[s] = "level" => setting[s] \in Levels

IInv == TypeOK /\ Started /\ RunsUnderGuard /\ RunningIsInstalled /\ LevelToSet

LEMMA AppendType ==
    ASSUME NEW q \in Seq(Fragments), NEW f \in Fragments
    PROVE  Append(q, f) \in Seq(Fragments)
OBVIOUS

LEMMA EmptyType == << >> \in Seq(Fragments)
OBVIOUS

LEMMA FragmentType ==
    ASSUME TypeOK, Started, NEW t \in Loggers, log_pc[t] = "shim"
    PROVE  Fragment(t) \in Fragments
<1>1. sent[t] \in 0..MaxFragments /\ sent[t] > 0 /\ print_prefix \in BOOLEAN
      BY DEF TypeOK, Started
<1>2. sent[t] \in 1..MaxFragments
      BY <1>1, ConstantsAssumption
<1> QED BY <1>1, <1>2 DEF Fragment, Fragments

LEMMA InitInv == Init => IInv
<1> SUFFICES ASSUME Init PROVE IInv
    OBVIOUS
<1>1. TypeOK
      <2>1. line \in [Loggers -> Seq(Fragments)] /\ acc \in Seq(Fragments)
            BY EmptyType, Zenon DEF Init
      <2>2. /\ set_pc \in [Setters -> {"idle", "store", "waiting", "install",
                                       "level", "restore"}]
            /\ log_pc \in [Loggers -> {"idle", "default", "shim", "dispatch",
                                       "callback"}]
            /\ setting \in [Setters -> Settings]
            /\ running \in [Loggers -> Callbacks \cup {None}]
            BY ConstantsAssumption, Zenon DEF Init, Settings
      <2>3. /\ sets \in 0..MaxSets /\ latest \subseteq Setters
            /\ sent \in [Loggers -> 0..MaxFragments]
            BY ConstantsAssumption DEF Init
      <2>4. /\ handler \in {"default", "shim"}
            /\ av_level \in Levels
            /\ CALLBACK \in Callbacks \cup {None}
            /\ print_prefix \in BOOLEAN /\ cut \in BOOLEAN /\ lost \in BOOLEAN
            BY ConstantsAssumption, Zenon DEF Init
      <2> QED BY <2>1, <2>2, <2>3, <2>4, Zenon DEF TypeOK
<1>2. Started /\ RunsUnderGuard /\ RunningIsInstalled /\ LevelToSet
      BY DEF Init, Started, RunsUnderGuard, RunningIsInstalled, LevelToSet
<1> QED BY <1>1, <1>2 DEF IInv

\* The steps of log_set.
LEMMA SetStep ==
    ASSUME IInv, NEW s \in Setters,
           InSet(s) \/ \E v \in Settings : Reset(s, v)
    PROVE  IInv'
<1> USE DEF IInv
<1>1. CASE \E v \in Settings : Reset(s, v)
      <2>1. PICK v \in Settings : Reset(s, v)
            BY <1>1
      <2>2. TypeOK'
            <3>1. acc' \in Seq(Fragments)
                  BY <2>1, EmptyType, Zenon DEF Reset
            <3>2. sets' \in 0..MaxSets /\ latest' \subseteq Setters
                  BY <2>1, ConstantsAssumption DEF TypeOK, Reset, Inside
            <3> HIDE DEF IInv
            <3>3. TypeOK
                  BY DEF IInv
            <3>4. /\ set_pc' = [set_pc EXCEPT ![s] = "store"]
                  /\ setting' = [setting EXCEPT ![s] = v]
                  /\ print_prefix' = TRUE /\ cut' = FALSE
                  /\ UNCHANGED <<handler, av_level, CALLBACK, log_pc, sent, line,
                                 running, lost>>
                  BY <2>1 DEF Reset, logVars
            <3> QED BY <3>1, <3>2, <3>3, <3>4 DEF TypeOK
      <2>3. Started' /\ RunsUnderGuard' /\ RunningIsInstalled'
            BY <2>1 DEF Reset, logVars, shimVars, Started, RunsUnderGuard, RunningIsInstalled
      <2>4. LevelToSet'
            BY <2>1 DEF Reset, LevelToSet, TypeOK
      <2> QED BY <2>2, <2>3, <2>4
<1>2. CASE Wait(s)
      <2>1. TypeOK'
            BY <1>2 DEF TypeOK, Wait, logVars, shimVars
      <2>2. Started' /\ RunsUnderGuard' /\ RunningIsInstalled'
            BY <1>2 DEF Wait, logVars, shimVars, Started, RunsUnderGuard, RunningIsInstalled
      <2>3. LevelToSet'
            BY <1>2 DEF Wait, LevelToSet, TypeOK
      <2> QED BY <2>1, <2>2, <2>3
<1>3. CASE Store(s)
      <2>1. \A t \in Loggers : running[t] = None
            BY <1>3 DEF Store, Readers, RunsUnderGuard
      <2>2. TypeOK'
            BY <1>3 DEF TypeOK, Store, Stored, logVars, shimVars
      <2>3. Started' /\ RunsUnderGuard' /\ RunningIsInstalled'
            BY <1>3, <2>1
            DEF Store, logVars, shimVars, Started, RunsUnderGuard, RunningIsInstalled
      <2>4. LevelToSet'
            BY <1>3 DEF Store, LevelToSet, TypeOK, Settings
      <2> QED BY <2>2, <2>3, <2>4
<1>4. CASE Install(s) \/ Restore(s)
      <2>1. TypeOK'
            BY <1>4 DEF TypeOK, Install, Restore, logVars, shimVars
      <2>2. Started' /\ RunsUnderGuard' /\ RunningIsInstalled'
            BY <1>4
            DEF Install, Restore, logVars, shimVars, Started, RunsUnderGuard, RunningIsInstalled
      <2>3. LevelToSet'
            BY <1>4 DEF Install, Restore, LevelToSet, TypeOK
      <2> QED BY <2>1, <2>2, <2>3
<1>5. CASE SetLevel(s)
      <2>1. TypeOK'
            BY <1>5 DEF TypeOK, SetLevel, LevelToSet, logVars, shimVars
      <2>2. Started' /\ RunsUnderGuard' /\ RunningIsInstalled'
            BY <1>5 DEF SetLevel, logVars, shimVars, Started, RunsUnderGuard, RunningIsInstalled
      <2>3. LevelToSet'
            BY <1>5 DEF SetLevel, LevelToSet, TypeOK
      <2> QED BY <2>1, <2>2, <2>3
<1> QED BY <1>1, <1>2, <1>3, <1>4, <1>5 DEF InSet

\* The steps of av_log.
LEMMA LogStep ==
    ASSUME IInv, NEW t \in Loggers, InLog(t) \/ CallAvLog(t)
    PROVE  IInv'
<1> USE DEF IInv
<1>1. CASE CallAvLog(t)
      <2>1. TypeOK'
            BY <1>1, ConstantsAssumption DEF TypeOK, CallAvLog, setVars, shimVars
      <2>2. Started'
            BY <1>1, ConstantsAssumption DEF TypeOK, CallAvLog, Started
      <2>3. RunsUnderGuard' /\ RunningIsInstalled' /\ LevelToSet'
            BY <1>1 DEF CallAvLog, setVars, RunsUnderGuard, RunningIsInstalled,
                        LevelToSet, TypeOK
      <2> QED BY <2>1, <2>2, <2>3
<1>2. CASE PrintToStderr(t)
      <2>1. TypeOK'
            BY <1>2 DEF TypeOK, PrintToStderr, setVars, shimVars
      <2>2. Started' /\ RunsUnderGuard' /\ RunningIsInstalled' /\ LevelToSet'
            BY <1>2 DEF PrintToStderr, setVars, shimVars, Started, RunsUnderGuard,
                        RunningIsInstalled, LevelToSet, TypeOK
      <2> QED BY <2>1, <2>2
<1>3. CASE Accumulate(t)
      <2>1. Append(acc, Fragment(t)) \in Seq(Fragments)
            BY <1>3, FragmentType, AppendType DEF TypeOK, Accumulate
      <2>2. TypeOK'
            BY <1>3, <2>1 DEF TypeOK, Accumulate, setVars, shimVars
      <2>3. Started' /\ RunsUnderGuard' /\ RunningIsInstalled' /\ LevelToSet'
            BY <1>3 DEF Accumulate, setVars, shimVars, Started, RunsUnderGuard,
                        RunningIsInstalled, LevelToSet, TypeOK
      <2> QED BY <2>2, <2>3
<1>4. CASE \E newline \in BOOLEAN : Detach(t, newline)
      <2>1. Append(acc, Fragment(t)) \in Seq(Fragments)
            BY <1>4, FragmentType, AppendType DEF TypeOK, Detach
      <2>2. TypeOK'
            BY <1>4, <2>1, EmptyType DEF TypeOK, Detach, setVars, shimVars
      <2>3. Started' /\ RunsUnderGuard' /\ RunningIsInstalled' /\ LevelToSet'
            BY <1>4 DEF Detach, setVars, shimVars, Started, RunsUnderGuard,
                        RunningIsInstalled, LevelToSet, TypeOK
      <2> QED BY <2>2, <2>3
<1>5. CASE \E newline \in BOOLEAN :
             LoseLine(t, newline) \/ LoseFragment(t, newline)
      <2>1. TypeOK'
            BY <1>5, EmptyType DEF TypeOK, LoseLine, LoseFragment, setVars, shimVars
      <2>2. Started' /\ RunsUnderGuard' /\ RunningIsInstalled' /\ LevelToSet'
            BY <1>5 DEF LoseLine, LoseFragment, setVars, shimVars, Started, RunsUnderGuard,
                        RunningIsInstalled, LevelToSet, TypeOK
      <2> QED BY <2>1, <2>2
<1>6. CASE BeginDispatch(t)
      <2>1. TypeOK'
            BY <1>6 DEF TypeOK, BeginDispatch, setVars, shimVars
      <2>2. Started' /\ RunsUnderGuard' /\ RunningIsInstalled' /\ LevelToSet'
            BY <1>6 DEF BeginDispatch, setVars, shimVars, Started, RunsUnderGuard,
                        RunningIsInstalled, LevelToSet, TypeOK
      <2> QED BY <2>1, <2>2
<1>7. CASE DispatchToNobody(t) \/ EndDispatch(t)
      <2>1. TypeOK'
            BY <1>7, EmptyType DEF TypeOK, DispatchToNobody, EndDispatch, setVars, shimVars
      <2>2. Started' /\ LevelToSet'
            BY <1>7 DEF DispatchToNobody, EndDispatch, setVars, shimVars, Started,
                        LevelToSet, TypeOK
      <2>3. \A u \in Loggers : running'[u] # None =>
               /\ running'[u] = running[u] /\ log_pc'[u] = log_pc[u]
               /\ CALLBACK' = CALLBACK
            <3>1. CASE DispatchToNobody(t)
                  BY <3>1 DEF DispatchToNobody, setVars, RunsUnderGuard, TypeOK
            <3>2. CASE EndDispatch(t)
                  BY <3>2 DEF EndDispatch, setVars, TypeOK
            <3> QED BY <1>7, <3>1, <3>2
      <2>4. RunsUnderGuard' /\ RunningIsInstalled'
            BY <2>3 DEF RunsUnderGuard, RunningIsInstalled
      <2> QED BY <2>1, <2>2, <2>4
<1> QED BY <1>1, <1>2, <1>3, <1>4, <1>5, <1>6, <1>7 DEF InLog

LEMMA NextInv == IInv /\ [Next]_vars => IInv'
<1> SUFFICES ASSUME IInv, [Next]_vars PROVE IInv'
    OBVIOUS
<1>1. CASE Next
      BY <1>1, SetStep, LogStep DEF Next
<1>2. CASE UNCHANGED vars
      BY <1>2 DEF vars, setVars, logVars, shimVars, IInv, TypeOK, Started, RunsUnderGuard,
                  RunningIsInstalled, LevelToSet
<1> QED BY <1>1, <1>2

\* Every state of the log bridge has its type.
THEOREM TypeCorrect == Spec => []TypeOK
<1>1. IInv => TypeOK
      BY DEF IInv
<1> QED BY <1>1, InitInv, NextInv, PTL DEF Spec

\* However many threads log and however many set the logger, no callback is
\* dropped or replaced while a thread is inside it.
THEOREM CallbacksAreInstalled == Spec => []RunningIsInstalled
<1>1. IInv => RunningIsInstalled
      BY DEF IInv
<1> QED BY <1>1, InitInv, NextInv, PTL DEF Spec
-----------------------------------------------------------------------------
(* No fragment is in two lines.                                            *)

LEMMA PartsOfEmpty == Parts(<< >>) = {}
BY DEF Parts

LEMMA PartsOfAppend ==
    ASSUME NEW q \in Seq(Fragments), NEW f \in Fragments
    PROVE  Parts(Append(q, f)) = Parts(q) \cup {<<f.by, f.n>>}
<1> DEFINE a == Append(q, f)
<1>1. /\ Len(a) = Len(q) + 1 /\ Len(q) \in Nat
      /\ \A i \in 1..Len(q) : a[i] = q[i]
      /\ a[Len(q) + 1] = f
  OBVIOUS
<1> HIDE DEF a
<1>2. ASSUME NEW i \in 1..Len(a)
      PROVE  <<a[i].by, a[i].n>> \in Parts(q) \cup {<<f.by, f.n>>}
  <2>1. CASE i \in 1..Len(q)
    BY <1>1, <2>1 DEF Parts
  <2>2. CASE i = Len(q) + 1
    BY <1>1, <2>2
  <2> QED BY <1>1, <2>1, <2>2
<1>3. Parts(q) \subseteq Parts(a)
  <2> SUFFICES ASSUME NEW i \in 1..Len(q)
               PROVE  <<q[i].by, q[i].n>> \in Parts(a)
    BY DEF Parts
  <2>1. i \in 1..Len(a) /\ a[i] = q[i]
    BY <1>1
  <2> QED BY <2>1 DEF Parts
<1>4. <<f.by, f.n>> \in Parts(a)
  <2>1. Len(q) + 1 \in 1..Len(a)
    BY <1>1
  <2> QED BY <1>1, <2>1 DEF Parts
<1>5. Parts(a) \subseteq Parts(q) \cup {<<f.by, f.n>>}
  BY <1>2 DEF Parts
<1> QED BY <1>3, <1>4, <1>5 DEF a

LEMMA PartsType ==
    ASSUME NEW q \in Seq(Fragments)
    PROVE  Parts(q) \subseteq Loggers \X (1..MaxFragments)
<1> SUFFICES ASSUME NEW i \in 1..Len(q)
             PROVE  <<q[i].by, q[i].n>> \in Loggers \X (1..MaxFragments)
  BY DEF Parts
<1>1. q[i] \in Fragments
  OBVIOUS
<1> QED BY <1>1 DEF Fragments

\* The fragment k = <<thread, number>> has left the hands of its thread.
Past(k) == \/ k[2] < sent[k[1]]
           \/ k[2] = sent[k[1]] /\ log_pc[k[1]] # "shim"

\* EachFragmentOnce does not say that the next fragment of a thread is new:
\* that takes the numbers of those that were stored before.
OnceInv ==
    /\ EachFragmentOnce
    /\ \A k \in Parts(acc) : Past(k)
    /\ \A t \in Loggers : \A k \in Parts(line[t]) : Past(k)

\* A fragment that was stored never becomes the next one again.
LEMMA PastIsStable ==
    ASSUME IInv, [Next]_vars, NEW k \in Loggers \X (1..MaxFragments), Past(k)
    PROVE  Past(k)'
<1>1. PICK u \in Loggers, n \in 1..MaxFragments : k = <<u, n>>
  OBVIOUS
<1>2. /\ sent[u] \in Nat /\ n \in Nat
      /\ sent \in [Loggers -> 0..MaxFragments]
      /\ log_pc \in [Loggers -> {"idle", "default", "shim", "dispatch",
                                 "callback"}]
  BY ConstantsAssumption DEF IInv, TypeOK
<1>3. n < sent[u] \/ (n = sent[u] /\ log_pc[u] # "shim")
  BY <1>1 DEF Past
<1>4. ASSUME UNCHANGED sent, log_pc'[u] = "shim" => log_pc[u] = "shim"
      PROVE  n < sent'[u] \/ (n = sent'[u] /\ log_pc'[u] # "shim")
  BY <1>3, <1>4
<1>5. ASSUME NEW s \in Setters, InSet(s) \/ \E v \in Settings : Reset(s, v)
      PROVE  UNCHANGED <<sent, log_pc>>
  BY <1>5 DEF InSet, Reset, Wait, Store, Install, SetLevel, Restore, logVars
<1>6. ASSUME NEW t \in Loggers, InLog(t)
      PROVE  UNCHANGED sent /\ (log_pc'[u] = "shim" => log_pc[u] = "shim")
  BY <1>2, <1>6 DEF InLog, PrintToStderr, Accumulate, Detach, LoseFragment,
     LoseLine, BeginDispatch, DispatchToNobody, EndDispatch
<1>7. ASSUME NEW t \in Loggers, CallAvLog(t)
      PROVE  n < sent'[u] \/ (n = sent'[u] /\ log_pc'[u] # "shim")
  <2>1. /\ sent' = [sent EXCEPT ![t] = @ + 1]
        /\ log_pc' = [log_pc EXCEPT ![t] = handler]
    BY <1>7 DEF CallAvLog
  <2>2. CASE t = u
    BY <1>2, <1>3, <2>1, <2>2
  <2>3. CASE t # u
    BY <1>2, <1>3, <2>1, <2>3
  <2> QED BY <2>2, <2>3
<1>8. n < sent'[u] \/ (n = sent'[u] /\ log_pc'[u] # "shim")
  BY <1>4, <1>5, <1>6, <1>7 DEF Next, vars, logVars
<1> QED BY <1>1, <1>8 DEF Past

\* The fragment a thread in the shim is about to store is nowhere yet, and is
\* past once it is stored.
LEMMA NextIsNew ==
    ASSUME IInv, OnceInv, NEW t \in Loggers, log_pc[t] = "shim"
    PROVE  /\ <<t, sent[t]>> \notin Parts(acc)
           /\ \A u \in Loggers : <<t, sent[t]>> \notin Parts(line[u])
<1>1. ~Past(<<t, sent[t]>>)
  <2>1. sent[t] \in Nat
    BY ConstantsAssumption DEF IInv, TypeOK
  <2> QED BY <2>1 DEF Past
<1> QED BY <1>1 DEF OnceInv

\* A step that leaves lines and buffer as they are, or empties some of them.
LEMMA OnceAfterLoss ==
    ASSUME IInv, IInv', OnceInv, [Next]_vars,
           acc' \in {acc, << >>},
           \A t \in Loggers : line'[t] \in {line[t], << >>}
    PROVE  OnceInv'
<1>1. Parts(acc') \subseteq Parts(acc)
  BY PartsOfEmpty
<1>2. \A t \in Loggers : Parts(line'[t]) \subseteq Parts(line[t])
  BY PartsOfEmpty
<1>3. /\ Parts(acc) \subseteq Loggers \X (1..MaxFragments)
      /\ \A t \in Loggers :
            Parts(line[t]) \subseteq Loggers \X (1..MaxFragments)
  BY PartsType DEF IInv, TypeOK
<1>4. \A k \in Loggers \X (1..MaxFragments) : Past(k) => Past(k)'
  BY PastIsStable
<1>5. /\ \A k \in Parts(acc') : Past(k)'
      /\ \A t \in Loggers : \A k \in Parts(line'[t]) : Past(k)'
  BY <1>1, <1>2, <1>3, <1>4, Zenon DEF OnceInv
<1>6. Parts(acc)' = Parts(acc') /\ \A t \in Loggers : Parts(line[t])' = Parts(line'[t])
  BY DEF Parts
<1>7. \A t \in Loggers :
         /\ Parts(line'[t]) \cap Parts(acc') = {}
         /\ \A u \in Loggers \ {t} : Parts(line'[t]) \cap Parts(line'[u]) = {}
  BY <1>1, <1>2 DEF OnceInv, EachFragmentOnce
<1> QED BY <1>5, <1>6, <1>7 DEF OnceInv, EachFragmentOnce

\* The fragment is appended to the buffer.
LEMMA OnceAfterAccumulate ==
    ASSUME IInv, IInv', OnceInv, [Next]_vars, NEW t \in Loggers, Accumulate(t)
    PROVE  OnceInv'
<1>0. PICK new \in Loggers \X Nat : new = <<t, sent[t]>>
  <2>1. sent[t] \in Nat
    BY ConstantsAssumption DEF IInv, TypeOK
  <2> QED BY <2>1
<1>1. /\ acc' = Append(acc, Fragment(t)) /\ UNCHANGED <<line, sent>>
      /\ log_pc[t] = "shim" /\ log_pc' = [log_pc EXCEPT ![t] = "idle"]
  BY DEF Accumulate
<1>2. Parts(acc') = Parts(acc) \cup {new}
  <2>1. acc \in Seq(Fragments) /\ Fragment(t) \in Fragments
    BY <1>1, FragmentType DEF IInv, TypeOK
  <2>2. Fragment(t).by = t /\ Fragment(t).n = sent[t]
    BY DEF Fragment
  <2> QED BY <1>0, <1>1, <2>1, <2>2, PartsOfAppend
<1>3. /\ new \notin Parts(acc)
      /\ \A u \in Loggers : new \notin Parts(line[u])
  BY <1>0, <1>1, NextIsNew
<1>4. Past(new)'
  BY <1>0, <1>1 DEF Past, IInv, TypeOK
<1>5. /\ Parts(acc) \subseteq Loggers \X (1..MaxFragments)
      /\ \A u \in Loggers :
            Parts(line[u]) \subseteq Loggers \X (1..MaxFragments)
  BY PartsType DEF IInv, TypeOK
<1>6. \A k \in Loggers \X (1..MaxFragments) : Past(k) => Past(k)'
  BY PastIsStable
<1>7. /\ \A k \in Parts(acc') : Past(k)'
      /\ \A u \in Loggers : \A k \in Parts(line'[u]) : Past(k)'
  <2> QED BY <1>1, <1>2, <1>4, <1>5, <1>6, Zenon DEF OnceInv
<1>8. /\ Parts(acc)' = Parts(acc')
      /\ \A u \in Loggers : Parts(line[u])' = Parts(line'[u])
  BY DEF Parts
<1>9. \A u \in Loggers :
         /\ Parts(line'[u]) \cap Parts(acc') = {}
         /\ \A w \in Loggers \ {u} : Parts(line'[u]) \cap Parts(line'[w]) = {}
  BY <1>1, <1>2, <1>3 DEF OnceInv, EachFragmentOnce
<1> QED BY <1>7, <1>8, <1>9 DEF OnceInv, EachFragmentOnce

\* The fragment completes the line, which leaves the buffer.
LEMMA OnceAfterDetach ==
    ASSUME IInv, IInv', OnceInv, [Next]_vars, NEW t \in Loggers,
           NEW newline \in BOOLEAN, Detach(t, newline)
    PROVE  OnceInv'
<1>0. PICK new \in Loggers \X Nat : new = <<t, sent[t]>>
  <2>1. sent[t] \in Nat
    BY ConstantsAssumption DEF IInv, TypeOK
  <2> QED BY <2>1
<1>1. /\ line' = [line EXCEPT ![t] = Append(acc, Fragment(t))]
      /\ acc' = << >> /\ UNCHANGED sent
      /\ log_pc[t] = "shim" /\ log_pc' = [log_pc EXCEPT ![t] = "dispatch"]
  BY DEF Detach
<1>2. /\ Parts(line'[t]) = Parts(acc) \cup {new}
      /\ \A u \in Loggers \ {t} : line'[u] = line[u]
  <2>1. acc \in Seq(Fragments) /\ Fragment(t) \in Fragments
    BY <1>1, FragmentType DEF IInv, TypeOK
  <2>2. Fragment(t).by = t /\ Fragment(t).n = sent[t]
    BY DEF Fragment
  <2>3. Parts(Append(acc, Fragment(t))) = Parts(acc) \cup {new}
    BY <1>0, <2>1, <2>2, PartsOfAppend
  <2>4. line \in [Loggers -> Seq(Fragments)]
    BY DEF IInv, TypeOK
  <2>5. /\ line'[t] = Append(acc, Fragment(t))
        /\ \A u \in Loggers \ {t} : line'[u] = line[u]
    BY <1>1, <2>4, Zenon
  <2> QED BY <2>3, <2>5, Zenon
<1>3. /\ new \notin Parts(acc)
      /\ \A u \in Loggers : new \notin Parts(line[u])
  BY <1>0, <1>1, NextIsNew
<1>4. Past(new)'
  BY <1>0, <1>1 DEF Past, IInv, TypeOK
<1>5. /\ Parts(acc) \subseteq Loggers \X (1..MaxFragments)
      /\ \A u \in Loggers :
            Parts(line[u]) \subseteq Loggers \X (1..MaxFragments)
  BY PartsType DEF IInv, TypeOK
<1>6. \A k \in Loggers \X (1..MaxFragments) : Past(k) => Past(k)'
  BY PastIsStable
<1>7. Parts(acc') = {}
  BY <1>1, PartsOfEmpty
<1>8. \A u \in Loggers : \A k \in Parts(line'[u]) : Past(k)'
  <2> TAKE u \in Loggers
  <2>1. CASE u = t
    BY <1>2, <1>4, <1>5, <1>6, <2>1, Zenon DEF OnceInv
  <2>2. CASE u # t
    BY <1>2, <1>5, <1>6, <2>2, Zenon DEF OnceInv
  <2> QED BY <2>1, <2>2
<1>9. /\ Parts(acc)' = Parts(acc')
      /\ \A u \in Loggers : Parts(line[u])' = Parts(line'[u])
  BY DEF Parts
<1>10. \A u \in Loggers : \A w \in Loggers \ {u} :
          Parts(line'[u]) \cap Parts(line'[w]) = {}
  BY <1>2, <1>3 DEF OnceInv, EachFragmentOnce
<1> QED BY <1>7, <1>8, <1>9, <1>10 DEF OnceInv, EachFragmentOnce

LEMMA OnceStep == IInv /\ IInv' /\ OnceInv /\ [Next]_vars => OnceInv'
<1> SUFFICES ASSUME IInv, IInv', OnceInv, [Next]_vars PROVE OnceInv'
  OBVIOUS
<1>1. ASSUME NEW t \in Loggers, Accumulate(t) PROVE OnceInv'
  BY <1>1, OnceAfterAccumulate
<1>2. ASSUME NEW t \in Loggers, NEW newline \in BOOLEAN, Detach(t, newline)
      PROVE  OnceInv'
  BY <1>2, OnceAfterDetach
<1>3. ASSUME acc' \in {acc, << >>},
             \A t \in Loggers : line'[t] \in {line[t], << >>}
      PROVE  OnceInv'
  BY <1>3, OnceAfterLoss
<1>4. ASSUME NEW s \in Setters, InSet(s) \/ \E v \in Settings : Reset(s, v)
      PROVE  OnceInv'
  <2>1. acc' \in {acc, << >>} /\ UNCHANGED line
    BY <1>4 DEF InSet, Reset, Wait, Store, Install, SetLevel, Restore,
                logVars, shimVars
  <2> QED BY <1>3, <2>1
<1>5. ASSUME NEW t \in Loggers,
             \/ CallAvLog(t) \/ PrintToStderr(t) \/ BeginDispatch(t)
             \/ DispatchToNobody(t) \/ EndDispatch(t)
             \/ \E newline \in BOOLEAN :
                   LoseFragment(t, newline) \/ LoseLine(t, newline)
      PROVE  OnceInv'
  <2>1. /\ acc' \in {acc, << >>}
        /\ line' = line \/ line' = [line EXCEPT ![t] = << >>]
    BY <1>5 DEF CallAvLog, PrintToStderr, BeginDispatch, DispatchToNobody,
                EndDispatch, LoseFragment, LoseLine, shimVars
  <2>2. line \in [Loggers -> Seq(Fragments)]
    BY DEF IInv, TypeOK
  <2>3. \A u \in Loggers : line'[u] \in {line[u], << >>}
    BY <2>1, <2>2, Zenon
  <2> QED BY <1>3, <2>1, <2>3
<1>6. CASE UNCHANGED vars
  BY <1>3, <1>6 DEF vars, logVars, shimVars
<1> QED BY <1>1, <1>2, <1>4, <1>5, <1>6 DEF Next, InLog

\* However the threads take turns and however often the logger is set, no
\* fragment is handed on twice or stays behind in the shim's buffer when its
\* line is detached.
THEOREM FragmentsOnce == Spec => []EachFragmentOnce
<1>1. Init => OnceInv
  BY PartsOfEmpty DEF Init, OnceInv, EachFragmentOnce
<1>2. OnceInv => EachFragmentOnce
  BY DEF OnceInv
<1> QED BY <1>1, <1>2, OnceStep, InitInv, NextInv, PTL DEF Spec
-----------------------------------------------------------------------------
(* A line has one prefix.                                                  *)

\* A fragment joins what is in the buffer with a prefix only when that is
\* nothing.
LEMMA PrefixAppended ==
    ASSUME TypeOK, LinesHaveOnePrefix, ~lost, NEW t \in Loggers
    PROVE  /\ \A i \in 2..Len(Append(acc, Fragment(t))) :
                 ~Append(acc, Fragment(t))[i].prefixed
           /\ Append(acc, Fragment(t)) # << >>
<1> DEFINE f == Fragment(t)
           a == Append(acc, f)
<1>1. /\ Len(a) = Len(acc) + 1 /\ Len(acc) \in Nat
      /\ \A i \in 1..Len(acc) : a[i] = acc[i]
      /\ a[Len(acc) + 1] = f
  <2>1. acc \in Seq(Fragments)
    BY DEF TypeOK
  <2> HIDE DEF f
  <2> QED BY <2>1
<1>2. f.prefixed = print_prefix
  BY DEF Fragment
<1>3. \A i \in 2..Len(acc) : ~acc[i].prefixed
  BY DEF LinesHaveOnePrefix
<1>4. Len(acc) > 0 => ~print_prefix
  BY DEF LinesHaveOnePrefix
<1> HIDE DEF a, f
<1>6. a # << >>
  BY <1>1
<1>5. ASSUME NEW i \in 2..Len(a) PROVE ~a[i].prefixed
  <2>1. CASE i \in 2..Len(acc)
    BY <1>1, <1>3, <2>1
  <2>2. CASE i = Len(acc) + 1
    <3>1. ~print_prefix /\ a[i] = f
      BY <1>1, <1>4, <2>2
    <3> QED BY <1>2, <3>1
  <2> QED BY <1>1, <2>1, <2>2
<1> QED BY <1>5, <1>6 DEF a, f

\* The prefix of one line.
OnePrefix(q) == \A i \in 2..Len(q) : ~q[i].prefixed

LEMMA PrefixStep == TypeOK /\ LinesHaveOnePrefix /\ [Next]_vars
                       => LinesHaveOnePrefix'
<1> SUFFICES ASSUME TypeOK, LinesHaveOnePrefix, [Next]_vars, ~lost'
             PROVE  LinesHaveOnePrefix'
  BY DEF LinesHaveOnePrefix
<1>1. ~lost
  <2>1. ASSUME NEW s \in Setters, InSet(s) \/ \E v \in Settings : Reset(s, v)
        PROVE  UNCHANGED lost
    BY <2>1 DEF InSet, Reset, Wait, Store, Install, SetLevel, Restore, logVars
  <2>2. ASSUME NEW t \in Loggers, InLog(t) \/ CallAvLog(t)
        PROVE  UNCHANGED lost \/ lost'
    BY <2>2 DEF InLog, CallAvLog, PrintToStderr, Accumulate, Detach, LoseFragment,
       LoseLine, BeginDispatch, DispatchToNobody, EndDispatch
  <2> QED BY <2>1, <2>2 DEF Next, vars, logVars
<1>2. /\ OnePrefix(acc) /\ \A t \in Loggers : OnePrefix(line[t])
      /\ print_prefix <=> acc = << >> /\ ~cut
  BY <1>1, Zenon DEF LinesHaveOnePrefix, OnePrefix
<1>3. SUFFICES /\ OnePrefix(acc') /\ \A t \in Loggers : OnePrefix(line'[t])
               /\ print_prefix' <=> acc' = << >> /\ ~cut'
  BY <1>3, Zenon DEF LinesHaveOnePrefix, OnePrefix
<1>4. OnePrefix(<< >>)
  BY DEF OnePrefix
<1>5. ASSUME NEW t \in Loggers
      PROVE  /\ OnePrefix(Append(acc, Fragment(t)))
             /\ Append(acc, Fragment(t)) # << >>
  BY <1>1, PrefixAppended, Zenon DEF OnePrefix
<1>6. line \in [Loggers -> Seq(Fragments)]
  BY DEF TypeOK
<1>7. ASSUME NEW s \in Setters, InSet(s)
      PROVE  UNCHANGED <<line, acc, print_prefix, cut>>
  BY <1>7 DEF InSet, Wait, Store, Install, SetLevel, Restore, logVars, shimVars
<1>8. ASSUME NEW s \in Setters, NEW v \in Settings, Reset(s, v)
      PROVE  UNCHANGED line /\ acc' = << >> /\ print_prefix' /\ ~cut'
  BY <1>8 DEF Reset, logVars
<1>9. ASSUME NEW t \in Loggers,
             \/ CallAvLog(t) \/ PrintToStderr(t) \/ BeginDispatch(t)
             \/ DispatchToNobody(t) \/ EndDispatch(t)
             \/ \E newline \in BOOLEAN :
                   LoseFragment(t, newline) \/ LoseLine(t, newline)
      PROVE  /\ \A u \in Loggers : line'[u] \in {line[u], << >>}
             /\ UNCHANGED <<acc, print_prefix, cut>>
  <2>1. UNCHANGED <<acc, print_prefix, cut>>
    BY <1>9 DEF CallAvLog, PrintToStderr, BeginDispatch, DispatchToNobody,
                EndDispatch, LoseFragment, LoseLine, shimVars
  <2>2. line' = line \/ line' = [line EXCEPT ![t] = << >>]
    BY <1>9 DEF CallAvLog, PrintToStderr, BeginDispatch, DispatchToNobody,
                EndDispatch, LoseFragment, LoseLine
  <2> QED BY <1>6, <2>1, <2>2, Zenon
<1>10. ASSUME NEW t \in Loggers, Accumulate(t)
       PROVE  /\ UNCHANGED <<line, cut>> /\ ~print_prefix'
              /\ acc' = Append(acc, Fragment(t))
  BY <1>10 DEF Accumulate
<1>11. ASSUME NEW t \in Loggers, NEW newline \in BOOLEAN, Detach(t, newline)
       PROVE  /\ line' = [line EXCEPT ![t] = Append(acc, Fragment(t))]
              /\ acc' = << >> /\ print_prefix' = newline /\ cut' = ~newline
  BY <1>11 DEF Detach
<1>12. CASE \E s \in Setters : InSet(s)
  BY <1>2, <1>7, <1>12, Zenon
<1>13. CASE \E s \in Setters, v \in Settings : Reset(s, v)
  BY <1>2, <1>4, <1>8, <1>13, Zenon
<1>14. CASE \E t \in Loggers : Accumulate(t)
  BY <1>2, <1>5, <1>10, <1>14, Zenon
<1>15. CASE \E t \in Loggers, newline \in BOOLEAN : Detach(t, newline)
  <2>1. PICK t \in Loggers, newline \in BOOLEAN : Detach(t, newline)
    BY <1>15
  <2>2. \A u \in Loggers : line'[u] = IF u = t THEN Append(acc, Fragment(t))
                                              ELSE line[u]
    BY <1>6, <1>11, <2>1, Zenon
  <2> QED BY <1>2, <1>4, <1>5, <1>11, <2>1, <2>2, Zenon
<1>16. CASE UNCHANGED vars
  BY <1>2, <1>16 DEF vars, logVars, shimVars
<1> QED BY <1>2, <1>4, <1>9, <1>12, <1>13, <1>14, <1>15, <1>16 DEF Next, InLog

\* Whatever threads build a line, and whatever log_set throws away, a line has
\* a prefix at its start only, and the next one will have one (print_prefix and
\* codecpod_log_reset of log_shim.c), until memory runs out.
THEOREM OnePrefixPerLine == Spec => []LinesHaveOnePrefix
<1>1. Init => LinesHaveOnePrefix
  BY DEF Init, LinesHaveOnePrefix
<1> QED BY <1>1, PrefixStep, TypeCorrect, PTL DEF Spec
-----------------------------------------------------------------------------
(* The last call wins.                                                     *)

\* How far the call of the thread s has come.
Progress(s) ==
    /\ set_pc[s] = "idle" => Configured(setting[s])
    /\ set_pc[s] = "install" => /\ setting[s] \in Callbacks
                               /\ CALLBACK = setting[s]
    /\ set_pc[s] \in {"level", "restore"} => /\ setting[s] \notin Callbacks
                                            /\ CALLBACK = None
    /\ set_pc[s] = "restore" => av_level = setting[s]

\* A call keeps track of what it has set, step by step.
LEMMA CallProgress ==
    ASSUME NEW s \in Setters, TypeOK, Progress(s),
           InSet(s) \/ \E v \in Settings : Reset(s, v)
    PROVE  Progress(s)'
<1>1. /\ set_pc \in [Setters -> {"idle", "store", "waiting", "install", "level",
                                "restore"}]
      /\ setting \in [Setters -> Settings]
  BY DEF TypeOK
<1>2. CASE \E v \in Settings : Reset(s, v)
  BY <1>1, <1>2 DEF Reset, Progress
<1>3. CASE Wait(s)
  BY <1>1, <1>3 DEF Wait, Progress
<1>4. CASE Store(s)
  BY <1>1, <1>4 DEF Store, Stored, Progress
<1>5. CASE Install(s)
  BY <1>1, <1>5 DEF Install, Progress, Configured
<1>6. CASE SetLevel(s)
  BY <1>1, <1>6 DEF SetLevel, Progress
<1>7. CASE Restore(s)
  BY <1>1, <1>7 DEF Restore, Progress, Configured
<1> QED BY <1>2, <1>3, <1>4, <1>5, <1>6, <1>7 DEF InSet

LEMMA LoggersKeepTheSetting ==
    ASSUME NEW t \in Loggers, InLog(t) \/ CallAvLog(t)
    PROVE  UNCHANGED setVars
BY DEF InLog, CallAvLog, PrintToStderr, Accumulate, Detach, LoseFragment,
   LoseLine, BeginDispatch, DispatchToNobody, EndDispatch

\* Every call under way counts as the last one and has come as far as it has.
\* LastCallWins by itself says nothing while a call is under way.
CallInv ==
    /\ \A s \in Inside : s \in latest /\ Progress(s)
    /\ LastCallWins

\* The first call finds the setting of log.rs's statics.
LEMMA InitCallInv == Init /\ Setters # {} => CallInv
BY ConstantsAssumption DEF Init, Inside, CallInv, LastCallWins, Configured

\* A call that is alone ends with its own setting in force.
LEMMA CallAlone ==
    ASSUME NEW s \in Setters, TypeOK, CallInv, Inside \subseteq {s},
           InSet(s) \/ \E v \in Settings : Reset(s, v)
    PROVE  CallInv' /\ Inside' \subseteq {s}
<1>1. /\ set_pc \in [Setters -> {"idle", "store", "waiting", "install", "level",
                                "restore"}]
      /\ setting \in [Setters -> Settings]
  BY DEF TypeOK
<1>2. \A u \in Setters \ {s} : set_pc[u] = "idle" /\ set_pc'[u] = set_pc[u]
  BY <1>1 DEF Inside, InSet, Wait, Store, Install, SetLevel, Restore, Reset
<1>3. Inside' \subseteq {s}
  BY <1>2 DEF Inside
<1>4. Progress(s)' /\ s \in latest'
  <2>1. CASE InSet(s)
    <3>1. s \in Inside /\ latest' = latest
      BY <2>1 DEF InSet, Wait, Store, Install, SetLevel, Restore, Inside
    <3> QED BY <2>1, <3>1, CallProgress DEF CallInv
  <2>2. CASE \E v \in Settings : Reset(s, v)
    <3>1. set_pc'[s] = "store" /\ s \in latest'
      BY <1>1, <2>2 DEF Reset
    <3> QED BY <3>1 DEF Progress
  <2> QED BY <2>1, <2>2
<1>5. LastCallWins'
  BY <1>4 DEF LastCallWins, Progress
<1> QED BY <1>3, <1>4, <1>5 DEF CallInv

LEMMA CallInvUnchanged == UNCHANGED setVars /\ CallInv => CallInv'
BY DEF setVars, CallInv, Inside, Progress, LastCallWins, Configured

\* A call begins when none is under way.
InTurn ==
    \A s \in Setters :
        set_pc[s] = "idle" /\ set_pc'[s] # "idle" => Inside = {}

\* No two calls are under way.
OneCall == \A s, u \in Inside : s = u

LEMMA TurnStep ==
    ASSUME TypeOK, CallInv, OneCall, [Next]_vars, [InTurn]_vars
    PROVE  CallInv' /\ OneCall'
<1>1. ASSUME NEW s \in Setters, InSet(s) \/ \E v \in Settings : Reset(s, v)
      PROVE  CallInv' /\ OneCall'
  <2>1. Inside \subseteq {s}
    <3>1. CASE InSet(s)
      <4>1. s \in Inside
        BY <3>1 DEF InSet, Wait, Store, Install, SetLevel, Restore, Inside
      <4> QED BY <4>1 DEF OneCall
    <3>2. CASE \E v \in Settings : Reset(s, v)
      <4>1. set_pc[s] = "idle" /\ set_pc'[s] = "store"
        BY <3>2 DEF Reset, TypeOK
      <4>2. InTurn
        BY <4>1 DEF vars, setVars
      <4> QED BY <4>1, <4>2 DEF InTurn
    <3> QED BY <1>1, <3>1, <3>2
  <2> QED BY <1>1, <2>1, CallAlone DEF OneCall
<1>2. CASE UNCHANGED setVars
  <2>1. OneCall'
    BY <1>2 DEF setVars, OneCall, Inside
  <2> QED BY <1>2, <2>1, CallInvUnchanged
<1> QED BY <1>1, <1>2, LoggersKeepTheSetting DEF Next, vars

\* Whatever threads call log_set, as long as they do so one after another, the
\* last call wins, whatever the other threads log meanwhile.  (The run LogRace
\* shows what calls that overlap leave.)
THEOREM LastOfCallsInTurnWins ==
    ASSUME Setters # {}
    PROVE  Spec /\ [][InTurn]_vars => []LastCallWins
<1>1. Init => CallInv /\ OneCall
  BY InitCallInv DEF Init, OneCall, Inside
<1>2. TypeOK /\ CallInv /\ OneCall /\ [Next]_vars /\ [InTurn]_vars
         => CallInv' /\ OneCall'
  BY TurnStep
<1>3. CallInv => LastCallWins
  BY DEF CallInv
<1> QED BY <1>1, <1>2, <1>3, TypeCorrect, PTL DEF Spec

\* One thread makes its calls one after another, so its last call wins.
THEOREM LastCallOfOneThreadWins ==
    ASSUME NEW s, Setters = {s}
    PROVE  Spec => []LastCallWins
<1>1. [Next]_vars => [InTurn]_vars
  BY DEF InTurn, Inside
<1>2. Spec /\ [][InTurn]_vars => []LastCallWins
  BY LastOfCallsInTurnWins
<1> QED BY <1>1, <1>2, PTL DEF Spec
-----------------------------------------------------------------------------
(* set_log of the Python binding.                                          *)

LEMMA SetLogStep == [PyNext]_pyVars => [Next]_vars
<1> SUFFICES ASSUME [PyNext]_pyVars PROVE [Next]_vars
  OBVIOUS
<1>1. ASSUME NEW s \in Setters, StoreHandler(s) \/ KeepGil(s) \/ SetLogReturns(s)
      PROVE  Next
  BY <1>1, Zenon DEF StoreHandler, KeepGil, SetLogReturns, InSet, Next
<1>2. ASSUME NEW s \in Setters, NEW v \in Settings, SetLog(s, v)
      PROVE  Next
  BY <1>2, Zenon DEF SetLog, Next
<1>3. ASSUME NEW t \in Loggers, HandlerReturns(t) \/ StartLog(t)
                                 \/ LogWithoutGil(t)
      PROVE  Next
  BY <1>3, Zenon DEF HandlerReturns, StartLog, LogWithoutGil, InLog, Next
<1>4. ASSUME NEW t, BeginDrop(t) \/ Attach(t) \/ SwitchAway(t)
      PROVE  UNCHANGED vars
  BY <1>4 DEF BeginDrop, Attach, SwitchAway
<1> QED BY <1>1, <1>2, <1>3, <1>4, Zenon DEF PyNext, InSetLog, pyVars

\* What set_log of the binding and its handlers do is what LogBridge describes,
\* in fewer orders; so what is proved of every step above holds of them.
THEOREM SetLogUsesTheBridge == PySpec => Spec
<1>1. PyInit => Init
  BY DEF PyInit
<1> QED BY <1>1, SetLogStep, PTL DEF PySpec, Spec

\* A thread inside log_set has the GIL, or has lost it while it drops the old
\* handler; it has the write guard then, so that a thread that calls set_log
\* meanwhile gets no further than the guard.
GilInv ==
    /\ \A s \in Inside : gil = s \/ dropping = s
    /\ dropping # None =>
          /\ dropping \in Setters
          /\ set_pc[dropping] \in {"store", "waiting"}
          /\ Readers = {}
          /\ \A s \in Inside \ {dropping} : set_pc[s] = "store"

LEMMA InitGilInv == PyInit => GilInv
BY DEF PyInit, Init, Inside, GilInv

\* The loggers take the GIL only when it is free, and no read guard while the
\* old handler is dropped.
LEMMA LoggerKeepsGilInv ==
    ASSUME None \notin Setters, Setters \cap Loggers = {}, TypeOK, GilInv,
           NEW t \in Loggers,
           \/ Attach(t) \/ SwitchAway(t)
           \/ HandlerReturns(t) \/ StartLog(t) \/ LogWithoutGil(t)
    PROVE  UNCHANGED setVars /\ GilInv'
<1>1. UNCHANGED setVars /\ dropping' = dropping
  BY LoggersKeepTheSetting DEF Attach, SwitchAway, HandlerReturns, StartLog,
     LogWithoutGil, InLog, vars
<1>2. gil' = gil \/ gil = None \/ gil = t
  BY DEF Attach, SwitchAway, HandlerReturns, StartLog, LogWithoutGil
<1>3. dropping # None /\ Readers = {} => Readers' = {}
  <2> SUFFICES ASSUME dropping # None, Readers = {}, NEW u \in Loggers
               PROVE  log_pc'[u] # "callback"
    BY DEF Readers
  <2>1. log_pc[u] # "callback" /\ handler \in {"default", "shim"}
        /\ log_pc \in [Loggers -> {"idle", "default", "shim", "dispatch",
                                   "callback"}]
    BY DEF Readers, TypeOK
  <2> QED BY <2>1 DEF Attach, SwitchAway, HandlerReturns, StartLog,
          LogWithoutGil, vars, logVars, CallAvLog, PrintToStderr, Accumulate,
          Detach, LoseFragment, LoseLine, EndDispatch
<1>4. \A s \in Inside' : gil' = s \/ dropping' = s
  BY <1>1, <1>2 DEF GilInv, Inside, setVars
<1> QED BY <1>1, <1>3, <1>4 DEF GilInv, Inside, setVars

\* A setter that drops the old handler loses the GIL and gets it back.
LEMMA SwitchKeepsGilInv ==
    ASSUME None \notin Setters, Setters \cap Loggers = {}, GilInv,
           NEW s \in Setters, Attach(s) \/ SwitchAway(s)
    PROVE  UNCHANGED setVars /\ GilInv'
<1>1. /\ dropping = s /\ UNCHANGED <<vars, dropping>>
      /\ gil = None \/ gil = s
  BY DEF Attach, SwitchAway, RunsPython
<1>2. \A u \in Inside : u = s
  BY <1>1 DEF GilInv, Inside
<1> QED BY <1>1, <1>2 DEF vars, setVars, logVars, GilInv, Inside, Readers

\* set_log is called while no other call can go on.
LEMMA SetLogKeepsPyInv ==
    ASSUME None \notin Setters, TypeOK, CallInv, GilInv,
           NEW s \in Setters, NEW v \in Settings, SetLog(s, v)
    PROVE  CallInv' /\ GilInv'
<1>1. /\ gil = None /\ gil' = s /\ dropping' = dropping
      /\ set_pc[s] = "idle" /\ set_pc' = [set_pc EXCEPT ![s] = "store"]
      /\ setting' = [setting EXCEPT ![s] = v]
      /\ latest' = {s} \cup Inside
      /\ UNCHANGED log_pc
  BY DEF SetLog, Reset, logVars
<1>2. /\ \A u \in Inside : u = dropping /\ set_pc[u] \in {"store", "waiting"}
      /\ s \notin Inside
  BY <1>1 DEF GilInv, Inside
<1>3. set_pc'[s] = "store" /\ \A u \in Inside : set_pc'[u] = set_pc[u]
  BY <1>1, <1>2 DEF TypeOK, Inside
<1>4. Inside' = {s} \cup Inside
  BY <1>1, <1>3 DEF TypeOK, Inside
<1>5. CallInv'
  <2>1. \A u \in Inside' : u \in latest' /\ set_pc'[u] \in {"store", "waiting"}
    BY <1>1, <1>2, <1>3, <1>4
  <2>2. \A u \in Inside' : Progress(u)'
    BY <2>1 DEF Progress
  <2>3. LastCallWins'
    BY <1>3 DEF LastCallWins
  <2> QED BY <2>1, <2>2, <2>3 DEF CallInv
<1>6. GilInv'
  BY <1>1, <1>2, <1>3, <1>4 DEF GilInv, Readers, Inside
<1> QED BY <1>5, <1>6

\* The steps of a call under way: nobody else is past the guard.
LEMMA InSetLogKeepsPyInv ==
    ASSUME None \notin Setters, TypeOK, CallInv, GilInv,
           NEW s \in Setters, InSetLog(s)
    PROVE  CallInv' /\ GilInv'
<1>1. s \in Inside /\ gil = s
  BY DEF InSetLog, BeginDrop, StoreHandler, KeepGil, SetLogReturns, Wait, Store,
     Install, SetLevel, Restore, Inside
<1>2. dropping \in {None, s}
  <2>1. CASE BeginDrop(s) \/ StoreHandler(s)
    BY <2>1 DEF BeginDrop, StoreHandler
  <2>2. CASE Wait(s)
    BY <2>2 DEF Wait, GilInv
  <2>3. CASE SetLevel(s) \/ Install(s) \/ Restore(s)
    BY <1>1, <2>3 DEF SetLevel, Install, Restore, GilInv
  <2> QED BY <2>1, <2>2, <2>3 DEF InSetLog, KeepGil, SetLogReturns
<1>3. Inside \subseteq {s}
  BY <1>1, <1>2 DEF GilInv, Inside
<1>4. CASE BeginDrop(s)
  <2>1. UNCHANGED <<vars, gil>> /\ dropping' = s /\ Readers = {}
        /\ set_pc[s] \in {"store", "waiting"}
    BY <1>4 DEF BeginDrop
  <2>2. CallInv'
    BY <2>1, CallInvUnchanged DEF vars
  <2> QED BY <1>1, <1>3, <2>1, <2>2
          DEF vars, setVars, logVars, GilInv, Inside, Readers
<1>5. CASE StoreHandler(s) \/ KeepGil(s) \/ SetLogReturns(s)
  <2>1. InSet(s)
    BY <1>5 DEF StoreHandler, KeepGil, SetLogReturns, InSet
  <2>2. CallInv' /\ Inside' \subseteq {s}
    BY <1>3, <2>1, CallAlone
  <2>3. CASE StoreHandler(s)
    <3>1. gil' = s /\ dropping' = None
      BY <1>1, <2>3 DEF StoreHandler
    <3> QED BY <2>2, <3>1 DEF GilInv
  <2>4. CASE KeepGil(s)
    <3>1. gil' = s /\ dropping' = dropping
      BY <1>1, <2>4 DEF KeepGil
    <3>2. dropping = None
      BY <1>2, <2>4 DEF KeepGil, Wait, SetLevel, GilInv
    <3> QED BY <2>2, <3>1, <3>2 DEF GilInv
  <2>5. CASE SetLogReturns(s)
    <3>1. dropping' = dropping /\ set_pc[s] \in {"install", "restore"}
          /\ set_pc' = [set_pc EXCEPT ![s] = "idle"]
      BY <2>5 DEF SetLogReturns, Install, Restore
    <3>2. dropping = None
      BY <1>2, <3>1 DEF GilInv
    <3>3. Inside' = {}
      BY <2>2, <3>1 DEF Inside, TypeOK
    <3> QED BY <2>2, <3>1, <3>2, <3>3 DEF GilInv
  <2> QED BY <1>5, <2>3, <2>4, <2>5
<1> QED BY <1>4, <1>5 DEF InSetLog

LEMMA PyStep ==
    ASSUME None \notin Setters, Setters \cap Loggers = {},
           TypeOK, CallInv, GilInv, [PyNext]_pyVars
    PROVE  CallInv' /\ GilInv'
<1>1. ASSUME NEW t \in Loggers,
             \/ Attach(t) \/ SwitchAway(t)
             \/ HandlerReturns(t) \/ StartLog(t) \/ LogWithoutGil(t)
      PROVE  CallInv' /\ GilInv'
  BY <1>1, LoggerKeepsGilInv, CallInvUnchanged
<1>2. ASSUME NEW s \in Setters, Attach(s) \/ SwitchAway(s)
      PROVE  CallInv' /\ GilInv'
  BY <1>2, SwitchKeepsGilInv, CallInvUnchanged
<1>3. ASSUME NEW s \in Setters, InSetLog(s) \/ \E v \in Settings : SetLog(s, v)
      PROVE  CallInv' /\ GilInv'
  BY <1>3, SetLogKeepsPyInv, InSetLogKeepsPyInv
<1>4. CASE UNCHANGED pyVars
  <2>1. GilInv'
    BY <1>4 DEF pyVars, vars, setVars, logVars, GilInv, Inside, Readers
  <2> QED BY <1>4, <2>1, CallInvUnchanged DEF pyVars, vars
<1> QED BY <1>1, <1>2, <1>3, <1>4 DEF PyNext

\* Among the Python threads of an interpreter with a GIL the last call of
\* set_log wins, however many call it, and although the finalizer of a handler
\* that is replaced may let another call in: that call gets no further than the
\* write guard (both wait then, as in the run LogGil).  A thread that sets is
\* not at the same time one that logs.  Free-threaded interpreters have no GIL,
\* and there calls that overlap do what the run LogRace shows.
THEOREM LastCallWinsUnderTheGil ==
    ASSUME Setters # {}, None \notin Setters, Setters \cap Loggers = {}
    PROVE  PySpec => []LastCallWins
<1>1. PyInit => CallInv /\ GilInv
  BY InitCallInv, InitGilInv DEF PyInit
<1>2. TypeOK /\ CallInv /\ GilInv /\ [PyNext]_pyVars => CallInv' /\ GilInv'
  BY PyStep
<1>3. CallInv => LastCallWins
  BY DEF CallInv
<1> QED BY <1>1, <1>2, <1>3, TypeCorrect, SetLogUsesTheBridge, PTL DEF PySpec
=============================================================================
