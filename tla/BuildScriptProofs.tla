-------------------------- MODULE BuildScriptProofs --------------------------
(***************************************************************************)
(* BuildScript for any list of dependencies, any of them patched, and any  *)
(* number of kills and rebuilds: its types, that marked trees are whole,   *)
(* that configure runs on what it should, and that cargo links from        *)
(* archives built to their end.                                            *)
(***************************************************************************)
EXTENDS BuildScript, TLAPS

\* The tree of q is not fetched again.
Kept(q) == vendored \/ marker[q]

\* What is kept is whole, and only configure scripts to patch are rewritten.
KeptIsWhole ==
    \A q \in Packages :
        Kept(q) => /\ tree[q] = "whole"
                   /\ configure[q] \in {"torn", "original", "patched"}
                   /\ q \notin Patched => configure[q] = "original"

\* What is under way where the script may be killed.
UnderWay ==
    /\ pc \in {"extract", "mark"} => Tasks[task].do = "source" /\ ~Kept(p)
    /\ pc = "mark" => tree[p] = "whole" /\ configure[p] = "original"
    /\ pc = "patching" => Tasks[task].do = "patch" /\ p \in Patched
    /\ pc = "make" => Tasks[task].do = "configure"
    /\ pc = "copy" => Tasks[task].do = "link"

\* What a task done by this run of the script has left.
Did(w) ==
    /\ w.do = "source" => Kept(w.of)
    /\ w.do = "patch" => /\ Kept(w.of)
                         /\ configure[w.of] \in {Intended(w.of), "torn"}
    /\ w.do = "configure" => built[w.of] = "whole"

DoneSoFar == pc # "stopped" => \A t \in 1..task - 1 : Did(Tasks[t])

IInv == TypeOK /\ KeptIsWhole /\ UnderWay /\ DoneSoFar /\ LinksWhole
-----------------------------------------------------------------------------
LEMMA Between ==
  ASSUME NEW n \in Nat, NEW t \in 1..3 * n + 3
  PROVE  t \in {1, 3 * n + 2, 3 * n + 3} \/ t \in 2..3 * n + 1
OBVIOUS

\* The order of the tasks: the link is the last, each package has its source
\* before its patch and its build, and everything is done once.
LEMMA TaskOrder ==
  /\ Len(Tasks) \in Nat /\ Len(Tasks) >= 1
  /\ \A t \in 1..Len(Tasks) :
        /\ Tasks[t].do \in {"source", "patch", "configure", "link"}
        /\ Tasks[t].of \in Packages
        /\ Tasks[t].do = "link" <=> t = Len(Tasks)
  /\ \A s, t \in 1..Len(Tasks) :
        Tasks[s].do = Tasks[t].do /\ Tasks[s].of = Tasks[t].of => s = t
  /\ \A t \in 1..Len(Tasks) : Tasks[t].do \in {"patch", "configure"} =>
        \E s \in 1..t - 1 : Tasks[s] = [do |-> "source", of |-> Tasks[t].of]
  /\ \A t \in 1..Len(Tasks) :
        Tasks[t].do = "configure" /\ Tasks[t].of # FFmpeg =>
           \E s \in 1..t - 1 : Tasks[s] = [do |-> "patch", of |-> Tasks[t].of]
  /\ \A q \in Packages : \E t \in 1..Len(Tasks) - 1 :
        Tasks[t] = [do |-> "configure", of |-> q]
<1> DEFINE N == Len(Deps)
<1> DEFINE Of(i, k) == 3 * i - 2 + k
<1>1. N \in Nat /\ DOMAIN Deps = 1..N
  BY BuildAssumption
<1>2. Tasks = [t \in 1..3 * N + 3 |-> Tasks[t]] /\ Len(Tasks) = 3 * N + 3
  BY <1>1 DEF Tasks
<1>3. /\ Tasks[1] = [do |-> "source", of |-> FFmpeg]
      /\ Tasks[3 * N + 2] = [do |-> "configure", of |-> FFmpeg]
      /\ Tasks[3 * N + 3] = [do |-> "link", of |-> FFmpeg]
  BY <1>1 DEF Tasks
<1>4. \A i \in 1..N, k \in 1..3 :
         /\ Of(i, k) \in 2..3 * N + 1
         /\ Tasks[Of(i, k)] = [do |-> PerDep[k], of |-> Deps[i]]
  <2> SUFFICES ASSUME NEW i \in 1..N, NEW k \in 1..3
               PROVE  /\ Of(i, k) \in 2..3 * N + 1
                      /\ Tasks[Of(i, k)] = [do |-> PerDep[k], of |-> Deps[i]]
    OBVIOUS
  <2>1. Of(i, k) \in 2..3 * N + 1
    BY <1>1
  <2>2. (Of(i, k) - 2) \div 3 = i - 1 /\ (Of(i, k) - 2) % 3 = k - 1
    BY <1>1
  <2>3. PICK t \in 2..3 * N + 1 :
           t = Of(i, k) /\ 1 + ((t - 2) \div 3) = i /\ 1 + ((t - 2) % 3) = k
    BY <1>1, <2>1, <2>2
  <2>4. t # 1 /\ t # 3 * N + 2 /\ t # 3 * N + 3 /\ t \in 1..3 * N + 3
    BY <1>1
  <2>5. Tasks[t] = [do |-> PerDep[1 + ((t - 2) % 3)],
                    of |-> Deps[1 + ((t - 2) \div 3)]]
    BY <1>1, <2>4 DEF Tasks
  <2> QED BY <2>3, <2>5
<1>4a. \A i \in 1..N, k \in 1..3 : /\ Tasks[Of(i, k)].do = PerDep[k]
                                    /\ Tasks[Of(i, k)].of = Deps[i]
  <2> SUFFICES ASSUME NEW i \in 1..N, NEW k \in 1..3
               PROVE  /\ Tasks[Of(i, k)].do = PerDep[k]
                      /\ Tasks[Of(i, k)].of = Deps[i]
    OBVIOUS
  <2>1. Tasks[Of(i, k)] = [do |-> PerDep[k], of |-> Deps[i]]
    BY <1>4, Zenon
  <2> QED BY <2>1
<1>5. \A t \in 1..3 * N + 3 :
         \/ t \in {1, 3 * N + 2, 3 * N + 3}
         \/ \E i \in 1..N, k \in 1..3 : t = Of(i, k)
  <2> SUFFICES ASSUME NEW t \in 2..3 * N + 1
               PROVE  \E i \in 1..N, k \in 1..3 : t = Of(i, k)
    BY <1>1, Between, Zenon
  <2>1. PICK q \in Int, r \in 0..2 : t - 2 = 3 * q + r
    <3>1. t - 2 = 3 * ((t - 2) \div 3) + ((t - 2) % 3)
          /\ (t - 2) \div 3 \in Int /\ (t - 2) % 3 \in 0..2
      BY <1>1
    <3> QED BY <3>1
  <2>2. q + 1 \in 1..N /\ r + 1 \in 1..3 /\ t = Of(q + 1, r + 1)
    BY <1>1, <2>1
  <2> QED BY <2>2
<1>6. PerDep[1] = "source" /\ PerDep[2] = "patch" /\ PerDep[3] = "configure"
  BY DEF PerDep
<1>7. /\ \A i \in 1..N : Deps[i] \in Packages /\ Deps[i] # FFmpeg
      /\ FFmpeg \in Packages
      /\ \A i, j \in 1..N : Deps[i] = Deps[j] => i = j
  BY <1>1, BuildAssumption DEF Packages
<1> HIDE DEF N, Of
<1>8. ASSUME NEW t \in 1..3 * N + 3
      PROVE  /\ Tasks[t].do \in {"source", "patch", "configure", "link"}
             /\ Tasks[t].of \in Packages
             /\ Tasks[t].do = "link" <=> t = 3 * N + 3
  <2>1. CASE t \in {1, 3 * N + 2, 3 * N + 3}
    BY <1>1, <1>3, <1>7, <2>1
  <2>2. CASE \E i \in 1..N, k \in 1..3 : t = Of(i, k)
    <3>1. PICK i \in 1..N, k \in 1..3 : t = Of(i, k)
      BY <2>2
    <3>2. Of(i, k) \in 2..3 * N + 1
      BY <1>4, Zenon
    <3>3. Tasks[t].do = PerDep[k] /\ Tasks[t].of = Deps[i] /\ t # 3 * N + 3
      BY <1>1, <1>4a, <3>1, <3>2
    <3>4. PerDep[k] \in {"source", "patch", "configure"}
      BY <1>6
    <3> QED BY <1>7, <3>3, <3>4
  <2> QED BY <1>5, <2>1, <2>2
<1>9. ASSUME NEW t \in 1..3 * N + 3
      PROVE  /\ Tasks[t].do = "source" /\ Tasks[t].of = FFmpeg => t = 1
             /\ Tasks[t].do = "configure" /\ Tasks[t].of = FFmpeg => t = 3 * N + 2
             /\ \A j \in 1..N, k \in 1..3 :
                   Tasks[t].do = PerDep[k] /\ Tasks[t].of = Deps[j] => t = Of(j, k)
  <2>1. CASE t \in {1, 3 * N + 2, 3 * N + 3}
    BY <1>1, <1>3, <1>7, <2>1
  <2>2. CASE \E i \in 1..N, k \in 1..3 : t = Of(i, k)
    <3>1. PICK i \in 1..N, k \in 1..3 : t = Of(i, k)
      BY <2>2
    <3>2. Tasks[t].do = PerDep[k] /\ Tasks[t].of = Deps[i]
      BY <1>4a, <3>1, Zenon
    <3>3. \A m \in 1..3 : PerDep[m] = PerDep[k] => m = k
      BY <1>6
    <3> QED BY <1>7, <3>1, <3>2, <3>3
  <2> QED BY <1>5, <2>1, <2>2
<1>10. \A s, t \in 1..3 * N + 3 :
          Tasks[s].do = Tasks[t].do /\ Tasks[s].of = Tasks[t].of => s = t
  <2> SUFFICES ASSUME NEW s \in 1..3 * N + 3, NEW t \in 1..3 * N + 3,
                      Tasks[s].do = Tasks[t].do, Tasks[s].of = Tasks[t].of
               PROVE  s = t
    OBVIOUS
  <2>1. CASE t = 3 * N + 3
    BY <1>3, <1>8, <2>1
  <2>2. CASE t \in {1, 3 * N + 2}
    BY <1>3, <1>9, <2>2
  <2>3. CASE \E i \in 1..N, k \in 1..3 : t = Of(i, k)
    <3>1. PICK i \in 1..N, k \in 1..3 : t = Of(i, k)
      BY <2>3
    <3>2. Tasks[t].do = PerDep[k] /\ Tasks[t].of = Deps[i]
      BY <1>4a, <3>1, Zenon
    <3> QED BY <1>9, <3>1, <3>2
  <2> QED BY <1>5, <2>1, <2>2, <2>3
<1>11. ASSUME NEW t \in 1..3 * N + 3, Tasks[t].do \in {"patch", "configure"}
       PROVE  /\ \E s \in 1..t - 1 :
                    Tasks[s] = [do |-> "source", of |-> Tasks[t].of]
              /\ Tasks[t].do = "configure" /\ Tasks[t].of # FFmpeg =>
                    \E s \in 1..t - 1 :
                       Tasks[s] = [do |-> "patch", of |-> Tasks[t].of]
  <2>1. CASE t \in {1, 3 * N + 2, 3 * N + 3}
    <3>1. t = 3 * N + 2
      BY <1>3, <1>11, <2>1
    <3>2. 1 \in 1..t - 1
      BY <1>1, <3>1
    <3> QED BY <1>3, <3>1, <3>2
  <2>2. CASE \E i \in 1..N, k \in 1..3 : t = Of(i, k)
    <3>1. PICK i \in 1..N, k \in 1..3 : t = Of(i, k)
      BY <2>2
    <3>2. Tasks[t].do = PerDep[k] /\ Tasks[t].of = Deps[i]
      BY <1>4a, <3>1, Zenon
    <3>3. k # 1
      BY <1>6, <1>11, <3>2
    <3>4. Of(i, 1) \in 1..t - 1 /\ Of(i, 1) \in 1..3 * N + 3
      BY <1>1, <3>1, <3>3 DEF Of
    <3>5. Tasks[Of(i, 1)] = [do |-> "source", of |-> Deps[i]]
      <4>1. 1 \in 1..3
        OBVIOUS
      <4> QED BY <1>4, <1>6, <4>1, Zenon
    <3>6. k = 3 => Of(i, 2) \in 1..t - 1
      BY <1>1, <3>1 DEF Of
    <3>7. Tasks[Of(i, 2)] = [do |-> "patch", of |-> Deps[i]]
      <4>1. 2 \in 1..3
        OBVIOUS
      <4> QED BY <1>4, <1>6, <4>1, Zenon
    <3>8. Tasks[t].do = "configure" => k = 3
      <4>1. k = 2 \/ k = 3
        BY <3>3
      <4> QED BY <1>6, <3>2, <4>1
    <3> QED BY <3>2, <3>4, <3>5, <3>6, <3>7, <3>8
  <2> QED BY <1>5, <2>1, <2>2
<1>12. ASSUME NEW q \in Packages
       PROVE  \E t \in 1..3 * N + 2 : Tasks[t] = [do |-> "configure", of |-> q]
  <2>1. CASE q = FFmpeg
    BY <1>1, <1>3, <2>1
  <2>2. CASE \E i \in 1..N : q = Deps[i]
    <3>1. PICK i \in 1..N : q = Deps[i]
      BY <2>2
    <3>2. Of(i, 3) \in 1..3 * N + 2
      BY <1>1 DEF Of
    <3>3. Tasks[Of(i, 3)] = [do |-> "configure", of |-> q]
      <4>1. 3 \in 1..3
        OBVIOUS
      <4> QED BY <1>4, <1>6, <4>1, <3>1, Zenon
    <3> QED BY <3>2, <3>3
  <2> QED BY <1>1, <2>1, <2>2 DEF Packages
<1>13. Len(Tasks) - 1 = 3 * N + 2 /\ Len(Tasks) >= 1 /\ Len(Tasks) \in Nat
  BY <1>1, <1>2
<1> QED BY <1>2, <1>8, <1>10, <1>11, <1>12, <1>13
-----------------------------------------------------------------------------
LEMMA InitIInv == Init => IInv
<1> SUFFICES ASSUME Init PROVE IInv
  OBVIOUS
<1> USE DEF Init
<1>1. TypeOK
  BY TaskOrder, BuildAssumption DEF TypeOK, Pieces
<1>2. KeptIsWhole
  <2> SUFFICES ASSUME NEW q \in Packages, Kept(q)
               PROVE  tree[q] = "whole" /\ configure[q] = "original"
    BY DEF KeptIsWhole
  <2>1. vendored
    BY DEF Kept
  <2> QED BY <2>1
<1>3. UnderWay /\ DoneSoFar /\ LinksWhole
  BY DEF UnderWay, DoneSoFar, LinksWhole
<1> QED BY <1>1, <1>2, <1>3 DEF IInv

\* The task in hand, when it is not the last.
LEMMA TaskType ==
  ASSUME TypeOK
  PROVE  /\ task \in Nat /\ task \in 1..Len(Tasks) /\ p \in Packages
         /\ Tasks[task].do \in {"source", "patch", "configure", "link"}
         /\ Tasks[task].do # "link" => task + 1 \in 1..Len(Tasks)
         /\ 1 \in 1..Len(Tasks)
<1>1. task \in 1..Len(Tasks) /\ Len(Tasks) \in Nat
  BY TaskOrder DEF TypeOK
<1> QED BY <1>1, TaskOrder DEF p

\* What a patch or a build finds: the source of its package is kept.
LEMMA SourceFirst ==
  ASSUME TypeOK, DoneSoFar, pc # "stopped",
         Tasks[task].do \in {"patch", "configure"}
  PROVE  Kept(p)
<1>1. PICK s \in 1..task - 1 : Tasks[s] = [do |-> "source", of |-> p]
  BY TaskType, TaskOrder DEF p
<1>2. Did(Tasks[s])
  BY DEF DoneSoFar
<1> QED BY <1>1, <1>2 DEF Did

\* A task is done and the script goes on to the next.
LEMMA NextTaskDone ==
  ASSUME DoneSoFar, pc # "stopped", NEW now \in Nat, now = task, task' = task + 1,
         \A t \in 1..task - 1 : Did(Tasks[t]) => Did(Tasks[t])',
         Did(Tasks[now])'
  PROVE  DoneSoFar'
<1> SUFFICES ASSUME NEW t \in 1..task' - 1 PROVE Did(Tasks[t])'
  BY DEF DoneSoFar
<1>1. t \in 1..task - 1 \/ t = now
  OBVIOUS
<1> QED BY <1>1 DEF DoneSoFar

\* Steps that leave the disk alone keep what is known of it.
LEMMA DiskUnchanged ==
  ASSUME UNCHANGED <<vendored, tree, marker, configure, built>>
  PROVE  /\ KeptIsWhole => KeptIsWhole'
         /\ \A w : Did(w) => Did(w)'
         /\ \A q : Kept(q)' = Kept(q)
BY DEF KeptIsWhole, Did, Kept, Intended

\* The script stays at its task.
LEMMA SameTaskDone ==
  ASSUME DoneSoFar, pc # "stopped", task' = task,
         \A t \in 1..task - 1 : Did(Tasks[t]) => Did(Tasks[t])'
  PROVE  DoneSoFar'
BY DEF DoneSoFar

\* The steps that change nothing on disk but the archives in OUT_DIR.
LEMMA ControlSteps ==
  ASSUME IInv, \/ Start \/ HaveSource \/ DownloadFails \/ HashMismatch
               \/ PatchNotNeeded \/ CopyBegins \/ CopyEnds \/ Kill \/ Rebuild
  PROVE  IInv'
<1>1. /\ TypeOK /\ KeptIsWhole /\ UnderWay /\ DoneSoFar /\ LinksWhole
      /\ task \in Nat /\ task \in 1..Len(Tasks) /\ 1 \in 1..Len(Tasks)
  BY TaskType DEF IInv
<1>2. UNCHANGED <<vendored, tree, marker, configure, built>>
  BY DEF Start, HaveSource, DownloadFails, HashMismatch, PatchNotNeeded,
         CopyBegins, CopyEnds, Kill, Rebuild, disk
<1>3. KeptIsWhole' /\ \A w : Did(w) => Did(w)'
  BY <1>1, <1>2, DiskUnchanged
<1>4. CASE Start
  <2>1. TypeOK'
    BY <1>1, <1>4, BuildAssumption DEF Start, TypeOK, disk, bounds
  <2>2. DoneSoFar'
    BY <1>4 DEF Start, DoneSoFar
  <2>3. UnderWay' /\ LinksWhole'
    BY <1>4 DEF Start, UnderWay, LinksWhole
  <2> QED BY <1>3, <2>1, <2>2, <2>3 DEF IInv
<1>5. CASE HaveSource \/ PatchNotNeeded
  <2>1. /\ pc = "run" /\ pc' = "run" /\ task' = task + 1
        /\ UNCHANGED <<link_libs, attempt, bounds>>
        /\ Tasks[task].do \in {"source", "patch"}
    BY <1>5 DEF HaveSource, PatchNotNeeded, NextTask, Doing, disk
  <2>2. TypeOK'
    BY <1>1, <1>2, <2>1, TaskType DEF TypeOK, bounds
  <2>3. Did(Tasks[task])
    <3>1. CASE HaveSource
      BY <3>1 DEF HaveSource, Doing, Did, Kept, p
    <3>2. CASE PatchNotNeeded
      <4>1. Tasks[task].do = "patch"
        BY <3>2 DEF PatchNotNeeded, Doing
      <4>2. Kept(p) /\ p \in Packages
        BY <1>1, <2>1, <4>1, SourceFirst, TaskType
      <4>3. configure[p] \in {Intended(p), "torn"}
        BY <1>1, <3>2, <4>2 DEF PatchNotNeeded, KeptIsWhole, Intended
      <4> QED BY <4>1, <4>2, <4>3 DEF Did, p
    <3> QED BY <1>5, <3>1, <3>2
  <2>4. DoneSoFar'
    <3>1. PICK now \in Nat : now = task
      BY <1>1
    <3>2. Did(Tasks[now])'
      BY <1>3, <2>3, <3>1
    <3> QED BY <1>1, <1>3, <2>1, <3>1, <3>2, NextTaskDone
  <2>5. UnderWay' /\ LinksWhole'
    BY <2>1 DEF UnderWay, LinksWhole
  <2> QED BY <1>3, <2>2, <2>4, <2>5 DEF IInv
<1>6. CASE HashMismatch \/ Kill \/ Rebuild
  <2>1. pc' = "stopped" /\ task' = 1 /\ UNCHANGED attempt
    BY <1>6 DEF HashMismatch, Kill, Rebuild, Panic
  <2>2. link_libs' \in Pieces /\ kills' \in 0..MaxKills
        /\ rebuilds' \in 0..MaxRebuilds
    BY <1>1, <1>6, BuildAssumption
       DEF HashMismatch, Kill, Rebuild, disk, bounds, TypeOK, Pieces
  <2>3. TypeOK'
    BY <1>1, <1>2, <2>1, <2>2 DEF TypeOK
  <2>4. DoneSoFar' /\ UnderWay' /\ LinksWhole'
    BY <2>1 DEF DoneSoFar, UnderWay, LinksWhole
  <2> QED BY <1>3, <2>3, <2>4 DEF IInv
<1>7. CASE DownloadFails
  <2>1. /\ pc = "run" /\ UNCHANGED <<link_libs, bounds>>
        /\ attempt' \in 1..ATTEMPTS
        /\ \/ pc' = "run" /\ task' = task
           \/ pc' = "stopped" /\ task' = 1
    BY <1>1, <1>7, BuildAssumption DEF DownloadFails, Doing, Panic, disk, TypeOK
  <2>2. TypeOK'
    BY <1>1, <1>2, <2>1 DEF TypeOK, bounds
  <2>3. DoneSoFar'
    <3>1. CASE pc' = "stopped"
      BY <3>1 DEF DoneSoFar
    <3>2. CASE task' = task
      BY <1>1, <1>3, <2>1, <3>2, SameTaskDone
    <3> QED BY <2>1, <3>1, <3>2
  <2>4. UnderWay' /\ LinksWhole'
    BY <2>1 DEF UnderWay, LinksWhole
  <2> QED BY <1>3, <2>2, <2>3, <2>4 DEF IInv
<1>8. CASE CopyBegins \/ CopyEnds
  <2>1. /\ pc \in {"run", "copy"} /\ pc' \in {"copy", "done"} /\ task' = task
        /\ link_libs' \in Pieces /\ UNCHANGED <<attempt, bounds>>
        /\ Tasks[task].do = "link"
    BY <1>1, <1>8 DEF CopyBegins, CopyEnds, Doing, Pieces, UnderWay
  <2>2. TypeOK'
    BY <1>1, <1>2, <2>1 DEF TypeOK, bounds
  <2>3. DoneSoFar'
    BY <1>1, <1>3, <2>1, SameTaskDone
  <2>4. UnderWay'
    BY <2>1 DEF UnderWay
  <2>5. LinksWhole'
    <3> SUFFICES ASSUME CopyEnds PROVE link_libs' = "whole"
      BY <1>8 DEF LinksWhole, CopyBegins
    <3>1. task = Len(Tasks)
      BY <1>1, <2>1, TaskOrder
    <3>2. ASSUME NEW q \in Packages PROVE built[q] = "whole"
      <4>1. PICK t \in 1..Len(Tasks) - 1 :
               Tasks[t] = [do |-> "configure", of |-> q]
        BY TaskOrder
      <4>2. Did(Tasks[t])
        BY <1>1, <2>1, <3>1, <4>1 DEF DoneSoFar
      <4> QED BY <4>1, <4>2 DEF Did
    <3> QED BY <3>2 DEF CopyEnds
  <2> QED BY <1>3, <2>2, <2>3, <2>4, <2>5 DEF IInv
<1> QED BY <1>4, <1>5, <1>6, <1>7, <1>8

\* Fetching a package: nothing known of what is kept is lost, because what is
\* overwritten was not kept.
LEMMA FetchSteps ==
  ASSUME IInv, DownloadOk \/ Extract
  PROVE  IInv'
<1>1. /\ TypeOK /\ KeptIsWhole /\ UnderWay /\ DoneSoFar /\ p \in Packages
      /\ task \in Nat
  BY TaskType DEF IInv
<1>2. /\ ~Kept(p) /\ Tasks[task].do = "source"
      /\ UNCHANGED <<vendored, marker, built, link_libs, task, bounds>>
  BY <1>1 DEF DownloadOk, Extract, Doing, UnderWay, Kept
<1>3. PICK piece \in {"partial", "whole"}, script \in {"torn", "original"} :
         /\ tree' = [tree EXCEPT ![p] = piece]
         /\ configure' = [configure EXCEPT ![p] = script]
  BY DEF DownloadOk, Extract
<1>4. /\ pc # "stopped" /\ pc' \in {"extract", "mark"} /\ attempt' \in 1..ATTEMPTS
      /\ pc' = "mark" => Extract
  BY <1>1, BuildAssumption DEF DownloadOk, Extract, Doing, TypeOK
<1>5. TypeOK'
  <2>1. tree' \in [Packages -> Pieces]
    BY <1>1, <1>3 DEF TypeOK, Pieces
  <2>2. configure' \in [Packages -> {"none", "torn", "original", "patched"}]
    BY <1>1, <1>3 DEF TypeOK
  <2> QED BY <1>1, <1>2, <1>4, <2>1, <2>2 DEF TypeOK, bounds
<1>6. \A q \in Packages : /\ Kept(q)' = Kept(q)
                          /\ Kept(q) => tree'[q] = tree[q]
                                        /\ configure'[q] = configure[q]
  BY <1>1, <1>2, <1>3 DEF TypeOK, Kept
<1>7. KeptIsWhole'
  BY <1>1, <1>6 DEF KeptIsWhole
<1>8. \A t \in 1..Len(Tasks) : Did(Tasks[t]) => Did(Tasks[t])'
  <2> SUFFICES ASSUME NEW t \in 1..Len(Tasks), Did(Tasks[t])
               PROVE  Did(Tasks[t])'
    OBVIOUS
  <2>1. Tasks[t].of \in Packages
    BY TaskOrder
  <2> QED BY <1>2, <1>6, <2>1 DEF Did, Intended
<1>9. DoneSoFar'
  <2>1. task \in 1..Len(Tasks) /\ Len(Tasks) \in Nat
    BY <1>1, TaskType, TaskOrder
  <2>2. \A t \in 1..task - 1 : t \in 1..Len(Tasks)
    BY <2>1
  <2> QED BY <1>1, <1>2, <1>4, <1>8, <2>2, SameTaskDone
<1>10. UnderWay'
  <2>1. p' = p
    BY <1>2 DEF p
  <2>2. pc' = "mark" => tree'[p] = "whole" /\ configure'[p] = "original"
    BY <1>1, <1>4 DEF Extract, TypeOK
  <2>3. ~Kept(p)'
    BY <1>1, <1>2, <1>6, <2>1 DEF Kept
  <2> QED BY <1>2, <1>4, <2>1, <2>2, <2>3 DEF UnderWay
<1>11. LinksWhole'
  BY <1>4 DEF LinksWhole
<1> QED BY <1>5, <1>7, <1>9, <1>10, <1>11 DEF IInv

LEMMA MarkKeepsIInv ==
  ASSUME IInv, Mark
  PROVE  IInv'
<1>1. /\ TypeOK /\ KeptIsWhole /\ UnderWay /\ DoneSoFar /\ p \in Packages
      /\ task \in Nat /\ Len(Tasks) \in Nat
  BY TaskType, TaskOrder DEF IInv
<1>2. /\ pc = "mark" /\ pc' = "run" /\ task' = task + 1
      /\ Tasks[task].do = "source" /\ tree[p] = "whole"
      /\ configure[p] = "original" /\ marker' = [marker EXCEPT ![p] = TRUE]
      /\ UNCHANGED <<vendored, tree, configure, built, link_libs, attempt, bounds>>
  BY <1>1 DEF Mark, NextTask, UnderWay
<1>3. TypeOK'
  <2>1. marker' \in [Packages -> BOOLEAN]
    BY <1>1, <1>2 DEF TypeOK
  <2>2. task' \in 1..Len(Tasks)
    BY <1>1, <1>2, TaskType
  <2> QED BY <1>1, <1>2, <2>1, <2>2 DEF TypeOK, bounds
<1>4. \A q \in Packages : /\ Kept(q) => Kept(q)'
                          /\ Kept(q)' => Kept(q) \/ q = p
  BY <1>1, <1>2 DEF TypeOK, Kept
<1>5. KeptIsWhole'
  BY <1>1, <1>2, <1>4 DEF KeptIsWhole
<1>6. \A t \in 1..Len(Tasks) : Did(Tasks[t]) => Did(Tasks[t])'
  <2> SUFFICES ASSUME NEW t \in 1..Len(Tasks), Did(Tasks[t])
               PROVE  Did(Tasks[t])'
    OBVIOUS
  <2>1. Tasks[t].of \in Packages
    BY TaskOrder
  <2> QED BY <1>2, <1>4, <2>1 DEF Did, Intended
<1>7. DoneSoFar'
  <2>1. PICK now \in 1..Len(Tasks) : now = task /\ now \in Nat
    BY <1>1, TaskType
  <2>2. \A t \in 1..task - 1 : t \in 1..Len(Tasks)
    BY <1>1, <2>1
  <2>3. Kept(Tasks[now].of)'
    BY <1>1, <1>2, <2>1 DEF Kept, TypeOK, p
  <2>4. Did(Tasks[now])'
    BY <1>2, <2>1, <2>3 DEF Did
  <2> QED BY <1>1, <1>2, <1>6, <2>1, <2>2, <2>4, NextTaskDone
<1>8. UnderWay' /\ LinksWhole'
  BY <1>2 DEF UnderWay, LinksWhole
<1> QED BY <1>3, <1>5, <1>7, <1>8 DEF IInv

\* Rewriting a configure script, wherever it is interrupted.
LEMMA PatchSteps ==
  ASSUME IInv, PatchBegins \/ PatchEnds
  PROVE  IInv'
<1>1. /\ TypeOK /\ KeptIsWhole /\ UnderWay /\ DoneSoFar /\ p \in Packages
      /\ task \in Nat /\ Len(Tasks) \in Nat
  BY TaskType, TaskOrder DEF IInv
<1>2. /\ pc \in {"run", "patching"} /\ Tasks[task].do = "patch" /\ p \in Patched
      /\ UNCHANGED <<vendored, tree, marker, built, link_libs, attempt, bounds>>
  BY <1>1 DEF PatchBegins, PatchEnds, Doing, UnderWay
<1>3. PICK script \in {"torn", "patched"} :
         /\ configure' = [configure EXCEPT ![p] = script]
         /\ \/ pc' = "patching" /\ task' = task
            \/ pc' = "run" /\ task' = task + 1
  BY DEF PatchBegins, PatchEnds, NextTask
<1>4. TypeOK'
  <2>1. configure' \in [Packages -> {"none", "torn", "original", "patched"}]
    BY <1>1, <1>3 DEF TypeOK
  <2>2. task' \in 1..Len(Tasks)
    BY <1>1, <1>2, <1>3, TaskType
  <2> QED BY <1>1, <1>2, <1>3, <2>1, <2>2 DEF TypeOK, bounds
<1>5. \A q \in Packages : Kept(q)' = Kept(q)
  BY <1>2 DEF Kept
<1>6. /\ configure'[p] = script
      /\ \A q \in Packages : q # p => configure'[q] = configure[q]
  BY <1>1, <1>3 DEF TypeOK
<1>7. KeptIsWhole'
  BY <1>1, <1>2, <1>5, <1>6 DEF KeptIsWhole
<1>8. script \in {Intended(p), "torn"}
  BY <1>2 DEF Intended
<1>9. \A t \in 1..Len(Tasks) : Did(Tasks[t]) => Did(Tasks[t])'
  <2> SUFFICES ASSUME NEW t \in 1..Len(Tasks), Did(Tasks[t])
               PROVE  Did(Tasks[t])'
    OBVIOUS
  <2>1. Tasks[t].of \in Packages
    BY TaskOrder
  <2> QED BY <1>2, <1>5, <1>6, <1>8, <2>1 DEF Did, Intended
<1>10. DoneSoFar'
  <2>1. PICK now \in 1..Len(Tasks) : now = task /\ now \in Nat
    BY <1>1, TaskType
  <2>2. \A t \in 1..task - 1 : t \in 1..Len(Tasks)
    BY <1>1, <2>1
  <2>3. CASE task' = task
    BY <1>1, <1>2, <1>9, <2>2, <2>3, SameTaskDone
  <2>4. CASE task' = task + 1
    <3>1. Tasks[now].of = p /\ Tasks[now].do = "patch"
      BY <1>2, <2>1 DEF p
    <3>2. Kept(p)
      BY <1>1, <1>2, SourceFirst
    <3>3. Kept(Tasks[now].of)'
      BY <1>2, <3>1, <3>2 DEF Kept
    <3>4. (configure[Tasks[now].of])' \in {Intended(Tasks[now].of), "torn"}
      BY <1>6, <1>8, <3>1
    <3>5. Did(Tasks[now])'
      BY <3>1, <3>3, <3>4 DEF Did, Intended
    <3> QED BY <1>1, <1>2, <1>9, <2>1, <2>2, <2>4, <3>5, NextTaskDone
  <2> QED BY <1>3, <2>3, <2>4
<1>11. UnderWay' /\ LinksWhole'
  <2>1. task' = task => p' = p
    BY DEF p
  <2> QED BY <1>2, <1>3, <2>1 DEF UnderWay, LinksWhole
<1> QED BY <1>4, <1>7, <1>10, <1>11 DEF IInv

\* Building a package: no other package's build is touched, and this one was
\* not built by this run before.
LEMMA BuildSteps ==
  ASSUME IInv, Configure \/ Make
  PROVE  IInv'
<1>1. /\ TypeOK /\ KeptIsWhole /\ UnderWay /\ DoneSoFar /\ p \in Packages
      /\ task \in Nat /\ Len(Tasks) \in Nat /\ 1 \in 1..Len(Tasks)
  BY TaskType, TaskOrder DEF IInv
<1>2. /\ pc \in {"run", "make"} /\ Tasks[task].do = "configure"
      /\ UNCHANGED <<vendored, tree, marker, configure, link_libs, attempt, bounds>>
  BY <1>1 DEF Configure, Make, Doing, UnderWay
<1>3. CASE pc' = "stopped"
  <2>1. UNCHANGED built /\ task' = 1
    BY <1>3 DEF Configure, Make, Panic, NextTask
  <2>2. TypeOK'
    BY <1>1, <1>2, <1>3, <2>1 DEF TypeOK, bounds
  <2>3. KeptIsWhole'
    BY <1>1, <1>2, <2>1, DiskUnchanged
  <2>4. DoneSoFar' /\ UnderWay' /\ LinksWhole'
    BY <1>3 DEF DoneSoFar, UnderWay, LinksWhole
  <2> QED BY <2>2, <2>3, <2>4 DEF IInv
<1>4. CASE pc' # "stopped"
  <2>1. PICK piece \in {"partial", "whole"} :
           /\ built' = [built EXCEPT ![p] = piece]
           /\ \/ pc' = "make" /\ task' = task
              \/ pc' = "run" /\ task' = task + 1 /\ piece = "whole"
    BY <1>4 DEF Configure, Make, Panic, NextTask
  <2>2. TypeOK'
    <3>1. built' \in [Packages -> Pieces]
      BY <1>1, <2>1 DEF TypeOK, Pieces
    <3>2. task' \in 1..Len(Tasks)
      BY <1>1, <1>2, <2>1, TaskType
    <3> QED BY <1>1, <1>2, <2>1, <3>1, <3>2 DEF TypeOK, bounds
  <2>3. KeptIsWhole'
    BY <1>1, <1>2 DEF KeptIsWhole, Kept
  <2>4. /\ built'[p] = piece
        /\ \A q \in Packages : q # p => built'[q] = built[q]
    BY <1>1, <2>1 DEF TypeOK
  <2>5. PICK now \in 1..Len(Tasks) : now = task /\ now \in Nat
    BY <1>1, TaskType
  <2>6. \A t \in 1..task - 1 : Did(Tasks[t]) => Did(Tasks[t])'
    <3> SUFFICES ASSUME NEW t \in 1..task - 1, Did(Tasks[t])
                 PROVE  Did(Tasks[t])'
      OBVIOUS
    <3>1. t \in 1..Len(Tasks) /\ t # now
      BY <1>1, <2>5
    <3>2. Tasks[t].of \in Packages
      BY <3>1, TaskOrder
    <3>3. Tasks[t].do = "configure" => Tasks[t].of # p
      BY <1>2, <2>5, <3>1, TaskOrder DEF p
    <3> QED BY <1>2, <2>4, <3>2, <3>3 DEF Did, Kept, Intended
  <2>7. DoneSoFar'
    <3>1. CASE task' = task
      BY <1>1, <1>2, <2>6, <3>1, SameTaskDone
    <3>2. CASE task' = task + 1
      <4>1. Tasks[now].of = p /\ Tasks[now].do = "configure" /\ piece = "whole"
        BY <1>1, <1>2, <2>1, <2>5, <3>2 DEF p
      <4>2. Did(Tasks[now])'
        BY <2>4, <4>1 DEF Did
      <4> QED BY <1>1, <1>2, <2>5, <2>6, <3>2, <4>2, NextTaskDone
    <3> QED BY <2>1, <3>1, <3>2
  <2>8. UnderWay' /\ LinksWhole'
    BY <1>2, <2>1 DEF UnderWay, LinksWhole
  <2> QED BY <2>2, <2>3, <2>7, <2>8 DEF IInv
<1> QED BY <1>3, <1>4

LEMMA StepKeepsIInv == IInv /\ [Next]_vars => IInv'
<1> SUFFICES ASSUME IInv, [Next]_vars PROVE IInv'
  OBVIOUS
<1>1. CASE UNCHANGED vars
  BY <1>1 DEF vars, disk, bounds, IInv, TypeOK, KeptIsWhole, Kept, UnderWay, p,
              DoneSoFar, Did, Intended, LinksWhole
<1> QED BY <1>1, ControlSteps, FetchSteps, MarkKeepsIInv, PatchSteps, BuildSteps
        DEF Next, Step
-----------------------------------------------------------------------------
\* The states of a build, for any dependencies and any kills: main() of build.rs.
THEOREM Invariant == Spec => []IInv
BY InitIInv, StepKeepsIInv, PTL DEF Spec

\* Every variable keeps its type: no task but those of main(), and never more
\* than ATTEMPTS downloads of a package (ensure_source, download).
THEOREM TypeCorrect == Spec => []TypeOK
<1>1. IInv => TypeOK
  BY DEF IInv
<1> QED BY <1>1, Invariant, PTL

\* A tree that carries the marker was extracted to the end, wherever builds were
\* killed before (the order of extract and fs::write in ensure_source).
THEOREM MarkedTreesAreWhole == Spec => []MarkedIsWhole
<1>1. IInv => MarkedIsWhole
  BY DEF IInv, KeptIsWhole, Kept, MarkedIsWhole
<1> QED BY <1>1, Invariant, PTL

\* Whatever was killed before, configure runs on a whole tree and on the script
\* meant for this target, or on one torn while it was patched: a kept tree does
\* not keep a script without its patch (the order of ensure_source, the patches
\* and run_autotools in main).
THEOREM ConfigureRunsAsIntended == Spec => []ConfiguresIntended
<1>1. IInv => ConfiguresIntended
  <2> SUFFICES ASSUME IInv, Doing("configure")
               PROVE  tree[p] = "whole" /\ configure[p] \in {Intended(p), "torn"}
    BY DEF ConfiguresIntended
  <2>1. /\ TypeOK /\ KeptIsWhole /\ DoneSoFar /\ p \in Packages
        /\ pc # "stopped" /\ Tasks[task].do = "configure"
    BY TaskType DEF IInv, Doing
  <2>2. Kept(p)
    BY <2>1, SourceFirst
  <2>3. CASE p \in Patched
    <3>1. p # FFmpeg
      BY <2>3, BuildAssumption
    <3>2. PICK s \in 1..task - 1 : Tasks[s] = [do |-> "patch", of |-> p]
      BY <2>1, <3>1, TaskType, TaskOrder DEF p
    <3>3. Did(Tasks[s])
      BY <2>1 DEF DoneSoFar
    <3> QED BY <2>1, <2>2, <3>2, <3>3 DEF Did, KeptIsWhole
  <2>4. CASE p \notin Patched
    BY <2>1, <2>2, <2>4 DEF KeptIsWhole, Intended
  <2> QED BY <2>3, <2>4
<1> QED BY <1>1, Invariant, PTL

\* When the script is done, what cargo links from was all built to its end by
\* this run, whatever killed runs left in CODECPOD_BUILD_DIR (emit_link_flags).
THEOREM LinkedArchivesAreWhole == Spec => []LinksWhole
<1>1. IInv => LinksWhole
  BY DEF IInv
<1> QED BY <1>1, Invariant, PTL
=============================================================================
