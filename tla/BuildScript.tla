----------------------------- MODULE BuildScript -----------------------------
(***************************************************************************)
(* build.rs: fetch the source trees of FFmpeg and of the libraries it      *)
(* encodes with, patch the configure scripts the target needs patched,     *)
(* build the libraries and then FFmpeg in CODECPOD_BUILD_DIR, and copy the *)
(* archives to the directory cargo links from.                             *)
(*                                                                         *)
(* What is on disk outlives the script, which may be killed at any step    *)
(* and is then run again from its start.                                   *)
(***************************************************************************)
EXTENDS Integers, Sequences

CONSTANTS Deps,            \* THIRD_PARTY_DEPS, a sequence
          FFmpeg,
          Patched,         \* the dependencies patched on this target
          LooksFor,        \* of each dependency: those its configure looks for
          ATTEMPTS,
          MaxKills,        \* bound: times the script is killed
          MaxRebuilds      \* bound: builds for another OUT_DIR

\* The dependencies and FFmpeg are different packages; FFmpeg is never patched.
ASSUME BuildAssumption ==
    /\ Deps \in Seq({Deps[i] : i \in DOMAIN Deps})
    /\ \A i, j \in DOMAIN Deps : Deps[i] = Deps[j] => i = j
    /\ \A i \in DOMAIN Deps : Deps[i] # FFmpeg
    /\ Patched \subseteq {Deps[i] : i \in DOMAIN Deps}
    /\ \A i \in DOMAIN Deps : LooksFor[Deps[i]] \subseteq {Deps[j] : j \in 1..i - 1}
    /\ ATTEMPTS \in Nat \ {0}
    /\ MaxKills \in Nat /\ MaxRebuilds \in Nat

Packages == {Deps[i] : i \in DOMAIN Deps} \cup {FFmpeg}

VARIABLES vendored,        \* CODECPOD_VENDOR_DIR is set
          tree,            \* on disk, the source tree of each package,
          marker,          \*   its .extracted,
          configure,       \*   its configure script,
          built,           \*   what make (install) leaves of it,
          link_libs,       \*   the archives in OUT_DIR
          pc, task,        \* where in main() the script is
          attempt,         \* of the download
          kills, rebuilds

disk == <<tree, marker, configure, built, link_libs>>
bounds == <<kills, rebuilds>>
vars == <<vendored, disk, pc, task, attempt, bounds>>

\* What main() does, in its order: these three for each dependency, between
\* the source of FFmpeg and its build.
PerDep == <<"source", "patch", "configure">>

Tasks ==
    LET last == 3 * Len(Deps) + 3
    IN  [t \in 1..last |->
            CASE t = 1        -> [do |-> "source", of |-> FFmpeg]
              [] t = last - 1 -> [do |-> "configure", of |-> FFmpeg]
              [] t = last     -> [do |-> "link", of |-> FFmpeg]
              [] OTHER        -> [do |-> PerDep[1 + ((t - 2) % 3)],
                                  of |-> Deps[1 + ((t - 2) \div 3)]]]

Doing(what) == pc = "run" /\ Tasks[task].do = what
p == Tasks[task].of
NextTask == pc' = "run" /\ task' = task + 1
\* A failed assertion or expect(): the script ends, what is on disk stays.
Panic == pc' = "stopped" /\ task' = 1
-----------------------------------------------------------------------------
Init ==
    /\ vendored \in BOOLEAN
    /\ tree = [q \in Packages |-> IF vendored THEN "whole" ELSE "none"]
    /\ marker = [q \in Packages |-> FALSE]
    /\ configure = [q \in Packages |-> IF vendored THEN "original" ELSE "none"]
    /\ built = [q \in Packages |-> "none"]
    /\ link_libs = "none"
    /\ pc = "stopped"
    /\ task = 1
    /\ attempt = 1
    /\ kills = 0 /\ rebuilds = 0

Start ==
    /\ pc = "stopped"
    /\ pc' = "run" /\ task' = 1 /\ attempt' = 1
    /\ UNCHANGED <<vendored, disk, bounds>>

\* Mutant: only a tree that was just extracted is patched.
HaveSourceAndPatch ==
    /\ Doing("source")
    /\ vendored \/ marker[p]
    /\ pc' = "run"
    /\ task' = IF Tasks[task + 1].do = "patch" THEN task + 2 ELSE task + 1
    /\ UNCHANGED <<vendored, disk, attempt, bounds>>

\* ensure_source: the vendored tree, or one that carries the marker.
HaveSource ==
    /\ Doing("source")
    /\ vendored \/ marker[p]
    /\ NextTask
    /\ UNCHANGED <<vendored, disk, attempt, bounds>>

\* Mutant: the marker is written before the tree.
MarkFirst ==
    /\ Doing("source")
    /\ ~vendored /\ ~marker[p]
    /\ tree' = [tree EXCEPT ![p] = "partial"]
    /\ marker' = [marker EXCEPT ![p] = TRUE]
    /\ configure' = [configure EXCEPT ![p] = "torn"]
    /\ pc' = "extract" /\ attempt' = 1
    /\ UNCHANGED <<vendored, built, link_libs, task, bounds>>

\* download, and the check of its hash, succeed; unpack begins to write.
DownloadOk ==
    /\ Doing("source")
    /\ ~vendored /\ ~marker[p]
    /\ tree' = [tree EXCEPT ![p] = "partial"]
    /\ \E s \in {"torn", "original"} :
          configure' = [configure EXCEPT ![p] = s]
    /\ pc' = "extract" /\ attempt' = 1
    /\ UNCHANGED <<vendored, marker, built, link_libs, task, bounds>>

\* Mutant: one attempt too many.
DownloadFailsOnceMore ==
    /\ Doing("source")
    /\ ~vendored /\ ~marker[p]
    /\ IF attempt <= ATTEMPTS
       THEN attempt' = attempt + 1 /\ UNCHANGED <<pc, task>>
       ELSE attempt' = attempt /\ Panic
    /\ UNCHANGED <<vendored, disk, bounds>>

DownloadFails ==
    /\ Doing("source")
    /\ ~vendored /\ ~marker[p]
    /\ IF attempt < ATTEMPTS
       THEN attempt' = attempt + 1 /\ UNCHANGED <<pc, task>>
       ELSE attempt' = attempt /\ Panic
    /\ UNCHANGED <<vendored, disk, bounds>>

HashMismatch ==
    /\ Doing("source")
    /\ ~vendored /\ ~marker[p]
    /\ Panic
    /\ UNCHANGED <<vendored, disk, attempt, bounds>>

Extract ==
    /\ pc = "extract"
    /\ tree' = [tree EXCEPT ![p] = "whole"]
    /\ configure' = [configure EXCEPT ![p] = "original"]
    /\ pc' = "mark"
    /\ UNCHANGED <<vendored, marker, built, link_libs, task, attempt, bounds>>

Mark ==
    /\ pc = "mark"
    /\ marker' = [marker EXCEPT ![p] = TRUE]
    /\ NextTask
    /\ UNCHANGED <<vendored, tree, configure, built, link_libs, attempt, bounds>>

\* strip_obsolete_darwin_ldflag and disable_lame_sse_intrinsics find nothing
\* to replace.
PatchNotNeeded ==
    /\ Doing("patch")
    /\ p \notin Patched \/ configure[p] # "original"
    /\ NextTask
    /\ UNCHANGED <<vendored, disk, attempt, bounds>>

\* fs::write truncates the script and then writes it.
PatchBegins ==
    /\ Doing("patch")
    /\ p \in Patched /\ configure[p] = "original"
    /\ configure' = [configure EXCEPT ![p] = "torn"]
    /\ pc' = "patching"
    /\ UNCHANGED <<vendored, tree, marker, built, link_libs, task, attempt,
                   bounds>>

PatchEnds ==
    /\ pc = "patching"
    /\ configure' = [configure EXCEPT ![p] = "patched"]
    /\ NextTask
    /\ UNCHANGED <<vendored, tree, marker, built, link_libs, attempt, bounds>>

\* The packages whose installed files configure and make of q look for: of a
\* dependency, through pkg-config.
Needs(q) == IF q = FFmpeg THEN Packages \ {FFmpeg} ELSE LooksFor[q]

\* The script configure should be: on this target an unpatched one builds
\* nothing that links.
Intended(q) == IF q \in Patched THEN "patched" ELSE "original"

CanBuild(q) == /\ tree[q] = "whole" /\ configure[q] = Intended(q)
               /\ \A d \in Needs(q) : built[d] = "whole"

\* Mutant: a package that left anything in the build directory is not built
\* again.
ConfigureUnlessBuilt ==
    /\ Doing("configure")
    /\ IF built[p] # "none" THEN NextTask
       ELSE IF CanBuild(p) THEN pc' = "make" /\ UNCHANGED task ELSE Panic
    /\ built' = IF built[p] = "none" /\ CanBuild(p)
                THEN [built EXCEPT ![p] = "partial"] ELSE built
    /\ UNCHANGED <<vendored, tree, marker, configure, link_libs, attempt, bounds>>

\* run_autotools: configure and make start, and overwrite what they left.
Configure ==
    /\ Doing("configure")
    /\ IF CanBuild(p)
       THEN /\ built' = [built EXCEPT ![p] = "partial"]
            /\ pc' = "make" /\ UNCHANGED task
       ELSE Panic /\ UNCHANGED built
    /\ UNCHANGED <<vendored, tree, marker, configure, link_libs, attempt, bounds>>

Make ==
    /\ pc = "make"
    /\ built' = [built EXCEPT ![p] = "whole"]
    /\ NextTask
    /\ UNCHANGED <<vendored, tree, marker, configure, link_libs, attempt, bounds>>

\* emit_link_flags copies whatever archives are there ...
CopyBegins ==
    /\ Doing("link")
    /\ link_libs' = "partial"
    /\ pc' = "copy"
    /\ UNCHANGED <<vendored, tree, marker, configure, built, task, attempt,
                   bounds>>

\* ... and run_bindgen and compile_shim end the script.
CopyEnds ==
    /\ pc = "copy"
    /\ link_libs' = IF \A q \in Packages : built[q] = "whole" THEN "whole"
                                                             ELSE "partial"
    /\ pc' = "done"
    /\ UNCHANGED <<vendored, tree, marker, configure, built, task, attempt,
                   bounds>>

Kill ==
    /\ pc \notin {"stopped", "done"}
    /\ kills < MaxKills
    /\ kills' = kills + 1
    /\ pc' = "stopped" /\ task' = 1
    /\ UNCHANGED <<vendored, disk, attempt, rebuilds>>

\* Another profile or target directory: the build directory is shared, OUT_DIR
\* is not.
Rebuild ==
    /\ pc = "done"
    /\ rebuilds < MaxRebuilds
    /\ rebuilds' = rebuilds + 1
    /\ link_libs' = "none"
    /\ pc' = "stopped" /\ task' = 1
    /\ UNCHANGED <<vendored, tree, marker, configure, built, attempt, kills>>

Step == \/ Start \/ HaveSource \/ DownloadOk \/ Extract \/ Mark
        \/ PatchNotNeeded \/ PatchBegins \/ PatchEnds \/ Configure \/ Make
        \/ CopyBegins \/ CopyEnds

Next == Step \/ DownloadFails \/ HashMismatch \/ Kill \/ Rebuild

Spec == Init /\ [][Next]_vars

\* A build that stopped is run again, the network answers in the end, and the
\* tools the script calls return.
FairSpec == Spec /\ WF_vars(Step) /\ SF_vars(DownloadOk)
-----------------------------------------------------------------------------
Pieces == {"none", "partial", "whole"}

TypeOK ==
    /\ vendored \in BOOLEAN
    /\ tree \in [Packages -> Pieces] /\ built \in [Packages -> Pieces]
    /\ marker \in [Packages -> BOOLEAN]
    /\ configure \in [Packages -> {"none", "torn", "original", "patched"}]
    /\ link_libs \in Pieces
    /\ pc \in {"stopped", "run", "extract", "mark", "patching", "make", "copy",
               "done"}
    /\ task \in 1..Len(Tasks)
    /\ attempt \in 1..ATTEMPTS
    /\ kills \in 0..MaxKills /\ rebuilds \in 0..MaxRebuilds

\* A tree that carries the marker was extracted to the end, wherever an earlier
\* build was killed: what ensure_source returns without a download is whole.
MarkedIsWhole == \A q \in Packages : marker[q] => tree[q] = "whole"

\* A killed build, unless it was patching a configure script, leaves nothing a
\* later one trips over: configure never runs on a script that misses its patch
\* or on a tree that misses files.
ConfiguresIntended ==
    Doing("configure") => /\ tree[p] = "whole"
                          /\ configure[p] \in {Intended(p), "torn"}

\* What cargo links from when the script is done was all built to its end,
\* whatever killed builds left in a shared CODECPOD_BUILD_DIR.
LinksWhole == pc = "done" => link_libs = "whole"

\* A build that was killed succeeds when it is run again -- unless it was killed
\* while it rewrote a configure script: the marker keeps the torn script from
\* being extracted again, and it no longer holds what the patch looks for.
TornForGood == \E q \in Patched : configure[q] = "torn" /\ (vendored \/ marker[q])
Recovers == []<>(pc = "done" \/ TornForGood)
=============================================================================
