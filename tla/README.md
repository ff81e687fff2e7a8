# codecpod in TLA+

codecpod loads and saves audio through a statically linked FFmpeg. This
directory models the parts of it that have control flow worth checking, checks
the models with TLC on small instances, and proves theorems about most of them
with TLAPS. `PROJECT.json` lists the runs, the mutants that show that each
property can fail, the source lines each definition stands for, the
disagreements found between code and documentation, and the hazards of the code.

## 1. The system

| Component | Source | State | Operations | Interacts with |
|---|---|---|---|---|
| Decode loop | `src/loader.rs` | position in the packet loop, window bounds, counters, output storage | `load`, `load_bytes` → `load_from_ctx` → `decode` | FFmpeg's demuxer, decoder, resampler; in-memory input |
| Encode loop | `src/encoder.rs` | chunk position, PTS counter, FIFO, scratch buffers | `save`, `save_bytes` → `run_encode` → `encode_loop` → `push_through_swr`, `encode_one_frame`, `send_frame_and_drain` | resampler, `AVAudioFifo`, encoder, muxer; in-memory output |
| In-memory I/O | `src/avio.rs` | read cursor; growable sink with a position | `read_packet`, `read_seek`, `write_packet`, `write_seek`, `into_bytes` | called back by FFmpeg from `load_bytes` and `save_bytes` |
| Log bridge | `src/log.rs`, `src/log_shim.c` | `CALLBACK` (RwLock), FFmpeg's global handler and level, the shim's line buffer, prefix flag and spinlock | `log_set`; the shim's callback, `codecpod_log_dispatch` | called by FFmpeg on any thread |
| Python binding | `python/src/lib.rs` | the interpreter's lock; the caller's arrays | `info`, `load`, `save`, `save_bytes`, `set_log` | releases the lock around codec calls, not around `log_set` |
| Build script | `build.rs` | source trees, markers, patched configure scripts, build trees on disk | `ensure_source`, `extract`, patches, `run_autotools`, `emit_link_flags` | network, autotools, cargo |
| Stream information | `src/loader.rs` | none | `info`, `info_bytes` | FFmpeg, in-memory input |
| Codec parameters, formats | `src/encoder.rs`, `src/loader.rs`, `src/lib.rs` | none (tables) | `codec_io`, `pick_*`, `set_opt_*` | FFmpeg |
| Resource ownership | `src/loader.rs`, `src/encoder.rs`, `src/avio.rs`, `src/util.rs` | FFmpeg objects owned by wrappers | `Drop` | FFmpeg |
| API checks, errors, stubs | `src/lib.rs`, `src/error.rs`, `src/*_stub.rs` | none | argument checks, `Display` | |

What is hard about each, and what makes it correct:

* **Decode loop.** FFmpeg cuts the file into packets and frames as it likes, a
  seek lands on some earlier packet, the decoder and the resampler hold frames
  back, PTS may be rounded or missing, any call may fail. Correct: the buffer
  returned is exactly the window `[frame_offset, frame_offset + num_frames)`,
  each frame once and in order, and the loop ends.
* **Encode loop.** Three buffers (resampler, FIFO, encoder) delay the audio by
  different amounts, chunks and encoder frames do not divide each other, and the
  drains come in a fixed order. Correct: every frame is encoded once, in order,
  in full encoder frames with contiguous PTS; memory does not grow; the call
  ends.
* **In-memory I/O.** Muxers seek back to patch headers, and past the end.
  Correct: the sink behaves as a file and the whole of it is returned; the read
  cursor never leaves the input.
* **Log bridge.** Setters on several threads, loggers on several threads, one
  line buffer, two locks, and a handler pointer that FFmpeg reads without any.
  Correct: no callback is dropped while it runs, the last setting wins, no
  fragment is delivered twice, a line has one prefix, nobody waits forever.
* **Python binding.** A third lock, held by `set_log` and needed by the handler.
  `save` copies an array of any strides and one of two layouts and then lets
  other threads run, which may write to the array. Correct: the encoder reads
  the samples that were passed.
* **Resource ownership.** A call makes up to eight objects in FFmpeg, in steps
  that may all fail. Correct: each is released once on every path, after its last
  use; an input is closed before the memory it reads through.
* **Build script.** It may be killed anywhere, downloads fail, and a build
  directory outlives `OUT_DIR`. Correct: a marked source tree is whole, the
  configure scripts are the intended ones, the linked archives are whole, a
  killed build can be repeated.

## 2. Modules

`DecodeLoop` and `EncodeLoop` model audio by *positions* (`Runs`): a buffer is
the sequence of the positions of its sample frames in the source, so a lost,
doubled or moved frame is visible and sample values need not be modelled.

* `Runs` — runs of consecutive positions and the operators on them.
* `LoadRequest`, `LoadPromise` — what a call of `load` asks for, and the
  abstract specification of what it returns.
* `DecodeLoop` — `load_from_ctx` and `decode`. `pc` is the place in the code:
  `seek` (481–505), `read` (627–646), `receive` (648–760), `flush` (763–815).
  The other variables have the names of the source; `dec` and `held` are the
  frames inside the decoder and the resampler. `Receive` is a whole iteration of
  the inner loop: PTS, intersection with the window, grow, convert, truncate,
  and both early exits. `Stored` composes `grow_storage`, the writes of
  `swr_convert` and `truncate_storage`; a failed flush (`FlushFails`) grows the
  storage and truncates it too.
* `SavePromise`, `EncodeLoop` — the same for `save`. `send_frame_and_drain` is
  called from three places; `pc` remembers which (`AfterDrain`).
* `ByteFile`, `ByteIO` — the callbacks of `avio.rs` against a file. The buffer
  FFmpeg keeps in front of `write_packet` is part of the model, since
  `save_bytes` must flush it before it takes the sink. A call that reads and one
  that writes share the module but no state.
* `Ownership` — which objects a call has made, who owns them, in which order they
  go. Each function is the list of its steps (`OpenBytes`, `RunEncode`, ...), put
  together to a `Program` for each entry point. The actions are what the steps do
  (`Succeed`, `Fail`, `Declare`) and Rust's rules of dropping (`DropLocal`,
  `LeaveFunction`, `Release`: locals in reverse order, one object at a time).
* `BytesCall` — `Ownership` composed with `ByteIO`. A callback can happen only
  in a step, or in the release of a context, that works through `pb`; the flush
  and the taking of the bytes are steps of both.
* `Arrays` — samples in memory: NumPy arrays with strides, `AudioBuffer`, plane
  pointers. A sample is `<<channel, frame>>`. Pure operators.
* `PySave` — `save` of the binding around `EncodeLoop`: argument checks and copy,
  detached encoding, attaching again; `Overwrite` is another Python thread.
  `save_bytes` has the same control, its output is in `BytesCall`.
* `LogBridge` — `log.rs` and `log_shim.c`. One step is one critical section, one
  store to FFmpeg's globals, or the taking of a guard. `set_pc` and `log_pc`
  say where each thread is. `cut`, `lost` and `latest` (who made the last call,
  or the last ones if calls overlapped) are history variables used by properties
  only.
* `PyLog` — `set_log` of the binding, composed with the bridge: `LogBridge` plus
  the interpreter's lock (`gil`). Each of its actions is a `LogBridge` action
  with a condition on `gil`, or changes `gil` or `dropping` alone. The lock is
  switched away from handlers, and from a thread that drops a replaced handler,
  whose finalizer is Python code (`dropping`, under the write guard). The module
  is declared `gil_used = false`: in a free-threaded interpreter there is no such
  lock, and `LogBridge` is the model of the binding too.
* `BuildScript` — `build.rs`. `Tasks` is what `main` does in order (`PerDep` for
  each dependency, then FFmpeg, then the link lines), the other variables are
  what is on disk.
* `RunLemmas`, `DecodeLoopProofs`, `EncodeLoopProofs`, `PySaveProofs`,
  `ByteIOProofs`, `OwnershipProofs`, `LogBridgeProofs`, `BuildScriptProofs` — the
  proofs. `MC*` — the instances TLC checks.

FFmpeg is the environment in every module. Its operations are nondeterministic
within what its documentation lets the code rely on: packet and frame sizes, how
much is held back, where a backward seek lands, which calls fail.

## 3. Runs

| Run | Shows | Bounds |
|---|---|---|
| `DecodeExact` | `DecodeLoop` implements `LoadPromise`, respects `num_frames`, returns | files of 0–5 frames, every offset 0–6, every limit 1–5 or none; packets and frames of 1–2; decoder delay 1, resampler delay 2; one foreign packet; all reported calls may fail, and the flush of the resampler, which is not reported, fails or does not |
| `DecodeCoarse` (violation) | `NumFramesIsACap` fails when PTS are coarser than frames | 5 frames per tick, 10 frames |
| `DecodeSeek` (violation) | a seek may land after the window's start | 5 frames per tick, 10 frames, `frame_offset` 3 |
| `DecodeLate` (violation) | `frame_offset` counts from PTS 0 | first PTS 2 |
| `Encode` | `EncodeLoop` implements `SavePromise`, the FIFO stays bounded; in `PySave` the encoder reads the samples that were passed, and the call returns or raises | buffers of 0–10 frames, chunks of 3, encoder frames of 1–5, resampler delay 2, encoder delay 1, no call or every call failing; for buffers of 0, 3 and 5 frames every form of argument: 1-D and 2-D, both layouts, row-major, column-major and with gaps, 1–3 channels (3 plane pointers), interleaved buffers of 4, and nine that are refused |
| `EncodeWide` (violation) | 2^32 frames left make `save` loop forever | `Half` = 4 for 2^31 |
| `LogOne` | one setter, two loggers: the five safety properties, and calls return | 3 calls of `log_set`, 2 fragments per logger |
| `LogRace` (violation) | two setters break "the last call wins" | 2 calls |
| `LogFuse` (violation) | switching handlers can fuse fragments | 3 calls, 3 fragments |
| `LogGil` (violation) | `set_log` and a running handler wait for each other | 2 calls, one logger |
| `ByteIO` | `BytesCall`: the callbacks implement `ByteFile`; the cursor stays in bounds; nothing dangles, nothing leaks | all six entry points, any step failing; files of up to 4 bytes of 2 values, buffer of 2, six offsets, largest offset 6 |
| `BuildScript` | kills at any step, failing downloads, shared build directory | 3 libraries: two patched, of which one looks for the other, and one that is neither; 3 kills, 1 rebuild |

Why the bounds are enough: the decode bounds let a window start and end inside a
packet, a frame and the file, at their ends and past them, with frames still in
the decoder and the resampler when the loop ends. The encode bounds let an
encoder frame be smaller than, equal to and larger than a chunk, with every
remainder of the buffer by both. In `LogOne` three calls are enough to set a
callback, replace it, and go back to a level while two threads are inside the
shim; one fragment per line and two fragments per line both happen. In `ByteIO`
a write can lie in, across and past the end of what is there, also after a seek,
and each step of each entry point fails in some behaviour. In `Encode` three
plane pointers and three planar channels are the code's eight and eight.
In `BuildScript` three kills reach a build that is killed, resumed and killed
again in another phase.

`CHECK_DEADLOCK FALSE` is used where the system may stop: nobody needs to log,
call `log_set`, or rebuild. The models of calls end in a step that repeats
(`Returned`, `Idle`), so a deadlock inside a call is an error.

**Fairness.** `DecodeLoop` and `EncodeLoop`: one thread, every FFmpeg call
returns, hence weak fairness of `Next`; in `PySave` of the calling thread's
steps, `Attach` included, since the interpreter gives its lock to those who wait.
The thread that overwrites the array owes nothing. `LogBridge`: the operating system runs
every thread that is inside `log_set` or `av_log`, and callbacks return (weak
fairness per thread); nothing makes a thread start a call. `PyLog`: also, the
interpreter gives its lock in the end to a thread that asks for it again and
again, and a handler or finalizer that has it ends (strong fairness of `Attach`,
`HandlerReturns` and `InSetLog`). `BuildScript`: a build
that stopped is run again and the network answers in the end (strong fairness of
`DownloadOk`); kills are bounded and unfair.

## 4. What the violations say

* `DecodeCoarse`, `DecodeSeek`, `DecodeLate`: the window is computed from PTS,
  which name a frame exactly only when the stream's time base is at least as
  fine as its sample rate and the stream starts at 0. In Matroska (1 ms) neither
  the cap nor the start is exact. In `DecodeSeek` the target, frame 3, is rounded
  up to the tick that is also the PTS of the packet that starts at frame 4; the
  seek lands there and frame 3 is never read. `DecodeExact` and the proofs assume exact PTS
  (`ExactTimeBase`); these three runs show that the assumption is needed.
* `EncodeWide`: `(total_frames - chunk_start) as i32` is taken before the
  minimum with `CHUNK_FRAMES`.
* `LogRace`, `LogFuse`: `set` has no lock of its own, and no reset can reach a
  thread that has already loaded the old handler. An interpreter's lock prevents
  the first among Python threads (section 5), not the second; free-threaded
  interpreters have both.
* `LogGil`: `set_log` does not release the interpreter's lock around `log_set`,
  as `load`, `save` and `info` do around theirs. It concerns interpreters with a
  GIL. The model has a second such deadlock, with two setters: one drops the old
  handler under the write guard and its finalizer gives the lock away, the other
  takes it, calls `set_log` and waits for the guard. The run has one setter, so
  that it shows the first, which needs no finalizer.

Not shown by a run: the documentation of `save` says that `sample_rate` is
"ignored (taken from the buffer) when `data` is an `AudioBuffer`"
(`python/src/lib.rs`, `save` and `save_bytes`), while `build_audio_buffer`
prefers an explicit one (`Rate` in `PySave`, line 971).

## 5. Proofs

**`DecodeLoopProofs`** proves `Spec => []TypeOK`, `Spec => []NumFramesIsACap` and
`Spec => KeepsPromise` (the refinement of `LoadPromise`) for all files, options,
packet and frame sizes, delays and faults. Assumptions: the numbers of a job are
below 2^63 (`JobsAssumption`), PTS name their frames (`ExactTimeBase`), and a
job without PTS does not seek. When the flush of the resampler fails, the code returns
Ok with what it has (`converted <= 0`, loader.rs:797): the promise says that nothing
but the end of the window is missing then, and of it at most what the resampler held
back, and that otherwise nothing is. The argument: the properties are not inductive,
because they do not say where the frames still inside FFmpeg belong. `IInv` adds
that the storage is a run that starts at `frame_offset`, that the resampler holds
the run that follows it and never more than it holds back, the decoder the run that
ends at the demuxer's position, that the frames taken are those of the window before
the next frame of the decoder, and that the flush begins only when the window or the
file is at its end. `RunLemmas` has the facts about concatenating and cutting runs.
Each action has a lemma; `StepExtends` and `StepKeepsPromise` map every step to a
step of `LoadPromise` or a stutter.

**`EncodeLoopProofs`** proves `Spec => []TypeOK`, `Spec => []FifoBounded` and
`Spec => KeepsPromise` (the refinement of `SavePromise`) for all buffers, encoder
frame sizes, chunk sizes, delays and faults. Assumptions: sizes are positive
(`EncodeBounds`, `EncodeJobs`); for the refinement, buffers have fewer than 2^31
frames, which the run `EncodeWide` shows to be needed. Types and the bound on the
FIFO need no such hypothesis. None of the three is inductive: `IInv` adds
`Gapless` (FIFO and resampler hold runs that meet, and follow what was encoded),
`Cut` (what is inside the encoder continues the packets written, piece by piece,
each of `frame_size` frames or, at the end of the buffer, the rest) and
`Progress` (what each place in the loop knows: before a chunk is pushed less than
one encoder frame is in the FIFO, after the drain nothing is left in the
resampler, and so on). `FifoBounded` follows from the second of these places.
`StepKeepsPromise` maps every step to a step of `SavePromise` or a stutter.

**`PySaveProofs`** proves that a call from Python is a save (`PySpec => Spec`), so
that the theorems of `EncodeLoopProofs` hold of it, and
`PySpec => []EncoderReadsTheArgument`: for arrays of every shape, strides and order
of dimensions, and whatever other threads write to them, each chunk given to
`swr_convert` holds the samples that were passed. `CopyInv` says that the copy is
made before the first step of the encoder and before another thread can run; the
rest is arithmetic of rows and columns (`RowAndColumn`), from `pyarray_to_samples`
to `plane_offset_bytes`. Assumptions: the samples lie where shape and strides say,
or the argument is refused (`PyArguments`), and there is a plane pointer
(`PlanePointers`). The theorem leaves out planar buffers with more channels than
plane pointers (8 in the code): `in_planes` has no pointer for them.

**`ByteIOProofs`** proves `Spec => []CursorInBounds`, `Spec => []TypeOK` and
`Spec => KeepsPromise` (the refinement of `ByteFile`) for any input, bytes, offsets,
buffer size and largest offset (`ByteIOAssumption`: they are integers).
`ResolveSeekBounds` says what a seek returns, `OverwrittenType` what a write
leaves; the read cursor's invariant needs no part of the sink's. The refinement
maps the sink with the buffer in front of it to the file; its invariant,
`Flushed`, is that the buffer is empty once the muxer is done.

**`OwnershipProofs`** proves `OwnSpec => []NothingDangles` and
`OwnSpec => []NothingLeaks` for any set of entry points (`EntryPoints`: each is one
of the six of `Program`). Neither is inductive: what a step may touch, and what a
failure must release, depends on every step before it. The argument separates what
a program does when nothing fails from what failing does. `Fits(c, w, a)` says what
a step asks of the state it is reached in, for instance that the objects without
an owner are just those its failure undoes, or that a function left early does not
own the format context; `Leads(c, s, a, b)` that all steps of a function fit on the
way from `a` to `b`, and `LeadsOn` composes functions. `Turns` and `Keeps` state a
function once for every stack of callers it can be called from (`TurnsOpenAudio`,
`TurnsLoadFromCtx`, `KeepsRunEncode`, ...), so that `load` and `load_bytes`, or
`save` and `save_bytes`, share them. `RouteFits` puts the six entry points together;
`Route(c)` are the states of a call of which no step fails. `IInv` then says that a
call is on its route or falling: no object has two owners or is owned and being
released (`OneOwner`), what is being dropped goes in an order in which each object
outlives what reads through it (`InOrder`, `EndingTail`), and while a call falls all
there is is owned or about to go (`AllOwned`). The lemmas on the actions know the
programs only through `Fits`, so a new entry point needs a lemma on its route and
nothing else.

The same module proves of `BytesCall`, the composition with the callbacks, that it
implements both its parts (`CallSpec => Spec`, `CallSpec => OwnSpec`). So the theorems
of `ByteIOProofs` hold of `load_bytes`, `info_bytes` and `save_bytes`, whichever step
fails, and nothing dangles or leaks, whatever the callbacks read, write and seek.

**`LogBridgeProofs`** is about any number of setters, loggers, callbacks and
levels; callbacks and levels differ (`ConstantsAssumption`). It proves
`Spec => []TypeOK`; `Spec => []RunningIsInstalled`, whose invariant ties
`running[t]` to `log_pc[t] = "callback"`, that is, to holding the read guard,
which is what `Store` waits for; `Spec => []EachFragmentOnce`, which needs to know
that the next fragment of a thread is none of those stored (`OnceInv`, `Past`);
`Spec => []LinesHaveOnePrefix`, which is inductive given the types; and, when no
call of `log_set` begins while another is under way,
`Spec /\ [][InTurn]_vars => []LastCallWins`, of which a single setter is a case.
There the invariant (`CallInv`) says how far a call has come at each of its steps,
across the shim's handler, the level and the callback (`Progress`), and that it
counts as the last. When calls overlap it is false, as the run `LogRace` shows.

`SetLogUsesTheBridge` proves that `PyLog` implements `LogBridge` (`PySpec => Spec`),
which carries over the theorems that hold of `Spec` alone, and
`LastCallWinsUnderTheGil` proves `PySpec => []LastCallWins` for any number of
setters, in an interpreter with a lock. Calls may overlap there, since a finalizer
can lose the lock inside `log_set`; but it does so under the write guard, so that a
second call gets as far as the guard and no further (`GilInv`), and both wait. The
theorem is about safety: that such calls may never return is the deadlock of
section 4. It assumes that there is a setter, that no thread is a setter and a
logger at once, and that `None` is no thread.

**`BuildScriptProofs`** is about any list of dependencies, any of them patched, any
number of kills and rebuilds (`BuildAssumption`: the dependencies differ from one
another and from FFmpeg, and each looks only for earlier ones). It proves `Spec => []TypeOK`, `Spec => []MarkedIsWhole`,
`Spec => []ConfiguresIntended` and `Spec => []LinksWhole`. `TaskOrder` states what
the order of `main` guarantees: every package has its source before its patch and
its patch before its build, and the link comes last. `IInv` adds that a tree that
is kept is whole and only scripts to patch are rewritten (`KeptIsWhole`), what is
under way where the script may be killed (`UnderWay`), and that what this run of
the script has done is still so (`DoneSoFar`), which is what linking relies on,
since a shared build directory alone says nothing. `ConfiguresIntended` and
`Recovers` except a script that is killed while it rewrites a `configure`
(`TornForGood`): the next run keeps the torn file, and no document says otherwise.

Only model-checked: all liveness (`Terminates`, `CallReturns`, `CallsReturn`,
`Recovers`), as TLAPS does not handle fairness; and the runs that expect a violation.
Every other property of a passing run has its theorem.

## 6. What is not modelled

* Resampling to another rate, downmixing and sample formats: data. The models
  keep what the resampler holds back, which is what control depends on. `save`'s
  input planes are modelled (`Arrays`), the planes `load` reads and writes are
  not. The casts of rates to `i32` are refusals (`sample_rate must be > 0`).
* The numbers `info` reads from a stream, codec parameter tables and lookups,
  error texts, `repr`s: sequential functions without state of their own.
* The opening of inputs, encoders and muxers is one step of the loops' modules;
  its steps are in `Ownership`, which has no loops.
* A writer to an array in the middle of its copy: with the interpreter's lock
  there is none; without it NumPy itself asks the caller to exclude it.
* The text of log fragments. A fragment is who wrote it, its number, and whether
  it carries a prefix; truncation at 1024 bytes is a completed line.
* Callbacks that log or call `log_set` themselves, and several build scripts in
  one directory at once: no document says that they may, so there is nothing to
  hold the code to; both are listed as hazards.

## 7. Plan

Done: the decode loop first, as the core of the library, then the encode loop,
the log bridge with the binding over it, the in-memory I/O and the build script;
then resource ownership composed with the in-memory I/O, and the binding's `save`
composed with the encode loop.

Proved: the decode loop first, then the encode loop, the in-memory I/O, the log
bridge and the build script, and over them the compositions `PySave` and `PyLog`;
then resource ownership and its composition with the in-memory I/O.

Next:

* The planes of `load`, as `Arrays` has those of `save`.
