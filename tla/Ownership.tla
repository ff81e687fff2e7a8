----------------------------- MODULE Ownership ------------------------------
(***************************************************************************)
(* The objects a call of the library asks FFmpeg for, the Rust values that *)
(* own them, and the order in which they go: loader.rs, encoder.rs,        *)
(* avio.rs, util.rs.  Every function is the list of its steps; any call to *)
(* FFmpeg that can fail may fail, and `?` then leaves every function.      *)
(*                                                                         *)
(* Locals are dropped in the reverse order of their declaration, the       *)
(* fields of a value after its own Drop.                                   *)
(***************************************************************************)
EXTENDS SequencesExt

CONSTANT Calls        \* the entry points: a subset of DOMAIN Program

VARIABLES call,       \* the entry point called
          at,         \* the next step of Program[call]
          failed,     \* a step failed, the functions are left
          scopes,     \* per function entered, the owners it has declared
          dying,      \* what the owner being dropped still has to release
          alive,      \* the objects that exist
          pb          \* what AVFormatContext.pb points to

ownVars == <<call, at, failed, scopes, dying, alive, pb>>
-----------------------------------------------------------------------------
(* Steps.  A call needs objects ("pb" for what pb points to), makes others  *)
(* and, when it fails, undoes some.                                         *)
Step(does, fn) == [does |-> does, fn |-> fn, needs |-> {}, makes |-> {},
                   undo |-> {}, wires |-> "", takes |-> {}]
Use(fn, needs) == [Step("call", fn) EXCEPT !.needs = needs]
Make(fn, needs, object) == [Use(fn, needs) EXCEPT !.makes = {object}]
Wire(target) == [Step("call", "pb") EXCEPT !.needs = {"format"},
                                           !.wires = target]
\* A local that takes over the objects, and the owners it is made from.
Let(owner) == <<Step("let", owner)>>
LetFrom(owner, taken) == <<[Step("let", owner) EXCEPT !.takes = {taken}]>>
\* The object of a call that makes one, and the local that owns it.
Acquire(fn, needs, object, owner) == <<Make(fn, needs, object)>> \o Let(owner)
Enter == <<Step("enter", "")>>
Leave == <<Step("leave", "")>>
\* A function that another one calls.
Body(steps) == Enter \o steps \o Leave
DropNow(owner) == <<Step("drop", owner)>>

\* Calls that cannot fail, or whose failure the code does not look at.
Infallible == {"Box", "pb", "avio_flush", "take"}
-----------------------------------------------------------------------------
\* ReadAvio::new and WriteAvio::new.  Mutant: when there is no AVIOContext,
\* the box of the cursor or sink is forgotten.
AvioNewForgettingTheBox(opaque, owner) ==
    <<Make("av_malloc", {}, "buffer"), Make("Box", {}, opaque),
      [Make("avio_alloc_context", {"buffer", opaque}, "avio")
        EXCEPT !.undo = {"buffer"}]>> \o Let(owner)

AvioNew(opaque, owner) ==
    <<Make("av_malloc", {}, "buffer"), Make("Box", {}, opaque),
      [Make("avio_alloc_context", {"buffer", opaque}, "avio")
        EXCEPT !.undo = {"buffer", opaque}]>> \o Let(owner)

ReadAvioNew == AvioNew("cursor", "ReadAvio")
WriteAvioNew == AvioNew("sink", "WriteAvio")

PacketAndFrame == Acquire("av_packet_alloc", {}, "packet", "Packet")
                  \o Acquire("av_frame_alloc", {}, "frame", "Frame")

SwrNew(needs) == Acquire("swr_alloc_set_opts2", needs, "swr", "SwrCtx")
                 \o <<Use("swr_init", {"swr"})>>

\* FormatCtx::finish.
Finish == <<Use("avformat_find_stream_info", {"format", "pb"})>>

OpenPath == Acquire("avformat_open_input", {}, "format", "FormatCtx")
            \o Finish

\* avformat_open_input frees the context it is given when it fails.
OpenBytes ==
    ReadAvioNew
    \o <<Make("avformat_alloc_context", {}, "format"), Wire("avio"),
         [Use("avformat_open_input", {"format", "pb"})
           EXCEPT !.undo = {"format"}]>>
    \o LetFrom("FormatCtx", "ReadAvio") \o Finish

OpenAudio ==
    <<Use("av_find_best_stream", {"format"}),
      Use("avcodec_find_decoder", {"format"})>>
    \o Acquire("avcodec_alloc_context3", {}, "codec", "CodecCtx")
    \o <<Use("avcodec_parameters_to_context", {"codec", "format"}),
         Use("avcodec_open2", {"codec"})>>

InfoFromCtx == <<Use("av_find_best_stream", {"format"}),
                 Use("stream parameters", {"format"})>>

\* decode reads through DecodeCtx.fmt, a raw pointer.
LoadFromCtx ==
    OpenAudio
    \o <<Use("stream parameters", {"codec"})>>
    \o SwrNew({"codec"}) \o PacketAndFrame
    \o <<Use("av_seek_frame", {"format", "pb", "codec"}),
         Use("decode", {"format", "pb", "codec", "swr", "packet", "frame"})>>

OutputAlloc == Make("avformat_alloc_output_context2", {}, "format")

AudioFifoNew == Acquire("av_audio_fifo_alloc", {}, "fifo", "AudioFifo")

\* SwrCtx::alloc_init, which is given the layouts and not the encoder.
SwrAllocInit == SwrNew({})

EncodeLoop ==
    Body(PacketAndFrame
         \o <<Use("encode_loop", {"format", "pb", "codec", "swr", "fifo",
                                  "packet", "frame"})>>)

RunEncode ==
    Body(<<Use("avcodec_find_encoder_by_name", {}),
           Use("avformat_new_stream", {"format"})>>
         \o Acquire("avcodec_alloc_context3", {}, "codec", "EncoderCtx")
         \o <<Use("avcodec_open2", {"codec", "format"}),
              Use("avcodec_parameters_from_context", {"codec", "format"}),
              Use("avformat_write_header", {"format", "pb"})>>
         \o SwrAllocInit \o AudioFifoNew \o EncodeLoop
         \o <<Use("av_write_trailer", {"format", "pb"})>>)

Save ==
    <<OutputAlloc>> \o Let("OutputCtx")
    \o <<[Make("avio_open", {"format"}, "file") EXCEPT !.wires = "file"]>>
    \o RunEncode

SaveBytes ==
    WriteAvioNew
    \o <<OutputAlloc, Wire("avio")>> \o Let("OutputCtx")
    \o RunEncode
    \o <<Use("avio_flush", {"format", "pb"})>>
    \o DropNow("OutputCtx")
    \o <<Use("take", {"sink"})>>          \* into_bytes
    \o DropNow("WriteAvio")

Program == [info       |-> OpenPath \o InfoFromCtx \o Leave,
            info_bytes |-> OpenBytes \o InfoFromCtx \o Leave,
            load       |-> OpenPath \o LoadFromCtx \o Leave,
            load_bytes |-> OpenBytes \o LoadFromCtx \o Leave,
            save       |-> Save \o Leave,
            save_bytes |-> SaveBytes \o Leave]

ASSUME EntryPoints == Calls \subseteq DOMAIN Program
-----------------------------------------------------------------------------
AvioDrop(opaque) == <<"buffer", "avio", opaque>>

\* Mutant: the fields of FormatCtx change places.
FormatCtxAvioFirst ==
    (IF call \in {"info_bytes", "load_bytes"} THEN AvioDrop("cursor") ELSE << >>)
    \o <<"format">>

FormatCtxDrop ==
    <<"format">>
    \o (IF call \in {"info_bytes", "load_bytes"} THEN AvioDrop("cursor") ELSE << >>)

\* The output file is closed if it was opened; "pb" is the assignment
\* pb = NULL.
OutputCtxDrop == (IF call = "save" /\ pb # "NULL" THEN <<"file">> ELSE << >>)
                 \o <<"pb", "format">>

\* What the Drop of an owner releases, in order.
Releases(owner) ==
    CASE owner = "FormatCtx" -> FormatCtxDrop
      [] owner = "OutputCtx" -> OutputCtxDrop
      [] owner = "ReadAvio"  -> AvioDrop("cursor")
      [] owner = "WriteAvio" -> AvioDrop("sink")
      [] owner \in {"CodecCtx", "EncoderCtx"} -> <<"codec">>
      [] owner = "SwrCtx"    -> <<"swr">>
      [] owner = "AudioFifo" -> <<"fifo">>
      [] owner = "Packet"    -> <<"packet">>
      [] owner = "Frame"     -> <<"frame">>

\* Releasing an object works on it; a context is closed through its pb, and
\* an AVIOContext is asked where its buffer is.
ReleaseNeeds(object) ==
    CASE object = "format" -> {"format", "pb"}
      [] object = "pb"     -> {"format"}
      [] object = "buffer" -> {"buffer", "avio"}
      [] OTHER             -> {object}

\* The objects behind pb: the callbacks reach the cursor or the sink.
Behind(target) ==
    CASE target = "NULL" -> {}
      [] target = "file" -> {"file"}
      [] target = "avio" ->
            {"avio", "buffer", IF call = "save_bytes" THEN "sink" ELSE "cursor"}

Returned == scopes = << >>
Now == Program[call][at]
Running == ~Returned /\ ~failed /\ dying = << >>
Leaving == /\ ~Returned /\ dying = << >>
           /\ failed \/ Now.does = "leave"

\* The objects worked on by the step that is next.
Touched ==
    LET needs == IF dying # << >> THEN ReleaseNeeds(Head(dying))
                 ELSE IF Running THEN Now.needs \cup Now.undo ELSE {}
    IN  (needs \ {"pb"}) \cup (IF "pb" \in needs THEN Behind(pb) ELSE {})
-----------------------------------------------------------------------------
OwnInit ==
    /\ call \in Calls
    /\ at = 1
    /\ failed = FALSE
    /\ scopes = << << >> >>
    /\ dying = << >>
    /\ alive = {}
    /\ pb = "NULL"

Succeed ==
    /\ Running /\ Now.does = "call"
    /\ alive' = alive \cup Now.makes
    /\ pb' = IF Now.wires = "" THEN pb ELSE Now.wires
    /\ at' = at + 1
    /\ UNCHANGED <<call, failed, scopes, dying>>

Fail ==
    /\ Running /\ Now.does = "call"
    /\ Now.fn \notin Infallible
    /\ alive' = alive \ Now.undo
    /\ failed' = TRUE
    /\ UNCHANGED <<call, at, scopes, dying, pb>>

\* What is moved into the new owner was declared right before it.
Kept(locals, taken) ==
    IF locals # << >> /\ Last(locals) \in taken THEN Front(locals) ELSE locals

Declare ==
    /\ Running /\ Now.does = "let"
    /\ scopes' = Append(Front(scopes), Append(Kept(Last(scopes), Now.takes),
                                             Now.fn))
    /\ at' = at + 1
    /\ UNCHANGED <<call, failed, dying, alive, pb>>

EnterFunction ==
    /\ Running /\ Now.does = "enter"
    /\ scopes' = Append(scopes, << >>)
    /\ at' = at + 1
    /\ UNCHANGED <<call, failed, dying, alive, pb>>

\* The local declared last is dropped.
DropLast ==
    /\ dying' = Releases(Last(Last(scopes)))
    /\ scopes' = Append(Front(scopes), Front(Last(scopes)))
    /\ UNCHANGED <<call, failed, alive, pb>>

DropLocal == Leaving /\ Last(scopes) # << >> /\ DropLast /\ UNCHANGED at

\* drop(out_ctx), and the self of into_bytes.
DropEarly == Running /\ Now.does = "drop" /\ DropLast /\ at' = at + 1

LeaveFunction ==
    /\ Leaving /\ Last(scopes) = << >>
    /\ scopes' = Front(scopes)
    /\ at' = IF failed THEN at ELSE at + 1
    /\ UNCHANGED <<call, failed, dying, alive, pb>>

Release ==
    /\ dying # << >>
    /\ alive' = alive \ {Head(dying)}
    /\ pb' = IF Head(dying) = "pb" THEN "NULL" ELSE pb
    /\ dying' = Tail(dying)
    /\ UNCHANGED <<call, at, failed, scopes>>

Idle == Returned /\ dying = << >> /\ UNCHANGED ownVars

OwnNext == \/ Succeed \/ Fail \/ Declare \/ EnterFunction
           \/ DropLocal \/ DropEarly \/ LeaveFunction \/ Release \/ Idle

OwnSpec == OwnInit /\ [][OwnNext]_ownVars
-----------------------------------------------------------------------------
\* Nothing is used or released after it is gone, on any path: an input is
\* closed before the AVIOContext it reads from, the encoder, the resampler and
\* the FIFO outlive the loop, a failed call is not cleaned up twice.  (The
\* INVARIANT of FormatCtx, and the drop order of save_bytes.)
NothingDangles == Touched \subseteq alive

\* When the call has returned, with its result or with an error from any
\* place, everything it made is released.
NothingLeaks == Returned => alive = {}
=============================================================================
