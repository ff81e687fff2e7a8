---------------------------- MODULE MCBuildScript ----------------------------
(***************************************************************************)
(* BuildScript as on macOS: libogg and libvorbis are patched, the second   *)
(* looks for the first, opus is neither patched nor looks for anything.    *)
(***************************************************************************)
EXTENDS BuildScript

CONSTANTS ogg, vorbis, opus

ThreeDeps == <<ogg, vorbis, opus>>
VorbisLooksForOgg ==
    [d \in {ogg, vorbis, opus} |-> IF d = vorbis THEN {ogg} ELSE {}]
=============================================================================
