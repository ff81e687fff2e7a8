SPECIFICATION FairSpec
CONSTANTS
    ogg = ogg
    vorbis = vorbis
    opus = opus
    FFmpeg = FFmpeg
    Deps <- ThreeDeps
    Patched = {ogg, vorbis}
    LooksFor <- VorbisLooksForOgg
    ATTEMPTS = 3
    MaxKills = 3
    MaxRebuilds = 1
INVARIANTS
    TypeOK
    MarkedIsWhole
    ConfiguresIntended
    LinksWhole
PROPERTY Recovers
CHECK_DEADLOCK FALSE
