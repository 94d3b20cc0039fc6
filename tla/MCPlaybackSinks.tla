--------------------------- MODULE MCPlaybackSinks ---------------------------
(* PlaybackSinks on the inputs that move what each sink shows, and on some  *)
(* that only pass through the machine.                                      *)
EXTENDS PlaybackSinks

CONSTANT a

In(kind, args) == [kind : {kind}, arg : args]

Playback ==
  In("FileLoaded", {0}) \cup In("PauseChanged", BOOLEAN) \cup In("EndFile", {"Eof"})

Loading == In("LoadStarting", {NoItem}) \cup In("EndFile", {"Error"})

Stalls == In("PausedForCache", BOOLEAN)

BuiltinInputs ==
  Playback \cup Stalls \cup In("LoadStarting", {a}) \cup In("EndFile", {"Canceled"})
    \cup In("Metadata", {"Audio", "Video"}) \cup In("VideoFrameAvailable", {TRUE})
    \cup In("MediaType", {"Unknown"}) \cup In("Seeked", {0})

MprisInputs == Playback \cup Stalls \cup In("SeekingChanged", {TRUE})

NativeInputs == Playback \cup Loading \cup In("Artwork", {0})

PresenceInputs ==
  Playback \cup In("LoadStarting", {NoItem}) \cup In("Metadata", {"Audio"})

MCInputs == [s \in Sinks |-> CASE s = "mpris"   -> MprisInputs
                               [] s = "native"  -> NativeInputs
                               [] s = "discord" -> PresenceInputs
                               [] OTHER         -> BuiltinInputs]
MCBatch  == [s \in Sinks |-> IF s \in Builtins THEN 3 ELSE 2]
=============================================================================
