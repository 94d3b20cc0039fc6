------------------------ MODULE MCPlaybackStateMachine ------------------------
(* PlaybackStateMachine on a small instance: the machine without bounds, two *)
(* items, two positions and one scalar.                                      *)
EXTENDS PlaybackStateMachine

CONSTANTS a, b
=============================================================================
