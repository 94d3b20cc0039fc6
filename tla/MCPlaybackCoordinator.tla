------------------------ MODULE MCPlaybackCoordinator ------------------------
(* PlaybackCoordinator with three producers, one of which queues actions,   *)
(* an external sink that posts from its callback, and one sink of each      *)
(* other kind.                                                              *)
EXTENDS PlaybackCoordinator, TLC

CONSTANTS mpv, web, plat, mpris, hook, browser, select
=============================================================================
