-------------------------- MODULE MCBrowserSession --------------------------
(* Two threads dispatch to CEF and lease the platform while it shuts down. *)
EXTENDS BrowserSession
=============================================================================
