------------------------ MODULE MCPlaybackSupervisor ------------------------
(***************************************************************************)
(* Two sessions, so that a thread that works for the first may still do so *)
(* while the second starts.                                                *)
(***************************************************************************)
EXTENDS PlaybackSupervisor

MCSessions == 1 .. MaxSessions
============================================================================
