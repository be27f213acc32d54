-------------------------- MODULE MCCapturePlayback --------------------------
(* A Capture over a small bundle, for TLC: a texture the commands use, a   *)
(* texture and a buffer they do not, and a streamRef of nothing.           *)
EXTENDS CapturePlayback

MCCaptured == 1..3
MCTextures == {1, 2}
MCUnused   == {2, 3}
=============================================================================
