---------------------------- MODULE MCLiveStream ----------------------------
(***************************************************************************)
(* Instances of LiveStream.                                                *)
(***************************************************************************)
EXTENDS LiveStream
==============================================================================
