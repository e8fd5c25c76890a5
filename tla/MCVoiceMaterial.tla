-------------------------- MODULE MCVoiceMaterial --------------------------
(* VoiceMaterial on a small number of uploads and steps. *)
EXTENDS VoiceMaterial
=============================================================================
