----------------------------- MODULE MCProcess -----------------------------
(***************************************************************************)
(* Instances of Process for TLC.                                           *)
(***************************************************************************)
EXTENDS Process

\* What cw_master_process_cycle starts.
TwoWorkers == <<CW_PROCESS_RESPAWN, CW_PROCESS_RESPAWN>>

\* More processes than slots, of several kinds.
Mixed == <<CW_PROCESS_RESPAWN, CW_PROCESS_DETACHED, CW_PROCESS_NORESPAWN, CW_PROCESS_DETACHED>>

=============================================================================
