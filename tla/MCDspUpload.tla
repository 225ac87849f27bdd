---------------------------- MODULE MCDspUpload ----------------------------
(***************************************************************************)
(* Instance of DspUpload; the values are in the configuration.             *)
(***************************************************************************)
EXTENDS DspUpload

=============================================================================
