--------------------------- MODULE MCHfDownloads ---------------------------
(***************************************************************************)
(* Instances of HfDownloads for TLC.                                       *)
(***************************************************************************)
EXTENDS HfDownloads

=============================================================================
