-------------------------------- MODULE Scene --------------------------------
(***************************************************************************)
(* The part of the backend that a behaviour is about, where parts that     *)
(* share no state are checked beside each other and one of them acts.      *)
(***************************************************************************)
VARIABLE scene

=============================================================================
