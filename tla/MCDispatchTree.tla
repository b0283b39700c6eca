--------------------------- MODULE MCDispatchTree ---------------------------
(***************************************************************************)
(* Instance of DispatchTree for TLC; the sets of behaviours of handlers    *)
(* and middleware are given in the configurations.                         *)
(***************************************************************************)
EXTENDS DispatchTree

=============================================================================
