----------------------------- MODULE MCAwpAuth -----------------------------
(* Instances of AwpAuth for TLC. *)
EXTENDS AwpAuth
=============================================================================
