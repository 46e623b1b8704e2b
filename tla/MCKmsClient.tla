---------------------------- MODULE MCKmsClient -----------------------------
(* Three runs of any commands, two attempts per exchange. *)
EXTENDS KmsClient
=============================================================================
