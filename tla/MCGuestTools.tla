---------------------------- MODULE MCGuestTools ----------------------------
EXTENDS GuestTools

(* A hash that tells the texts apart. *)
Hash(text) == <<text>>
=============================================================================
