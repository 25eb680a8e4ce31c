--------------------------------- MODULE MCGuest -------------------------------
(***************************************************************************)
(* The guest of GuestLoop on the machine of MCSystem.                      *)
(***************************************************************************)
EXTENDS MCSystem

(* The instance is one that the theorem about the guest is about.          *)
ASSUME GuestMachine
================================================================================
