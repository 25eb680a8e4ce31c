-------------------------------- MODULE MCConsole ------------------------------
(***************************************************************************)
(* Three inputs and three outputs, as many of the one as of the other, as  *)
(* on the entity.  With three characters to a line, the program has lines  *)
(* that fit, lines that lose their last character and one that goes on in  *)
(* a second line.                                                          *)
(***************************************************************************)
EXTENDS Console
================================================================================
