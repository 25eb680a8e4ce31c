--------------------------------- MODULE MCBuild -------------------------------
(***************************************************************************)
(* Two sources and two linker scripts.  The project starts as any of the   *)
(* listings: two it accepts, one with two scripts and one with a file of   *)
(* an unknown type, which it refuses.                                      *)
(***************************************************************************)
EXTENDS Build

CONSTANTS start, main, ld, ld2, readme

MCListings == {{ld, start, main}, {ld, main}, {ld2, main}, {ld, ld2, main}, {main, readme}}
================================================================================
