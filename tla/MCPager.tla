-------------------------------- MODULE MCPager --------------------------------
(***************************************************************************)
(* Constants for the runs of Pager: a file of at most five pages and one   *)
(* crash.  The client's pages begin with 0, with the number of a data page *)
(* or with a number beyond the file, as overflow pages and nodes do.       *)
(***************************************************************************)
EXTENDS Pager

MCWords == {0, 3, 65537}
MCAllRooms == {"ok", "no_extent", "no_block"}
================================================================================
