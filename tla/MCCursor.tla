-------------------------------- MODULE MCCursor --------------------------------
(***************************************************************************)
(* Programs for the run of the engine with a cursor beside it.             *)
(***************************************************************************)
EXTENDS Cursor, MCBTree

\* A tree of two levels with crashes; one of three levels; one of order 3; one
\* whose values all have overflow pages.
MCStructure == {
  Program({2}, {"ok"}, Modify \cup {"search", "close", "crash"}, 1 .. 6, {"s"}, FALSE, UpTo(5), 6),
  Program({2}, {"ok"}, Modify, 1 .. 10, {"s"}, FALSE, UpTo(9), 4),
  Program({3}, {"ok"}, Modify, 1 .. 8, {"s"}, FALSE, UpTo(6), 5),
  Program({2}, {"ok"}, Modify, 1 .. 6, {"b"}, TRUE, UpTo(4), 4) }

\* Cursors, on values with and without an overflow page.  The second program
\* reaches a tree with a key in it twice.
MCBeside == {
  Program({2}, {"ok"}, Modify \cup {"close", "cursor"}, 1 .. 4, {"s", "b"}, FALSE, UpTo(3), 3),
  Program({2}, {"ok"}, Modify \cup {"close", "cursor"}, 1 .. 5, {"b"}, FALSE, UpTo(5), 2) }

MCPrograms == MCStructure \cup MCBeside
================================================================================
