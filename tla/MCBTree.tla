-------------------------------- MODULE MCBTree --------------------------------
(***************************************************************************)
(* Constants for the runs of the B-tree engine.  "s" fits in its cell, "b" *)
(* takes one overflow page and "B" two.                                    *)
(***************************************************************************)
EXTENDS BTreeProperties

MCKeys   == 1 .. 10
MCVals   == {"s", "b", "B"}
MCChunks == [v \in MCVals |-> CASE v = "s" -> 0 [] v = "b" -> 1 [] v = "B" -> 2]

AnyRoom == {"ok", "no_extent", "no_block"}
Modify  == {"insert", "delete"}
UpTo(n) == [i \in 1 .. n |-> i]

\* A file system that may refuse every page; a tree of two levels; values of
\* every size while the file system fills up; crashes of a tree whose root stays,
\* which lose nothing.
MCMap == {
  Program({2}, AnyRoom, Modify \cup {"search", "close"}, 1 .. 4, {"s"}, FALSE, << >>, 5),
  Program({2}, {"ok"}, Modify \cup {"search", "close"}, 1 .. 7, {"s"}, TRUE, UpTo(5), 4),
  Program({2}, {"ok", "no_extent"}, Modify \cup {"search", "close"}, 1 .. 3, {"s", "B"}, TRUE, << >>, 4),
  Program({3}, {"ok"}, Modify \cup {"search", "close", "crash"}, 1 .. 3, {"s"}, FALSE, << >>, 4) }

MCDuplicate == {Program({2}, {"ok"}, Modify, 1 .. 6, {"s"}, FALSE, UpTo(5), 3)}
MCOverflow  == {Program({2}, {"ok"}, Modify, 1 .. 4, {"b"}, TRUE, UpTo(4), 3)}
================================================================================
