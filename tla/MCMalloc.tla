------------------------------- MODULE MCMalloc -------------------------------
(***************************************************************************)
(* Constants for the runs of the production allocator: one slab class, a   *)
(* size that no slab serves though it is small, sizes of the arena, and a  *)
(* size that gets a mapping of its own.                                    *)
(***************************************************************************)
EXTENDS Malloc

MCSlots  == <<2>>

\* Two threads and every kind of block; two threads that resize; one thread, from
\* the first call of the process, that fragments the arena.
MCPrograms == {
  Program({1, 2}, {2, 3, 5, 8}, {<<2, 2>>, <<3, 11>>}, TRUE, 3),
  Program({1, 2}, {2, 7}, {}, TRUE, 4),
  Program({1}, {3, 5, 6}, {}, FALSE, 7) }


\* Two threads make the first calls; one thread and blocks that fill a page.
MCCold == {Program({1, 2}, {2, 3}, {}, FALSE, 2)}
MCTrim == {Program({1}, {3, 4, 5, 6, 7}, {}, TRUE, 4)}
================================================================================
