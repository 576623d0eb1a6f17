----------------------------- MODULE MCPageCache -----------------------------
(* A small instance of PageCache: a block of two threads and a block of one.*)
EXTENDS PageCache

MCThreads == 1 .. 3
MCBlock   == <<1, 1, 2>>
MCTiles   == <<1, 2>>
=============================================================================
