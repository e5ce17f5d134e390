------------------------------- MODULE MCRom --------------------------------
(* Rom for TLC: 16 pages of RAM, half of them the claim arena.             *)
EXTENDS Rom

MCVeneer == <<12, 5>>
MCTrampoline == <<1, 1>>

\* Below the stack: aligned, unaligned, within one page, across two; in the
\* veneer; in the arena.
MCFixed == {<<4, 3>>, <<9, 2>>, <<6, 6>>, <<13, 8>>, <<38, 5>>}

MCArena == {<<3, 1>>, <<6, 4>>, <<9, 8>>, <<14, 2>>}
=============================================================================
