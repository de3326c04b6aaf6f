--------------------------- MODULE MCMemoryIndex ---------------------------
(* Small instances of MemoryIndex.  Events are interchangeable, and so are   *)
(* handlers.                                                                *)
EXTENDS MemoryIndex, TLC

Symmetry == Permutations(Event) \cup Permutations(Handler)
============================================================================
