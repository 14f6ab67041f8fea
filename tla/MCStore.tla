------------------------------ MODULE MCStore -------------------------------
(* Store on two schemas that are valid and one that is not.  The first has *)
(* a slab lane of two slabs, next to each other in one page, and a flat    *)
(* lane; in the second a lane ends off the seal's alignment.  Both seals   *)
(* cross a page boundary.                                                  *)
EXTENDS Store

Lane(kind, elems, size) == [kind |-> kind, elems |-> elems, size |-> size]

MCSchemas ==
  <<[header_len |-> 2, nslabs |-> 2, lanes |-> <<Lane("slab", 1, 2), Lane("flat", 1, 2)>>],
    [header_len |-> 3, nslabs |-> 1, lanes |-> <<Lane("slab", 5, 1)>>],
    [header_len |-> 1, nslabs |-> 0, lanes |-> <<>>]>>
=============================================================================
