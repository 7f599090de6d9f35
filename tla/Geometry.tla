------------------------------ MODULE Geometry ------------------------------
(***************************************************************************)
(* The placement of a buffer in its mapping (src/region.rs): geometry_for  *)
(* and the bit tricks it uses, in machine arithmetic.  Page sizes and      *)
(* alignments are powers of two, for which x & !(to - 1) is x rounded down *)
(* to a multiple of to.                                                    *)
(***************************************************************************)
EXTENDS Integers

CONSTANTS
  PageSize,   \* sysconf(_SC_PAGESIZE)
  Word        \* a usize counts modulo Word (2^64 in the code)

(* Mutant: nothing is rounded. *)
AlignDown_None(x, to) == x

AlignDown(x, to) == x - (x % to)

(* The sum wraps in a release build. *)
RoundUp(x, to) == AlignDown((x + to - 1) % Word, to)

AtLeastOne(size) == IF size = 0 THEN 1 ELSE size

(* Above: the end of the buffer and its padding touch the guard page.      *)
(* Below: the buffer starts where the guard page ends.                     *)
GeometryFor(layout, mode) ==
  LET size == AtLeastOne(layout.size)
      data == RoundUp(size, PageSize)
      user == AlignDown(data - size, layout.align)
  IN  IF mode = "above"
      THEN [map_len |-> data + PageSize, guard_off |-> data,
            user_off |-> user, pad |-> data - user - size]
      ELSE [map_len |-> PageSize + data, guard_off |-> 0, user_off |-> PageSize, pad |-> 0]
=============================================================================
