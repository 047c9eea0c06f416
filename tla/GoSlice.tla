------------------------------ MODULE GoSlice ------------------------------
(***************************************************************************)
(* Go's byte slices, as the toxics use them.  The bytes of a stream are      *)
(* numbered from 1.  A slice holds the bytes lo+1 .. hi, in an array that     *)
(* ends with byte cap.  Reslicing may reach up to cap, not only up to hi.    *)
(***************************************************************************)
EXTENDS Integers

\* make([]byte, n): length and capacity agree.
Made(lo, n) == [lo |-> lo, hi |-> lo + n, cap |-> lo + n]

Size(s) == s.hi - s.lo

\* s[a:b] does not panic.
InBounds(s, a, b) == 0 <= a /\ a <= b /\ b <= s.cap - s.lo

\* s[a:b]
Cut(s, a, b) == [s EXCEPT !.lo = s.lo + a, !.hi = s.lo + b]

\* The bytes of s, in order.
Bytes(s) == [k \in 1..Size(s) |-> s.lo + k]

Slices == [lo : Int, hi : Int, cap : Int]
=============================================================================
