------------------------------- MODULE Wrap --------------------------------
(***************************************************************************)
(* Fixed-width unsigned counters.  The RTL keeps every pointer and every   *)
(* occupancy counter in a register of m = 2^w values and truncates the     *)
(* sum it assigns (trunc_free_list_ptr_sum, trunc_gl_num_sum, ...).        *)
(* Each such sum is less than one modulus away from the register's range,  *)
(* so truncation adds or subtracts the modulus once.                       *)
(***************************************************************************)
EXTENDS Integers

\* x truncated to a register that holds 0 .. m-1, for -m <= x < 2m.
Trunc(x, m) == IF x < 0 THEN x + m ELSE IF x >= m THEN x - m ELSE x

\* A control bit added to a counter.
Bit(b) == IF b THEN 1 ELSE 0

\* The number of increments that take the wrapped pointer `from' to `to'.
Dist(from, to, m) == Trunc(to - from, m)
=============================================================================
