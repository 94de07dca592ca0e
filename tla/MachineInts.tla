---------------------------- MODULE MachineInts ----------------------------
(***************************************************************************)
(* The signed integers of the machine: an int counts from -limit to        *)
(* limit - 1, where limit is 2^31 in the program.                          *)
(***************************************************************************)
EXTENDS Integers

\* What is left of n in an int: a size_t or the exact product of two ints.  A
\* conversion drops the higher bits; a product that overflows is undefined in C++,
\* and the processor's multiplication drops them too.
AsInt(n, limit) == ((n + limit) % (2 * limit)) - limit
=============================================================================
