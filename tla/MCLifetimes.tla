---------------------------- MODULE MCLifetimes -----------------------------
(* A run and a shell on one connection, or a request. A tick is ten        *)
(* minutes, and durations are rounded up to ticks.                         *)
EXTENDS Lifetimes

CONSTANTS r1, h1, q1, c1

SomeWorkloads == {{r1, h1}, {q1}}

=============================================================================
