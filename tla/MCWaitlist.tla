----------------------------- MODULE MCWaitlist -----------------------------
(* Instances of module Waitlist for TLC. *)
EXTENDS Waitlist, TLC

\* One row a batch, or two, and a window of one step of the clock, or two.
BatchOfOne == [j \in Projects |-> 1]
BatchOfTwo == [j \in Projects |-> 2]
ShortWindow == [j \in Projects |-> 1]
LongWindow  == [j \in Projects |-> 2]

\* Sign-ups are interchangeable, and so are addresses.
ClientSymmetry == Permutations(Clients)
Symmetry == Permutations(Clients) \cup Permutations(Emails)
=============================================================================
