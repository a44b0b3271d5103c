------------------------------- MODULE MCAtRest -------------------------------
(* AtRest on small sets of threads, passphrases, inodes and changes.       *)
EXTENDS AtRest, TLC

CONSTANTS a1, a2, q1, q2, k1, k2, i1, i2, i3, i4, x1, x2

MCBothModes == {"prompt", "stored"}
MCNone == {}

MCDay(oneAdmin, quiet, stops, upgrades, failures, uploads) ==
  [oneAdmin |-> oneAdmin, quiet |-> quiet, stops |-> stops, upgrades |-> upgrades,
   failures |-> failures, uploads |-> uploads]
\* Three households: a busy one with failures, a busy one that is stopped, and a quiet
\* one with both and with upgrades.
MCHouseholds ==
  {MCDay(TRUE, FALSE, FALSE, FALSE, TRUE, {"head"}), MCDay(TRUE, FALSE, TRUE, FALSE, FALSE, {"head"}),
   MCDay(TRUE, TRUE, TRUE, TRUE, TRUE, {"old"})}
MCStopped == {MCDay(FALSE, TRUE, TRUE, FALSE, FALSE, {"head"})}

Symmetry ==
  Permutations(Inodes) \cup Permutations(Writes) \cup Permutations(Requests) \cup Permutations(Keys)
=============================================================================
