---------------------------- MODULE MCPublishing ----------------------------
(* Three merchants, two requests at once, and one budget. *)
EXTENDS Publishing

CONSTANTS t1, t2, stream, gym, cafe, v1, v2, card, joint, food

Charge(label, day, amount, plan) ==
  [label |-> label, day |-> day, amount |-> amount, plan |-> plan,
   account |-> IF label = gym THEN joint ELSE card]

\* A month's subscription that gets dearer, a weekly one that is not quite regular, and
\* a name with a letter SQLite does not fold.
MCStream == { Charge(stream, 0, 10, TRUE), Charge(stream, 30, 10, TRUE), Charge(stream, 61, 10, TRUE) }
MCStreamLater == { Charge(stream, 91, 13, TRUE) }
MCGym == { Charge(gym, 40, 9, FALSE), Charge(gym, 46, 11, FALSE), Charge(gym, 54, 10, FALSE) }
MCCafe == { Charge(cafe, 10, 5, FALSE), Charge(cafe, 40, 5, FALSE), Charge(cafe, 70, 5, FALSE) }
MCCharges == MCStream \cup MCStreamLater \cup MCGym \cup MCCafe
\* A household without MQTT and much to do, and one with it.
MCHouseholds ==
  { [mqtt |-> FALSE, batches |-> {MCStream, MCStreamLater, MCGym, MCCafe}, vendors |-> {v1, v2}, edits |-> 4],
    [mqtt |-> TRUE, batches |-> {MCStream}, vendors |-> {}, edits |-> 3] }
MCFold == [l \in {stream, gym, cafe} |-> l]
MCSqlFold == [l \in {stream, gym, cafe} |-> IF l = cafe THEN None ELSE l]
MCSymmetry == Permutations(Callers) \cup Permutations(Vendors)
=============================================================================
