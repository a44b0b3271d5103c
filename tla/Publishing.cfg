SPECIFICATION Spec
CONSTANTS
  t1 = t1
  t2 = t2
  stream = stream
  gym = gym
  cafe = cafe
  v1 = v1
  v2 = v2
  card = card
  joint = joint
  food = food
  None = None
  Callers = {t1, t2}
  Charges <- MCCharges
  Labels = {stream, gym, cafe}
  Fold <- MCFold
  SqlFold <- MCSqlFold
  Vendors = {v1, v2}
  Marked = {gym}
  Chosen = {"active", "cancelled"}
  MaxId = 3
  Households <- MCHouseholds
  DETECT_WINDOW = 80
  Budgets = {food}
  Limits = {4}
  MaxDrops = 1
SYMMETRY MCSymmetry
CHECK_DEADLOCK FALSE
INVARIANTS   ShownAsPublished
