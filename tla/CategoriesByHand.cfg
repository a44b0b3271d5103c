SPECIFICATION Spec
CONSTANTS
  t1 = t1
  t2 = t2
  x1 = x1
  coffee = coffee
  food = food
  fun = fun
  NoName = NoName
  NoText = NoText
  Callers = {t1, t2}
  Txns = {x1}
  Texts = {coffee}
  Desc <- MCDesc
  Names = {food, fun}
  Library <- MCLibrary
  Keyword <- MCKeyword
  HandRules <- MCHandRules
  HandAliases <- MCHandAliases
  MaxCategory = 2
  MaxVendor = 2
  MaxRule = 2
  MaxEdits = 3
  Apart <- MCApart
SYMMETRY MCSymmetry
  
PROPERTY HandOnly
CHECK_DEADLOCK FALSE
