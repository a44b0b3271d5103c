SPECIFICATION Spec
CONSTANTS
  t1 = t1
  t2 = t2
  car = car
  home = home
  s1 = s1
  p1 = p1
  i1 = i1
  g1 = g1
  Callers = {t1, t2}
  Null = Null
  Assets = {car, home}
  Entries <- MCEntries
  Sources = {"ha_api", "mqtt"}
  MonthLength = 2
  Homes <- MCHomes
  MaxMade = 3
  Accounts = {s1, p1, i1}
  Type <- MCType
  Rate <- MCRate
  HoldingIds = {1, 2}
  Units = {2}
  Prices = {3, 4}
  Balances = {1, 3}
  Deltas = {1}
  Goals = {g1}
  Targets <- MCTargets
  MAX_FORECAST_DAYS = 5
SYMMETRY MCSymmetry
CHECK_DEADLOCK FALSE
INVARIANTS
  DepositsKept
  FiguresAgree
  
  LogsAddUp
  ProductionAddsUp
