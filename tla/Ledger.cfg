SPECIFICATION Spec
CONSTANTS
  t1 = t1
  t2 = t2
  x1 = x1
  x2 = x2
  x3 = x3
  card = card
  joint = joint
  GBP = GBP
  EUR = EUR
  food = food
  fun = fun
  trip = trip
  shop = shop
  ES = ES
  GB = GB
  Callers = {t1, t2}
  Txns = {x1, x2}
  Templates <- MCTemplates
  Accounts = {card, joint}
  Currencies = {GBP, EUR}
  Categories = {food, fun}
  Projects = {trip}
  Days = {5, 19, 40}
  Views = {19, 40}
  RateScale = 100
  ManualRates = {60}
  Quote <- MCQuote
  KnownRates <- MCKnownRates
  Fetches = FALSE
  Splits <- MCSplits
  Percents <- MCPercents
  NoAmount = NoAmount
  MaxEdits = 4
  Vendors = {shop}
  VendorCountry <- MCVendorCountry
  CurrencyCountry <- MCCountryOf
  DefaultCountry = GB
  Countries = {ES, GB}
  Budgets <- MCBudgets
  BudgetAmounts = {4, 9}
  TRIP_GAP = 14
  LARGE_CHARGE_FLOOR = 2
  MIN_DEBITS_FOR_BASELINE = 2
  CATEGORY_SPIKE_FLOOR = 1
  NEW_MERCHANT_FLOOR = 2
SYMMETRY MCSymmetry
CHECK_DEADLOCK FALSE
INVARIANTS  OneBase FiguresAgree HeadsUpFits
PROPERTY HistoryKept
