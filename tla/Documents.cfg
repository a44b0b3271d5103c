SPECIFICATION Spec
CONSTANTS
  t1 = t1
  t2 = t2
  x1 = x1
  x2 = x2
  bill = bill
  ticket = ticket
  shop = shop
  rail = rail
  Callers = {t1}
  MaxReceipt = 2
  Txns = {x1, x2}
  Contents = {bill, ticket}
  Readings <- MCReadings
  TxnTemplates <- MCTemplates
  KnownTxns <- MCKnownTxns
  Typed = {500}
  Similarity <- MCSimilarity
  Null = Null
  MatchMode = "auto"
  DeleteAfter = TRUE
  ArchiveAfter = 0
  PurgeAfter = 1
  MaxDay = 2
  MaxEdits = 3
CHECK_DEADLOCK FALSE
INVARIANTS FileKept ReviewShown OneConfirmed
PROPERTIES HandKept 
