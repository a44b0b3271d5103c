SPECIFICATION FairSpec
CONSTANTS
  a1 = a1
  s1 = s1
  s2 = s2
  d1 = d1
  d2 = d2
  r1 = r1
  r2 = r2
  r3 = r3
  x1 = x1
  x2 = x2
  NoReq = NoReq
  NoTxn = NoTxn
  NoRow = NoRow
  Nobody = Nobody
  NoUrl = NoUrl
  Approvers = {a1}
  Starters = {s1}
  Directs = {d1}
  Reqs = {r1, r2}
  Txns = {x1}
  Moves = {}
  Replies = {"ok", "error"}
  OneSender = TRUE
  MayCrash = FALSE
  Profiles <- MCAuto
  Sensitive <- MCNone
PROPERTIES
  BatchSettles
  CallsEnd
