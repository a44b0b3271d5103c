SPECIFICATION Spec
CONSTANTS
  Callers = {t1, t2}
  Files = {bank, photo, jan, feb}
  AiFiles <- MCPhoto
  Rows <- MCRows
  Bank <- MCBank
  Labels = {curve}
  NoLabel = NoLabel
  Owns <- MCOwns
  NoFile = NoFile
  DATE_WINDOW_DAYS = 4
  MaxId = 2
  MaxAccounts = 2
  Worlds <- MCWorlds
  t1 = t1
  t2 = t2
  bank = bank
  curve = curve
  jan = jan
  feb = feb
  photo = photo
CHECK_DEADLOCK FALSE
SYMMETRY Symmetry
INVARIANTS
  HashOnce
  StaysConfirmable
  
  
