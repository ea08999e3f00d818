CONSTANTS
  Accounts = {a1}
  Workers = {w1, w2}
  Null = Null
  Ahead = 4
  Life = 5
  MaxDay = 12
  MaxOutages = 2
  MaxLogins = 3
  MaxRevokes = 2
SPECIFICATION Spec
INVARIANTS TypeOK NeverLapses AlertedOnce
SYMMETRY Symmetry
CHECK_DEADLOCK FALSE
