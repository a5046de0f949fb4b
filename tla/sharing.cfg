SPECIFICATION Spec
CONSTANTS
  Users = {ann, bob}
  Tokens = {link1, link2}
  Runs = {r1, r2, r3}
  Limit = 1
  Ttl = 1
  MaxTime = 2
INVARIANTS TypeOK WithinLimit OneLiveLink
PROPERTIES RevokeTakesBack AcceptanceStands KeepsTheList
SYMMETRY SharingSymmetry
CHECK_DEADLOCK FALSE
