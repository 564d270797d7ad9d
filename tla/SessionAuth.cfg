SPECIFICATION AuthSpec
SYMMETRY Interchangeable
CONSTANTS
  Browsers = {b1, b2}
  Desktops = {d1}
  Tokens = {t1, t2}
  Nobody = Nobody
  MaxQueue = 1
  MaxGeneration = 1
  MaxSwitches = 2
  MaxCrashes = 1
INVARIANTS AuthTypeOK AccessFollowsLastSwitch PairingsHold
PROPERTY NoCookieAcrossSwitchOff
CHECK_DEADLOCK FALSE
