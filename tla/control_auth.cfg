SPECIFICATION Spec
CONSTANTS
  Goroutines = {g1, g2}
  MaxCalls = 2
  Cookies = {"tor", "stale"}
  TorCookie = "tor"
SYMMETRY Symmetry
INVARIANTS TypeOK CredentialSafe NeverMistaken
CHECK_DEADLOCK FALSE
