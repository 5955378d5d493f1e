CONSTANTS
  Bytes = {"{", "}", "quote", "backslash", "x", "NUL"}
  MaxLen = 7
  Names <- MCNames
  Values <- MCValues
  MaxMembers = 3
  Sizes = {3, 16}
SPECIFICATION Spec
INVARIANTS MatchesReference SecondMatchesRest MemberFound ObjectsCounted
PROPERTY LaterBytesChangeNothing
CHECK_DEADLOCK FALSE
