CONSTANTS
  a1 = a1
  u1 = u1
  u2 = u2
  t1 = t1
  t2 = t2
  AppIds = {a1}
  Uuids = {u1, u2}
  Tokens = {t1, t2}
  Times = {time}
  time = time
  Garbage = Garbage
  None = None
  Missing = Missing
  Empty = Empty
  Blank = Blank
  Environments = {{"chunked"}, {"torn"}, {"disk"}, {"io"}}
SPECIFICATION Spec
INVARIANTS TypeOK Identified PersistedBeforeSent KeysKeepTheirMeaning MemoryMatchesStore
PROPERTY IdentityStable
SYMMETRY Symmetry
