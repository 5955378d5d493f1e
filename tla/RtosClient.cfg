CONSTANTS
  a1 = a1
  a2 = a2
  u1 = u1
  u2 = u2
  t1 = t1
  t2 = t2
  time = time
  AppIds = {a1, a2}
  Uuids = {u1, u2}
  Tokens = {t1, t2}
  Times = {time}
  CutId = CutId
  CutObject = CutObject
  Blank = Blank
  Missing = Missing
  Environments = {{}, {"torn", "flash"}, {"unread"}, {"body"}, {"reset"}}
SPECIFICATION Spec
INVARIANTS TypeOK Identified ObjectOfId AssociationsValid StoreNotStale
PROPERTY StoredIdIsUsed
SYMMETRY Symmetry
