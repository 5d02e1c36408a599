SPECIFICATION Spec
CONSTANTS
  a1 = a1
  a2 = a2
  r1 = r1
  r2 = r2
  r3 = r3
  r4 = r4
  Accounts = {a1, a2}
  Requests = {r1, r2, r3, r4}
  Nobody = Nobody
SYMMETRY Symmetry
INVARIANTS
  TypeOK
  SingleUseUnlessMet
  TwoLinksMet
  SomeLinkWorks
  NothingLeftBehind
  OwnLinksOnly
CHECK_DEADLOCK FALSE
