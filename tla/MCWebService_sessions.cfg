\* Two browsers, two storages, two requests at a time, two tokens.
CONSTANTS
  Browser = {b1, b2}
  Storage = {s1, s2}
  File = {f1}
  Token = {t1, t2}
  Req = {r1, r2}
  CookieSafe = {s1, s2}
  Served <- SessionRoutes
  None = None
SPECIFICATION Spec
SYMMETRY Interchangeable
CONSTRAINT OnePanic
INVARIANTS
  TypeOK
  TokenIsolation
PROPERTIES
  RefreshNeverLost
  SessionOnlyFromAnswer
