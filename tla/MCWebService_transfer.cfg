\* A transfer that breaks off after its first bytes.
CONSTANTS
  Browser = {b1}
  Storage = {s1}
  File = {f1, f2}
  Token = {t1}
  Req = {r1}
  CookieSafe = {s1}
  Served <- AllRoutes
  None = None
SPECIFICATION Spec
INVARIANT FileArrivesWhole
