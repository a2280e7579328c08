\* A storage whose name cannot name a cookie.
CONSTANTS
  Browser = {b1}
  Storage = {s1}
  File = {f1, f2}
  Token = {t1}
  Req = {r1}
  CookieSafe = {}
  Served <- AllRoutes
  None = None
SPECIFICATION Spec
INVARIANT LoginAlwaysSignsIn
