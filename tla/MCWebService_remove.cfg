\* The file a removal names, in the forwarded request.
CONSTANTS
  Browser = {b1}
  Storage = {s1}
  File = {f1, f2}
  Token = {t1}
  Req = {r1}
  CookieSafe = {s1}
  Served <- AllRoutes
  None = None
SPECIFICATION Spec
INVARIANT RemoveNamesFile
