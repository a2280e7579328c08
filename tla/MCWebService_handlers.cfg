\* Every route, with a storage whose name cannot name a cookie.
CONSTANTS
  Browser = {b1, b2}
  Storage = {s1, s2}
  File = {f1, f2}
  Token = {t1, t2}
  Req = {r1}
  CookieSafe = {s1}
  Served <- AllRoutes
  None = None
SPECIFICATION FairSpec
INVARIANTS
  SessionInv
  AnswerInv
  SuccessIsConfirmed
  OneAnswer
  BodiesClosed
PROPERTIES
  LoginEstablishesSession
  EveryRequestAnswered
