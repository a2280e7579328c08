-------------------------- MODULE WebServiceProofs --------------------------
(***************************************************************************)
(* Theorems about WebService for every set of browsers, storages, tokens,   *)
(* routes and request slots: the inductive invariant SessionInv, and with it type *)
(* correctness and the isolation of session tokens.                         *)
(***************************************************************************)
EXTENDS WebService, TLAPS

-----------------------------------------------------------------------------
(* The operations of the response writer.                                  *)

\* A write leaves a response of the right kind and never changes its cookies.
LEMMA WriteHeaderType ==
  ASSUME NEW wr \in Response, NEW status \in {200, 302, 400}
  PROVE  /\ WriteHeader(wr, status) \in Response
         /\ WriteHeader(wr, status).cookies = wr.cookies
BY DEF WriteHeader, Response

\* Neither does a write of a part of the body.
LEMMA WriteType ==
  ASSUME NEW wr \in Response, NEW part \in {"json", "html", "data"}
  PROVE  /\ Write(wr, part) \in Response
         /\ Write(wr, part).cookies = wr.cookies
<1> DEFINE sent == WriteHeader(wr, 200)
<1>1. sent \in Response /\ sent.cookies = wr.cookies
  BY WriteHeaderType
<1>2. sent.body \cup {part} \in SUBSET {"json", "html", "data"}
  BY <1>1 DEF Response
<1>3. Write(wr, part) = [sent EXCEPT !.body = sent.body \cup {part}]
  BY DEF Write
<1> HIDE DEF sent
<1>4. QED
  BY <1>1, <1>2, <1>3 DEF Response

\* Neither does the error document of httperror.Error.WriteJSON.
LEMMA WriteJSONType ==
  ASSUME NEW wr \in Response
  PROVE  /\ WriteJSON(wr) \in Response
         /\ WriteJSON(wr).cookies = wr.cookies
BY WriteHeaderType, WriteType DEF WriteJSON

\* What the handlers write when they fail leaves the cookies alone too.
LEMMA FailureType ==
  ASSUME NEW a, NEW wr \in Response
  PROVE  /\ Failed(a, wr) \in Response /\ Failed(a, wr).cookies = wr.cookies
         /\ Refusal(a, wr) \in Response /\ Refusal(a, wr).cookies = wr.cookies
         /\ Panicked(a, wr) \in Response
         /\ Panicked(a, wr).cookies = wr.cookies
         /\ Dropped(a, wr) \in Response
         /\ Dropped(a, wr).cookies = wr.cookies
<1>1. Unwound(a, wr) \in Response /\ Unwound(a, wr).cookies = wr.cookies
  BY WriteType DEF Unwound
<1>2. QED
  BY <1>1, WriteType, WriteJSONType, WriteHeaderType
     DEF Failed, Refusal, Panicked, Dropped

\* SetToken changes no cookie but the one it names.
LEMMA SetTokenType ==
  ASSUME NEW wr \in Response, NEW token \in MaybeToken, NEW name \in Storage
  PROVE  /\ SetToken(wr, token, name) \in Response
         /\ \A s \in Storage :
              SetToken(wr, token, name).cookies[s] # wr.cookies[s]
                => s = name /\ SetToken(wr, token, name).cookies[s] = token
BY DEF SetToken, Response, Cookies

-----------------------------------------------------------------------------
(* The account of a request.                                               *)

\* A request that has passed its form's checks is about one storage.
LEMMA AccountType ==
  ASSUME NEW a \in Ask, FormComplete(a),
         a.handler # "Register" => a.sp.storage # None
  PROVE  Account(a) \in Storage
BY DEF Ask, Form, Parameters, MaybeStorage, FormComplete, Account

\* The token a forwarded request presents is the cookie of its account, and
\* the storage it names, if it names one, is its account.
LEMMA MessageOfAccount ==
  ASSUME NEW a \in Ask, FormComplete(a),
         a.handler # "Register" => a.sp.storage # None
  PROVE  /\ Message(a).token = a.cookies[Account(a)]
         /\ Message(a).values.storage \in {None, Account(a)}
         /\ Templated(a) => Message(a).values.storage = Account(a)
<1>1. Account(a) \in Storage
  BY AccountType
<1>2. Message(a).token = a.cookies[Account(a)]
  BY <1>1, NoneAssumption DEF Message, GetToken
<1>3. Message(a).values = Values(a)
  BY DEF Message
<1>4. CASE a.handler = "Register"
  BY <1>2, <1>3, <1>4 DEF Values, NoValues, Account, Templated
<1>5. CASE a.handler = "Upload"
  BY <1>2, <1>3, <1>5 DEF Values, NoValues, Account, Templated
<1>6. CASE a.handler \notin {"Register", "Upload"}
  BY <1>2, <1>3, <1>6 DEF Values, Account, Templated
<1>7. QED
  BY <1>4, <1>5, <1>6

\* The storage the gateway takes a forwarded request to be about, if any, is
\* the account of the request.
LEMMA SubjectIsAccount ==
  ASSUME SessionInv, NEW r \in Req, pc[r] = "waiting",
         Subject(Message(ask[r])) # None
  PROVE  Subject(Message(ask[r])) = Account(ask[r])
<1> DEFINE a == ask[r]
           m == Message(a)
<1>1. /\ a \in Ask /\ FormComplete(a)
      /\ a.handler # "Register" => a.sp.storage # None
  BY DEF SessionInv, TypeOK, RequestOK
<1>2. Account(a) \in Storage
  BY <1>1, AccountType
<1>3. m.token = a.cookies[Account(a)]
      /\ m.values.storage \in {None, Account(a)}
  BY <1>1, MessageOfAccount
<1>4. CASE m.token # None
  <2>1. issued[m.token] = [browser |-> a.browser, storage |-> Account(a)]
    BY <1>2, <1>3, <1>4 DEF SessionInv, SnapshotIsolation
  <2>2. QED
    BY <2>1, <1>4 DEF Subject
<1>5. CASE m.token = None
  BY <1>3, <1>5 DEF Subject
<1>6. QED
  BY <1>4, <1>5

-----------------------------------------------------------------------------
(* The inductive invariant.                                                *)

\* Before the first request nothing is issued and nothing is in a jar.
LEMMA InitSessionInv == Init => SessionInv
<1> SUFFICES ASSUME Init PROVE SessionInv
  OBVIOUS
<1> USE DEF Init
<1>1. NoCookies \in Cookies /\ \A s \in Storage : NoCookies[s] = None
  BY DEF NoCookies, Cookies, MaybeToken
<1>2. Fresh \in Response
  BY <1>1 DEF Fresh, Response
<1>3. NoAnswer \in Answer
  BY DEF NoAnswer, Answer, MaybeToken
<1>4. TypeOK
  BY <1>1, <1>2, <1>3 DEF TypeOK, Step, Breakage, Client
<1>5. RequestOK
  BY DEF RequestOK
<1>6. JarIsolation
  BY <1>1 DEF JarIsolation
<1>7. SnapshotIsolation /\ AnswerIsolation /\ PendingIsolation
  BY DEF SnapshotIsolation, AnswerIsolation, PendingIsolation
<1>8. QED
  BY <1>4, <1>5, <1>6, <1>7 DEF SessionInv

\* A step of the service itself: it moves one request on and writes to its
\* response, sets only cookies issued to its browser, and touches no jar, no
\* grant, no request and no answer.
LEMMA ServiceStep ==
  ASSUME SessionInv, NEW r \in Req, pc[r] # "idle",
         NEW wr \in Response, NEW step \in Step,
         step # "idle",
         step \in {"waiting", "answered", "relay"} => FormComplete(ask[r]),
         step \in {"answered", "relay"} => pc[r] \in {"answered", "relay"},
         \A s \in Storage : wr.cookies[s] # None =>
           issued[wr.cookies[s]]
             = [browser |-> ask[r].browser, storage |-> s],
         w' = [w EXCEPT ![r] = wr],
         pc' = [pc EXCEPT ![r] = step],
         UNCHANGED <<jar, issued, ask, rsp, client>>,
         open' \in [Req -> BOOLEAN], broke' \in [Req -> Breakage]
  PROVE  SessionInv'
<1>1. TypeOK /\ RequestOK /\ JarIsolation /\ SnapshotIsolation
      /\ AnswerIsolation /\ PendingIsolation
  BY DEF SessionInv
<1>2. \A q \in Req : q # r => w'[q] = w[q] /\ pc'[q] = pc[q]
  BY <1>1 DEF TypeOK
<1>3. w'[r] = wr /\ pc'[r] = step
  BY <1>1 DEF TypeOK
<1>4. TypeOK'
  BY <1>1 DEF TypeOK
<1>5. RequestOK'
  BY <1>1, <1>2, <1>3 DEF RequestOK
<1>6. JarIsolation'
  BY <1>1 DEF JarIsolation
<1>7. SnapshotIsolation'
  BY <1>1, <1>2, <1>3 DEF SnapshotIsolation
<1>8. AnswerIsolation'
  BY <1>1, <1>2, <1>3 DEF AnswerIsolation
<1>9. PendingIsolation'
  BY <1>1, <1>2, <1>3 DEF PendingIsolation
<1>10. QED
  BY <1>4, <1>5, <1>6, <1>7, <1>8, <1>9 DEF SessionInv

\* A write that leaves the cookies alone sets only cookies that were pending.
LEMMA CookiesKept ==
  ASSUME SessionInv, NEW r \in Req, pc[r] # "idle",
         NEW wr \in Response, wr.cookies = w[r].cookies
  PROVE  \A s \in Storage : wr.cookies[s] # None =>
           issued[wr.cookies[s]]
             = [browser |-> ask[r].browser, storage |-> s]
BY DEF SessionInv, PendingIsolation

\* Such a step that returns from the handler.
LEMMA ReturnStep ==
  ASSUME SessionInv, NEW r \in Req, pc[r] # "idle",
         NEW wr \in Response, Return(r, wr),
         \A s \in Storage : wr.cookies[s] # None =>
           issued[wr.cookies[s]]
             = [browser |-> ask[r].browser, storage |-> s],
         UNCHANGED <<jar, issued, ask, rsp, client>>,
         broke' \in [Req -> Breakage]
  PROVE  SessionInv'
<1>1. /\ WriteHeader(wr, 200) \in Response
      /\ WriteHeader(wr, 200).cookies = wr.cookies
  BY WriteHeaderType
<1>2. /\ w' = [w EXCEPT ![r] = WriteHeader(wr, 200)]
      /\ pc' = [pc EXCEPT ![r] = "reply"]
      /\ open' = [open EXCEPT ![r] = FALSE]
  BY DEF Return, Reply, Goto
<1>3. open' \in [Req -> BOOLEAN]
  BY <1>2 DEF SessionInv, TypeOK
<1>4. "reply" \in Step
  BY DEF Step
<1> DEFINE done == WriteHeader(wr, 200)
<1>5. \A s \in Storage : done.cookies[s] # None =>
        issued[done.cookies[s]]
          = [browser |-> ask[r].browser, storage |-> s]
  BY <1>1
<1>6. done \in Response /\ w' = [w EXCEPT ![r] = done]
  BY <1>1, <1>2
<1> HIDE DEF done
<1>7. QED
  BY <1>2, <1>3, <1>4, <1>5, <1>6, ServiceStep, ZenonT(60)

\* A reply that leaves the cookies as they were.
LEMMA ReplyKeepsCookies ==
  ASSUME SessionInv, NEW r \in Req, pc[r] # "idle",
         NEW wr \in Response, wr.cookies = w[r].cookies, Reply(r, wr),
         UNCHANGED <<jar, issued, ask, rsp, open, broke, client>>
  PROVE  SessionInv'
<1>1. \A s \in Storage : wr.cookies[s] # None =>
        issued[wr.cookies[s]]
          = [browser |-> ask[r].browser, storage |-> s]
  BY CookiesKept
<1>2. w' = [w EXCEPT ![r] = wr] /\ pc' = [pc EXCEPT ![r] = "reply"]
  BY DEF Reply, Goto
<1>3. open' \in [Req -> BOOLEAN] /\ broke' \in [Req -> Breakage]
  BY DEF SessionInv, TypeOK
<1>4. "reply" \in Step
  BY DEF Step
<1>5. QED
  BY <1>1, <1>2, <1>3, <1>4, ServiceStep

\* The same for a return from the handler.
LEMMA ReturnKeepsCookies ==
  ASSUME SessionInv, NEW r \in Req, pc[r] # "idle",
         NEW wr \in Response, wr.cookies = w[r].cookies, Return(r, wr),
         UNCHANGED <<jar, issued, ask, rsp, client>>,
         broke' \in [Req -> Breakage]
  PROVE  SessionInv'
<1>1. \A s \in Storage : wr.cookies[s] # None =>
        issued[wr.cookies[s]]
          = [browser |-> ask[r].browser, storage |-> s]
  BY CookiesKept
<1>2. QED
  BY <1>1, ReturnStep

-----------------------------------------------------------------------------
(* The steps of a handler.                                                 *)

\* The steps up to the forwarded request, the header of a 200 answer, and the
\* acknowledgement: a cookie is set only to the answer's X-Token.
LEMMA HandlerStepSessionInv ==
  ASSUME SessionInv, NEW r \in Req, HandlerStep(r)
  PROVE  SessionInv'
<1> DEFINE a == ask[r]
<1>1. /\ w[r] \in Response
      /\ open \in [Req -> BOOLEAN]
      /\ broke \in [Req -> Breakage]
  BY DEF SessionInv, TypeOK
<1>2. CASE ShowForm(r)
  <2>1. /\ Write(w[r], "html") \in Response
        /\ Write(w[r], "html").cookies = w[r].cookies
    BY <1>1, WriteType
  <2>2. QED
    BY <1>2, <2>1, ReplyKeepsCookies DEF ShowForm
<1>3. CASE Reject(r)
  <2>1. /\ Refusal(a, w[r]) \in Response
        /\ Refusal(a, w[r]).cookies = w[r].cookies
    BY <1>1, FailureType
  <2>2. QED
    BY <1>3, <2>1, ReplyKeepsCookies DEF Reject
<1>4. CASE Forward(r)
  <2>1. w' = [w EXCEPT ![r] = w[r]]
    BY <1>4 DEF Forward, SessionInv, TypeOK
  <2>2. \A s \in Storage : w[r].cookies[s] # None =>
          issued[w[r].cookies[s]]
            = [browser |-> ask[r].browser, storage |-> s]
    BY <1>1, <1>4, CookiesKept DEF Forward
  <2>3. /\ pc[r] # "idle" /\ FormComplete(ask[r])
        /\ pc' = [pc EXCEPT ![r] = "waiting"]
        /\ UNCHANGED <<jar, issued, ask, rsp, open, broke, client>>
    BY <1>4 DEF Forward, Goto
  <2>4. "waiting" \in Step
    BY DEF Step
  <2>5. QED
    BY <1>1, <2>1, <2>2, <2>3, <2>4, ServiceStep
<1>5. CASE ProcessOK(r)
  <2> DEFINE t == rsp[r].xtoken
             wr == IF t = None THEN w[r] ELSE SetToken(w[r], t, Account(a))
  <2>1. /\ pc[r] = "answered"
        /\ w' = [w EXCEPT ![r] = wr]
        /\ pc' = [pc EXCEPT ![r] = "relay"]
        /\ UNCHANGED <<jar, issued, ask, rsp, open, broke, client>>
    BY <1>5 DEF ProcessOK, Goto
  <2>2. /\ a \in Ask /\ FormComplete(a)
        /\ a.handler # "Register" => a.sp.storage # None
    BY <2>1 DEF SessionInv, TypeOK, RequestOK
  <2>3. Account(a) \in Storage /\ t \in MaybeToken
    BY <2>2, AccountType DEF SessionInv, TypeOK, Answer
  <2>4. wr \in Response
    BY <1>1, <2>3, SetTokenType
  <2>5. ASSUME NEW s \in Storage, wr.cookies[s] # None
        PROVE  issued[wr.cookies[s]] = [browser |-> a.browser, storage |-> s]
    <3>1. CASE wr.cookies[s] = w[r].cookies[s]
      BY <2>1, <2>5, <3>1 DEF SessionInv, PendingIsolation
    <3>2. CASE wr.cookies[s] # w[r].cookies[s]
      <4>1. s = Account(a) /\ wr.cookies[s] = t /\ t # None
        BY <1>1, <2>3, <3>2, SetTokenType
      <4>2. QED
        BY <2>1, <4>1 DEF SessionInv, AnswerIsolation
    <3>3. QED
      BY <3>1, <3>2
  <2>6. "relay" \in Step
    BY DEF Step
  <2> HIDE DEF wr
  <2>7. QED
    BY <1>1, <2>1, <2>2, <2>4, <2>5, <2>6, ServiceStep
<1>6. CASE Acknowledge(r)
  <2> DEFINE wr == WriteHeader(w[r], 200)
  <2>1. wr \in Response /\ wr.cookies = w[r].cookies
    BY <1>1, WriteHeaderType
  <2>2. broke' \in [Req -> Breakage]
    BY <1>1, <1>6 DEF Acknowledge
  <2>3. pc[r] # "idle" /\ Return(r, wr)
        /\ UNCHANGED <<jar, issued, ask, rsp, client>>
    BY <1>6 DEF Acknowledge
  <2> HIDE DEF wr
  <2>4. QED
    BY <2>1, <2>2, <2>3, ReturnKeepsCookies
<1>7. QED
  BY <1>2, <1>3, <1>4, <1>5, <1>6 DEF HandlerStep

\* The steps on an answer's body: a cookie is set only to the token of a login
\* or registration.
LEMMA BodyStepSessionInv ==
  ASSUME SessionInv, NEW r \in Req, BodyStep(r)
  PROVE  SessionInv'
<1> DEFINE a == ask[r]
<1>1. /\ w[r] \in Response
      /\ open \in [Req -> BOOLEAN]
      /\ broke \in [Req -> Breakage]
  BY DEF SessionInv, TypeOK
<1>2. CASE CopyChunk(r)
  <2> DEFINE wr == Write(w[r], "data")
  <2>1. wr \in Response /\ wr.cookies = w[r].cookies
    BY <1>1, WriteType
  <2>2. /\ pc[r] = "relay" /\ w' = [w EXCEPT ![r] = wr]
        /\ UNCHANGED <<jar, issued, pc, ask, rsp, open, broke, client>>
    BY <1>2 DEF CopyChunk
  <2> HIDE DEF wr
  <2>3. pc' = [pc EXCEPT ![r] = "relay"]
    BY <2>2 DEF SessionInv, TypeOK
  <2>4. FormComplete(ask[r])
    BY <2>2 DEF SessionInv, RequestOK
  <2>5. \A s \in Storage : wr.cookies[s] # None =>
          issued[wr.cookies[s]]
            = [browser |-> ask[r].browser, storage |-> s]
    BY <2>1, <2>2, CookiesKept
  <2>6. "relay" \in Step
    BY DEF Step
  <2>7. QED
    BY <1>1, <2>1, <2>2, <2>3, <2>4, <2>5, <2>6, ServiceStep, ZenonT(60)
<1>3. CASE CopyDone(r)
  <2>1. pc[r] # "idle" /\ Return(r, w[r])
        /\ UNCHANGED <<jar, issued, ask, rsp, broke, client>>
    BY <1>3 DEF CopyDone
  <2>2. QED
    BY <1>1, <2>1, ReturnKeepsCookies
<1>4. CASE RenderView(r)
  <2> DEFINE wr == Write(w[r], "html")
  <2>1. wr \in Response /\ wr.cookies = w[r].cookies
    BY <1>1, WriteType
  <2>2. pc[r] # "idle" /\ Return(r, wr)
        /\ UNCHANGED <<jar, issued, ask, rsp, broke, client>>
    BY <1>4 DEF RenderView
  <2> HIDE DEF wr
  <2>3. QED
    BY <1>1, <2>1, <2>2, ReturnKeepsCookies
<1>5. CASE SignedIn(r)
  <2> DEFINE t    == rsp[r].token
             set  == SetToken(w[r], t, Account(a))
             wr   == WriteHeader(set, 302)
  <2>1. /\ pc[r] = "relay" /\ Return(r, wr)
        /\ UNCHANGED <<jar, issued, ask, rsp, broke, client>>
    BY <1>5 DEF SignedIn
  <2>2. /\ a \in Ask /\ FormComplete(a)
        /\ a.handler # "Register" => a.sp.storage # None
    BY <2>1 DEF SessionInv, TypeOK, RequestOK
  <2>3. Account(a) \in Storage /\ t \in MaybeToken
    BY <2>2, AccountType DEF SessionInv, TypeOK, Answer
  <2>4. set \in Response
    BY <1>1, <2>3, SetTokenType
  <2>5. wr \in Response /\ wr.cookies = set.cookies
    <3> HIDE DEF set
    <3>1. QED
      BY <2>4, WriteHeaderType
  <2>6. ASSUME NEW s \in Storage, set.cookies[s] # None
        PROVE  issued[set.cookies[s]] = [browser |-> a.browser, storage |-> s]
    <3>1. CASE set.cookies[s] = w[r].cookies[s]
      BY <2>1, <2>6, <3>1 DEF SessionInv, PendingIsolation
    <3>2. CASE set.cookies[s] # w[r].cookies[s]
      <4>1. s = Account(a) /\ set.cookies[s] = t
        BY <1>1, <2>3, <3>2, SetTokenType
      <4>2. QED
        BY <2>1, <2>6, <4>1 DEF SessionInv, AnswerIsolation
    <3>3. QED
      BY <3>1, <3>2
  <2> HIDE DEF wr, set
  <2>7. \A s \in Storage : wr.cookies[s] # None =>
          issued[wr.cookies[s]] = [browser |-> a.browser, storage |-> s]
    BY <2>5, <2>6
  <2>8. QED
    BY <1>1, <2>1, <2>5, <2>7, ReturnStep
<1>6. CASE ReadFails(r)
  <2> DEFINE wr == Failed(a, w[r])
  <2>1. wr \in Response /\ wr.cookies = w[r].cookies
    BY <1>1, FailureType
  <2>2. broke' \in [Req -> Breakage]
    BY <1>1, <1>6 DEF ReadFails, Breakage
  <2>3. pc[r] # "idle" /\ Return(r, wr)
        /\ UNCHANGED <<jar, issued, ask, rsp, client>>
    BY <1>6 DEF ReadFails
  <2> HIDE DEF wr
  <2>4. QED
    BY <2>1, <2>2, <2>3, ReturnKeepsCookies
<1>7. CASE ProcessRefused(r)
  <2>1. /\ Refusal(a, w[r]) \in Response
        /\ Refusal(a, w[r]).cookies = w[r].cookies
    BY <1>1, FailureType
  <2>2. QED
    BY <1>7, <2>1, ReplyKeepsCookies DEF ProcessRefused
<1>8. CASE RenderFails(r)
  <2> DEFINE wr == WriteJSON(Write(w[r], "html"))
  <2>1. wr \in Response /\ wr.cookies = w[r].cookies
    BY <1>1, WriteType, WriteJSONType
  <2>2. broke' \in [Req -> Breakage]
    BY <1>1, <1>8 DEF RenderFails, Breakage
  <2> HIDE DEF wr
  <2>3. pc[r] # "idle" /\ Return(r, wr)
        /\ UNCHANGED <<jar, issued, ask, rsp, client>>
    BY <1>8 DEF RenderFails, wr
  <2>4. QED
    BY <2>1, <2>2, <2>3, ReturnKeepsCookies
<1>9. QED
  BY <1>2, <1>3, <1>4, <1>5, <1>6, <1>7, <1>8 DEF BodyStep

\* A panic, wherever it comes, sets no cookie.
LEMMA PanicSessionInv ==
  ASSUME SessionInv, NEW r \in Req, Panic(r) \/ PanicEarly(r)
  PROVE  SessionInv'
<1>1. /\ w[r] \in Response /\ broke \in [Req -> Breakage]
      /\ open \in [Req -> BOOLEAN]
  BY DEF SessionInv, TypeOK
<1>2. PICK wr \in {Panicked(ask[r], w[r]), Dropped(ask[r], w[r])} :
        \/ Panic(r) /\ Return(r, wr)
        \/ PanicEarly(r) /\ Reply(r, wr) /\ UNCHANGED open
  BY DEF Panic, PanicEarly
<1>3. wr \in Response /\ wr.cookies = w[r].cookies
  BY <1>1, <1>2, FailureType
<1>4. /\ pc[r] # "idle" /\ UNCHANGED <<jar, issued, ask, rsp, client>>
      /\ broke' \in [Req -> Breakage]
  BY <1>1 DEF Panic, PanicEarly, Breakage
<1>5. CASE Panic(r) /\ Return(r, wr)
  BY <1>3, <1>4, <1>5, ReturnKeepsCookies
<1>6. CASE PanicEarly(r) /\ Reply(r, wr) /\ UNCHANGED open
  <2>1. \A s \in Storage : wr.cookies[s] # None =>
          issued[wr.cookies[s]]
            = [browser |-> ask[r].browser, storage |-> s]
    BY <1>3, <1>4, CookiesKept
  <2>2. w' = [w EXCEPT ![r] = wr] /\ pc' = [pc EXCEPT ![r] = "reply"]
    BY <1>6 DEF Reply, Goto
  <2>3. open' \in [Req -> BOOLEAN] /\ "reply" \in Step
    BY <1>1, <1>6 DEF Step
  <2>4. QED
    BY <1>3, <1>4, <2>1, <2>2, <2>3, ServiceStep
<1>7. QED
  BY <1>2, <1>5, <1>6

-----------------------------------------------------------------------------
(* The steps of the gateway.                                               *)

\* A 200 answer issues its tokens to the browser and the account of the
\* request, and takes none that is issued already.
LEMMA AcceptSessionInv ==
  ASSUME SessionInv, NEW r \in Req, Accept(r)
  PROVE  SessionInv'
<1> DEFINE a == ask[r]
           m == Message(a)
           grant(s) == [browser |-> a.browser, storage |-> s]
<1>1. pc[r] = "waiting"
  BY DEF Accept
<1>2. /\ TypeOK /\ RequestOK /\ JarIsolation /\ SnapshotIsolation
      /\ AnswerIsolation /\ PendingIsolation
  BY DEF SessionInv
<1>3. /\ a \in Ask /\ FormComplete(a)
      /\ a.handler # "Register" => a.sp.storage # None
  BY <1>1, <1>2 DEF TypeOK, RequestOK
<1>4. Account(a) \in Storage
  BY <1>3, AccountType
<1>5. grant(Account(a)) \in Grant
  BY <1>3, <1>4 DEF Grant, Ask
<1>6. PICK x \in IF Subject(m) = None THEN {None} ELSE Unissued \cup {None} :
        \E t \in IF Templated(a) THEN Unissued \ {x} ELSE {None} :
          /\ rsp' = [rsp EXCEPT ![r] =
                       [kind |-> "ok", xtoken |-> x, token |-> t]]
          /\ issued' = [u \in Token |->
                          IF u = x THEN grant(Subject(m))
                          ELSE IF u = t THEN grant(m.values.storage)
                          ELSE issued[u]]
  BY DEF Accept
<1>7. PICK t \in IF Templated(a) THEN Unissued \ {x} ELSE {None} :
        /\ rsp' = [rsp EXCEPT ![r] =
                     [kind |-> "ok", xtoken |-> x, token |-> t]]
        /\ issued' = [u \in Token |->
                        IF u = x THEN grant(Subject(m))
                        ELSE IF u = t THEN grant(m.values.storage)
                        ELSE issued[u]]
  BY <1>6
<1>8. /\ open' = [open EXCEPT ![r] = TRUE]
      /\ pc' = [pc EXCEPT ![r] = "answered"]
      /\ UNCHANGED <<jar, ask, broke, w, client>>
  BY DEF Accept, Goto
<1>9. x \in Token => Subject(m) = Account(a)
  BY <1>1, <1>6, SubjectIsAccount, NoneAssumption
<1>10. t \in Token => m.values.storage = Account(a)
  BY <1>3, <1>7, MessageOfAccount, NoneAssumption
<1>11. x \in Unissued \cup {None} /\ t \in Unissued \cup {None}
  BY <1>6, <1>7
<1>12. x # None => t # x
  BY <1>7
<1> HIDE DEF m, grant
<1>13. \A u \in Token : /\ u = x \/ u = t => issued'[u] = grant(Account(a))
                        /\ u # x /\ u # t => issued'[u] = issued[u]
  BY <1>7, <1>9, <1>10
<1>14. issued' \in [Token -> Grant \cup {None}]
  <2>1. \A u \in Token : issued'[u] \in Grant \cup {None}
    BY <1>2, <1>5, <1>13 DEF TypeOK
  <2>2. QED
    BY <1>7, <2>1
<1>15. \A u \in Token : issued[u] # None => issued'[u] = issued[u]
  BY <1>11, <1>13, NoneAssumption DEF Unissued
<1>16. TypeOK'
  <2>1. [kind |-> "ok", xtoken |-> x, token |-> t] \in Answer
    BY <1>11 DEF Answer, MaybeToken, Unissued
  <2>2. rsp' \in [Req -> Answer]
    BY <1>2, <1>7, <2>1 DEF TypeOK
  <2>3. QED
    BY <1>1, <1>2, <1>8, <1>14, <2>2 DEF TypeOK, Step
<1>17. RequestOK'
  BY <1>1, <1>2, <1>3, <1>8 DEF RequestOK, TypeOK
<1>18. JarIsolation'
  <2>1. \A b \in Browser, s \in Storage : jar[b][s] \in MaybeToken
    BY <1>2 DEF TypeOK, Cookies
  <2>2. QED
    BY <1>2, <1>8, <1>15, <2>1, NoneAssumption
       DEF JarIsolation, MaybeToken, Grant
<1>19. \A q \in Req : pc'[q] # "idle" =>
         /\ pc[q] # "idle"
         /\ ask[q].browser \in Browser
         /\ \A s \in Storage : ask[q].cookies[s] \in MaybeToken
  BY <1>1, <1>2, <1>8 DEF TypeOK, Ask, Cookies
<1>20. \A b \in Browser, s \in Storage :
         [browser |-> b, storage |-> s] # None
  BY NoneAssumption DEF Grant
<1>21. SnapshotIsolation'
  BY <1>2, <1>8, <1>15, <1>19, <1>20 DEF SnapshotIsolation, MaybeToken
<1>22. PendingIsolation'
  <2>1. \A q \in Req, s \in Storage : w[q].cookies[s] \in MaybeToken
    BY <1>2 DEF TypeOK, Response, Cookies
  <2>2. QED
    BY <1>2, <1>8, <1>15, <1>19, <1>20, <2>1 DEF PendingIsolation, MaybeToken
<1>23. AnswerIsolation'
  <2> SUFFICES ASSUME NEW q \in Req, pc'[q] \in {"answered", "relay"},
                      NEW u \in {rsp'[q].xtoken, rsp'[q].token} \ {None}
               PROVE  issued'[u] = [browser |-> ask[q].browser,
                                    storage |-> Account(ask[q])]
    BY <1>8 DEF AnswerIsolation
  <2>1. CASE q = r
    <3>1. rsp'[r] = [kind |-> "ok", xtoken |-> x, token |-> t]
      BY <1>2, <1>7 DEF TypeOK
    <3>2. u \in Token /\ (u = x \/ u = t)
      BY <1>11, <2>1, <3>1 DEF Unissued
    <3>3. QED
      BY <1>13, <2>1, <3>2 DEF grant
  <2>2. CASE q # r
    <3>1. pc[q] \in {"answered", "relay"} /\ rsp'[q] = rsp[q]
      BY <1>2, <1>7, <1>8, <2>2 DEF TypeOK
    <3>2. issued[u] = [browser |-> ask[q].browser,
                       storage |-> Account(ask[q])]
      BY <1>2, <3>1 DEF AnswerIsolation
    <3>3. u \in Token
      BY <1>2, <3>1 DEF TypeOK, Answer, MaybeToken
    <3>4. /\ ask[q] \in Ask /\ FormComplete(ask[q])
          /\ ask[q].handler # "Register" => ask[q].sp.storage # None
      BY <1>2, <3>1 DEF TypeOK, RequestOK
    <3>5. Account(ask[q]) \in Storage
      BY <3>4, AccountType
    <3>6. issued[u] # None
      BY <1>19, <1>20, <3>2, <3>4, <3>5 DEF Ask
    <3>7. QED
      BY <1>15, <3>2, <3>3, <3>6
  <2>3. QED
    BY <2>1, <2>2
<1>24. QED
  BY <1>16, <1>17, <1>18, <1>21, <1>22, <1>23 DEF SessionInv

\* An answer without tokens.
LEMMA NoTokenSessionInv ==
  ASSUME SessionInv, NEW r \in Req, Refuse(r) \/ TransportError(r)
  PROVE  SessionInv'
<1>1. /\ TypeOK /\ RequestOK /\ JarIsolation /\ SnapshotIsolation
      /\ AnswerIsolation /\ PendingIsolation
  BY DEF SessionInv
<1>2. PICK answer \in {[NoAnswer EXCEPT !.kind = "refused"],
                       [NoAnswer EXCEPT !.kind = "error"]} :
        rsp' = [rsp EXCEPT ![r] = answer]
  BY DEF Refuse, TransportError
<1>3. answer \in Answer /\ answer.xtoken = None /\ answer.token = None
  BY <1>2 DEF NoAnswer, Answer, MaybeToken
<1>4. /\ pc[r] = "waiting"
      /\ pc' = [pc EXCEPT ![r] = "answered"]
      /\ UNCHANGED <<jar, issued, ask, broke, w, client>>
      /\ open' \in [Req -> BOOLEAN]
  BY <1>1 DEF Refuse, TransportError, Goto, TypeOK
<1>5. TypeOK'
  BY <1>1, <1>2, <1>3, <1>4 DEF TypeOK, Step
<1>6. RequestOK'
  BY <1>1, <1>4 DEF RequestOK, TypeOK
<1>7. JarIsolation' /\ SnapshotIsolation' /\ PendingIsolation'
  BY <1>1, <1>4 DEF JarIsolation, SnapshotIsolation, PendingIsolation, TypeOK
<1>8. AnswerIsolation'
  <2>1. rsp'[r] = answer /\ \A q \in Req : q # r =>
          rsp'[q] = rsp[q] /\ pc'[q] = pc[q]
    BY <1>1, <1>2, <1>4 DEF TypeOK
  <2>2. QED
    BY <1>1, <1>3, <1>4, <2>1 DEF AnswerIsolation
<1>9. QED
  BY <1>5, <1>6, <1>7, <1>8 DEF SessionInv

-----------------------------------------------------------------------------
(* The steps of a browser.                                                 *)

\* A browser sends the cookies of its own jar.
LEMMA SendSessionInv ==
  ASSUME SessionInv, NEW r \in Req, Send(r)
  PROVE  SessionInv'
<1>1. /\ TypeOK /\ RequestOK /\ JarIsolation /\ SnapshotIsolation
      /\ AnswerIsolation /\ PendingIsolation
  BY DEF SessionInv
<1>2. /\ pc[r] = "idle"
      /\ pc' = [pc EXCEPT ![r] = "handler"]
      /\ UNCHANGED <<jar, issued, rsp, open, broke, w, client>>
  BY DEF Send, Goto
<1>3. PICK b \in Browser, route \in Served, s \in Storage, f \in File :
        \E form \in IF route.method = "POST" THEN Forms(route.handler)
                                             ELSE {Blank} :
          ask' = [ask EXCEPT ![r] =
                    [browser |-> b, handler |-> route.handler,
                     method |-> route.method,
                     sp |-> StoredParameters(route, s, f),
                     form |-> form, cookies |-> jar[b]]]
  BY DEF Send
<1>4. PICK form \in IF route.method = "POST" THEN Forms(route.handler)
                                            ELSE {Blank} :
        ask' = [ask EXCEPT ![r] =
                  [browser |-> b, handler |-> route.handler,
                   method |-> route.method,
                   sp |-> StoredParameters(route, s, f),
                   form |-> form, cookies |-> jar[b]]]
  BY <1>3
<1> DEFINE a == [browser |-> b, handler |-> route.handler,
                 method |-> route.method,
                 sp |-> StoredParameters(route, s, f),
                 form |-> form, cookies |-> jar[b]]
<1>5. route \in Route /\ (route.hasStorage <=> route.handler # "Register")
  BY ServedAssumption
<1>6. form \in Form
  <2>1. Blank \in Form
    BY DEF Blank, Form, MaybeStorage, MaybeFile
  <2>2. \A handler : Forms(handler) \subseteq Form
    BY <2>1 DEF Forms, Form, MaybeStorage, MaybeFile
  <2>3. QED
    BY <2>1, <2>2
<1>7. /\ StoredParameters(route, s, f) \in Parameters
      /\ route.handler # "Register"
           => StoredParameters(route, s, f).storage # None
  BY <1>5, NoneAssumption
     DEF StoredParameters, Parameters, MaybeStorage, MaybeFile, Route
<1>8. /\ a \in Ask
      /\ a.handler # "Register" => a.sp.storage # None
      /\ a.browser = b /\ a.cookies = jar[b]
  BY <1>1, <1>5, <1>6, <1>7 DEF Ask, Route, TypeOK
<1>9. ask' = [ask EXCEPT ![r] = a]
  BY <1>4
<1> HIDE DEF a
<1>10. \A q \in Req : q # r => pc'[q] = pc[q]
  BY <1>1, <1>2 DEF TypeOK
<1>11. pc'[r] = "handler"
  BY <1>1, <1>2 DEF TypeOK
<1>12. \A q \in Req : pc'[q] # "idle" =>
         ask'[q] = IF q = r THEN a ELSE ask[q]
  BY <1>1, <1>9 DEF TypeOK
<1>13. TypeOK'
  BY <1>1, <1>2, <1>8, <1>9, <1>10, <1>12 DEF TypeOK, Step
<1>14. RequestOK'
  BY <1>1, <1>2, <1>8, <1>10, <1>11, <1>12 DEF RequestOK
<1>15. JarIsolation'
  BY <1>1, <1>2 DEF JarIsolation
<1>16. SnapshotIsolation'
  BY <1>1, <1>2, <1>8, <1>10, <1>12 DEF SnapshotIsolation, JarIsolation
<1>17. AnswerIsolation'
  BY <1>1, <1>2, <1>10, <1>11, <1>12, SMTT(40) DEF AnswerIsolation
<1>18. PendingIsolation'
  <2>1. \A t \in Storage : w[r].cookies[t] = None
    BY <1>1, <1>2 DEF RequestOK, Fresh, NoCookies
  <2>2. QED
    BY <1>1, <1>2, <1>10, <1>12, <2>1 DEF PendingIsolation
<1>19. QED
  BY <1>13, <1>14, <1>15, <1>16, <1>17, <1>18 DEF SessionInv

\* The other steps of a browser hand no token to anyone but its own jar.
LEMMA HearSessionInv ==
  ASSUME SessionInv, NEW r \in Req, Hear(r)
  PROVE  SessionInv'
<1> DEFINE b == ask[r].browser
<1>1. /\ TypeOK /\ RequestOK /\ JarIsolation /\ SnapshotIsolation
      /\ AnswerIsolation /\ PendingIsolation
  BY DEF SessionInv
<1>2. /\ pc[r] # "idle"
      /\ client' = [client EXCEPT ![r] = "heard"]
      /\ jar' = [jar EXCEPT ![b] =
                   [s \in Storage |-> IF w[r].cookies[s] = None
                                        THEN jar[b][s]
                                        ELSE w[r].cookies[s]]]
      /\ UNCHANGED <<issued, pc, ask, rsp, open, broke, w>>
  BY DEF Hear
<1>3. b \in Browser
  BY <1>1, <1>2 DEF TypeOK, Ask
<1>4. \A c \in Browser, s \in Storage :
        jar'[c][s] = jar[c][s] \/ (c = b /\ jar'[c][s] = w[r].cookies[s])
  BY <1>1, <1>2, <1>3 DEF TypeOK, Cookies
<1>5. TypeOK'
  <2>1. [s \in Storage |-> IF w[r].cookies[s] = None
                             THEN jar[b][s] ELSE w[r].cookies[s]] \in Cookies
    BY <1>1, <1>3 DEF TypeOK, Response, Cookies
  <2>2. jar' \in [Browser -> Cookies]
    BY <1>1, <1>2, <2>1 DEF TypeOK
  <2>3. client' \in [Req -> Client]
    BY <1>1, <1>2 DEF TypeOK, Client
  <2>4. QED
    BY <1>1, <1>2, <2>2, <2>3 DEF TypeOK
<1>6. JarIsolation'
  BY <1>1, <1>2, <1>4 DEF JarIsolation, PendingIsolation
<1>7. RequestOK' /\ SnapshotIsolation' /\ AnswerIsolation' /\ PendingIsolation'
  BY <1>1, <1>2
     DEF RequestOK, SnapshotIsolation, AnswerIsolation, PendingIsolation
<1>8. QED
  BY <1>5, <1>6, <1>7 DEF SessionInv

\* A browser that goes away changes no token.
LEMMA AbandonSessionInv ==
  ASSUME SessionInv, NEW r \in Req, Abandon(r)
  PROVE  SessionInv'
<1>1. client' \in [Req -> Client]
      /\ UNCHANGED <<jar, issued, pc, ask, rsp, open, broke, w>>
  BY DEF Abandon, Client, SessionInv, TypeOK
<1>2. QED
  BY <1>1 DEF SessionInv, TypeOK, RequestOK, JarIsolation, SnapshotIsolation,
              AnswerIsolation, PendingIsolation

\* An expired cookie is gone from its jar.
LEMMA ExpireSessionInv ==
  ASSUME SessionInv, NEW b \in Browser, NEW s \in Storage, Expire(b, s)
  PROVE  SessionInv'
<1>1. jar' = [jar EXCEPT ![b][s] = None]
      /\ UNCHANGED <<issued, pc, ask, rsp, open, broke, w, client>>
  BY DEF Expire
<1>2. jar \in [Browser -> Cookies]
  BY DEF SessionInv, TypeOK
<1>3. /\ jar' \in [Browser -> Cookies]
      /\ \A c \in Browser, t \in Storage : jar'[c][t] \in {jar[c][t], None}
  BY <1>1, <1>2 DEF Cookies, MaybeToken
<1>4. TypeOK'
  BY <1>1, <1>3 DEF SessionInv, TypeOK
<1>5. JarIsolation'
  BY <1>1, <1>3 DEF SessionInv, JarIsolation
<1>6. RequestOK' /\ SnapshotIsolation' /\ AnswerIsolation' /\ PendingIsolation'
  BY <1>1 DEF SessionInv, RequestOK, SnapshotIsolation, AnswerIsolation,
              PendingIsolation
<1>7. QED
  BY <1>4, <1>5, <1>6 DEF SessionInv

\* A finished request leaves nothing behind in its slot.
LEMMA FinishSessionInv ==
  ASSUME SessionInv, NEW r \in Req, Finish(r)
  PROVE  SessionInv'
<1>1. TypeOK /\ RequestOK /\ JarIsolation /\ SnapshotIsolation
      /\ AnswerIsolation /\ PendingIsolation
  BY DEF SessionInv
<1>2. /\ pc' = [pc EXCEPT ![r] = "idle"]
      /\ ask' = [ask EXCEPT ![r] = None]
      /\ rsp' = [rsp EXCEPT ![r] = NoAnswer]
      /\ open' = [open EXCEPT ![r] = FALSE]
      /\ broke' = [broke EXCEPT ![r] = "no"]
      /\ w' = [w EXCEPT ![r] = Fresh]
      /\ client' = [client EXCEPT ![r] = "waiting"]
      /\ UNCHANGED <<jar, issued>>
  BY DEF Finish, Goto
<1>3. NoAnswer \in Answer /\ Fresh \in Response
  BY DEF NoAnswer, Answer, Fresh, Response, NoCookies, Cookies, MaybeToken
<1>4. \A q \in Req : pc'[q] # "idle" =>
        /\ q # r /\ pc'[q] = pc[q]
        /\ ask'[q] = ask[q] /\ rsp'[q] = rsp[q] /\ w'[q] = w[q]
  BY <1>1, <1>2 DEF TypeOK
<1>5. \A q \in Req : pc'[q] = "idle" => w'[q] = Fresh
  BY <1>1, <1>2 DEF TypeOK, RequestOK
<1>6. TypeOK'
  <2>1. /\ rsp' \in [Req -> Answer] /\ w' \in [Req -> Response]
        /\ jar' \in [Browser -> Cookies]
        /\ issued' \in [Token -> Grant \cup {None}]
    BY <1>1, <1>2, <1>3 DEF TypeOK
  <2>2. /\ pc' \in [Req -> Step] /\ open' \in [Req -> BOOLEAN]
        /\ broke' \in [Req -> Breakage] /\ client' \in [Req -> Client]
    BY <1>1, <1>2 DEF TypeOK, Step, Breakage, Client
  <2>3. /\ ask' \in [Req -> Ask \cup {None}]
        /\ \A q \in Req : pc'[q] # "idle" => ask'[q] \in Ask
    BY <1>1, <1>2, <1>4 DEF TypeOK
  <2>4. QED
    BY <2>1, <2>2, <2>3 DEF TypeOK
<1>7. RequestOK'
  BY <1>1, <1>4, <1>5 DEF RequestOK
<1>8. JarIsolation'
  BY <1>1, <1>2 DEF JarIsolation
<1>9. SnapshotIsolation'
  BY <1>1, <1>2, <1>4 DEF SnapshotIsolation
<1>10. AnswerIsolation'
  BY <1>1, <1>2, <1>4 DEF AnswerIsolation
<1>11. PendingIsolation'
  BY <1>1, <1>2, <1>4 DEF PendingIsolation
<1>12. QED
  BY <1>6, <1>7, <1>8, <1>9, <1>10, <1>11 DEF SessionInv

-----------------------------------------------------------------------------
(* The theorems.                                                           *)

\* Every step of the system preserves the invariant.
LEMMA NextSessionInv == SessionInv /\ [Next]_vars => SessionInv'
<1> SUFFICES ASSUME SessionInv, [Next]_vars PROVE SessionInv'
  OBVIOUS
<1>1. CASE \E r \in Req : BrowserStep(r)
  BY <1>1, SendSessionInv, HearSessionInv, AbandonSessionInv, FinishSessionInv DEF BrowserStep
<1>2. CASE \E r \in Req : HandlerStep(r)
  BY <1>2, HandlerStepSessionInv
<1>3. CASE \E r \in Req : BodyStep(r)
  BY <1>3, BodyStepSessionInv
<1>4. CASE \E r \in Req : Gateway(r)
  BY <1>4, AcceptSessionInv, NoTokenSessionInv DEF Gateway
<1>5. CASE \E b \in Browser, s \in Storage : Expire(b, s)
  BY <1>5, ExpireSessionInv
<1>6. CASE \E r \in Req : Panic(r) \/ PanicEarly(r)
  BY <1>6, PanicSessionInv
<1>7. CASE UNCHANGED vars
  BY <1>7 DEF vars, SessionInv, TypeOK, RequestOK, JarIsolation, SnapshotIsolation,
              AnswerIsolation, PendingIsolation
<1>8. QED
  BY <1>1, <1>2, <1>3, <1>4, <1>5, <1>6, <1>7 DEF Next

\* SessionInv holds in every reachable state: every token, wherever it is on its way
\* from the gateway through a response into a jar and back, is with the
\* browser and the account it was issued for.
THEOREM Invariance == Spec => []SessionInv
<1>1. Init => SessionInv
  BY InitSessionInv
<1>2. SessionInv /\ [Next]_vars => SessionInv'
  BY NextSessionInv
<1>3. QED
  BY <1>1, <1>2, PTL DEF Spec

\* Type correctness.
THEOREM TypeCorrect == Spec => []TypeOK
<1>1. SessionInv => TypeOK
  BY DEF SessionInv
<1>2. QED
  BY <1>1, Invariance, PTL

\* No jar holds, and no forwarded request presents, a session token that the
\* gateway issued to another browser or for another storage, however the
\* handlers of concurrent requests interleave, fail or panic.
THEOREM TokensStayIsolated == Spec => []TokenIsolation
<1>1. SessionInv => TokenIsolation
  <2> SUFFICES ASSUME SessionInv PROVE PresentedIsolation
    BY DEF SessionInv, TokenIsolation
  <2> SUFFICES ASSUME NEW r \in Req, pc[r] = "waiting",
                      Message(ask[r]).token # None
               PROVE  issued[Message(ask[r]).token]
                        = [browser |-> ask[r].browser,
                           storage |-> Account(ask[r])]
    BY DEF PresentedIsolation
  <2>1. /\ ask[r] \in Ask /\ FormComplete(ask[r])
        /\ ask[r].handler # "Register" => ask[r].sp.storage # None
    BY DEF SessionInv, TypeOK, RequestOK
  <2>2. /\ Account(ask[r]) \in Storage
        /\ Message(ask[r]).token = ask[r].cookies[Account(ask[r])]
    BY <2>1, AccountType, MessageOfAccount
  <2>3. QED
    BY <2>2 DEF SessionInv, SnapshotIsolation
<1>2. QED
  BY <1>1, Invariance, PTL
=============================================================================
