--------------------------- MODULE ResponseProofs ---------------------------
(***************************************************************************)
(* Theorems about the responses of WebService, for every set of browsers,   *)
(* storages, tokens, routes and request slots: what a browser is told, what *)
(* its cookies become, and what is left open.  All of them follow from      *)
(* AnswerInv, which is inductive together with SessionInv.                        *)
(***************************************************************************)
EXTENDS WebServiceProofs

-----------------------------------------------------------------------------
(* AnswerInv is about one request at a time.                               *)

\* A step that leaves what AnswerInv says of every request but r, and makes
\* it true of r, preserves it.
LEMMA OneRequest ==
  ASSUME AnswerInv, NEW r \in Req,
         \A q \in Req : q # r =>
           /\ pc'[q] = pc[q] /\ ask'[q] = ask[q] /\ rsp'[q] = rsp[q]
           /\ open'[q] = open[q] /\ broke'[q] = broke[q] /\ w'[q] = w[q],
         WrittenInOrder(pc'[r], ask'[r], rsp'[r], open'[r], broke'[r], w'[r]),
         CookiesInOrder(pc'[r], ask'[r], rsp'[r], broke'[r], w'[r])
  PROVE  AnswerInv'
BY DEF AnswerInv

\* The same for a step that touches nothing of any request.
LEMMA NoRequest ==
  ASSUME AnswerInv, UNCHANGED <<pc, ask, rsp, open, broke, w>>
  PROVE  AnswerInv'
BY DEF AnswerInv

\* A step of the service on r that writes wr: the response, the body and the
\* breakage become what the invariant allows at the new step.
LEMMA ServiceAnswer ==
  ASSUME SessionInv, AnswerInv, NEW r \in Req, NEW step, NEW wr,
         NEW isOpen, NEW broken, NEW answer,
         pc' = [pc EXCEPT ![r] = step],
         w' = [w EXCEPT ![r] = wr],
         open' = [open EXCEPT ![r] = isOpen],
         broke' = [broke EXCEPT ![r] = broken],
         rsp' = [rsp EXCEPT ![r] = answer],
         UNCHANGED ask,
         WrittenInOrder(step, ask[r], answer, isOpen, broken, wr),
         CookiesInOrder(step, ask[r], answer, broken, wr)
  PROVE  AnswerInv'
<1>1. /\ pc \in [Req -> Step] /\ w \in [Req -> Response]
      /\ open \in [Req -> BOOLEAN] /\ broke \in [Req -> Breakage]
      /\ rsp \in [Req -> Answer] /\ ask \in [Req -> Ask \cup {None}]
  BY DEF SessionInv, TypeOK
<1>2. /\ pc'[r] = step /\ w'[r] = wr /\ open'[r] = isOpen
      /\ broke'[r] = broken /\ rsp'[r] = answer /\ ask'[r] = ask[r]
  BY <1>1
<1>3. \A q \in Req : q # r =>
        /\ pc'[q] = pc[q] /\ ask'[q] = ask[q] /\ rsp'[q] = rsp[q]
        /\ open'[q] = open[q] /\ broke'[q] = broke[q] /\ w'[q] = w[q]
  BY <1>1
<1>4. QED
  BY <1>2, <1>3, OneRequest

\* What both invariants say of one request under way.
LEMMA OfRequest ==
  ASSUME SessionInv, AnswerInv, NEW r \in Req
  PROVE  /\ w[r] \in Response /\ rsp[r] \in Answer
         /\ open[r] \in BOOLEAN /\ broke[r] \in Breakage
         /\ pc[r] # "idle" => ask[r] \in Ask
         /\ pc[r] \in {"waiting", "answered", "relay"}
              => Account(ask[r]) \in Storage
         /\ WrittenInOrder(pc[r], ask[r], rsp[r], open[r], broke[r], w[r])
         /\ CookiesInOrder(pc[r], ask[r], rsp[r], broke[r], w[r])
<1>1. /\ w[r] \in Response /\ rsp[r] \in Answer
      /\ open[r] \in BOOLEAN /\ broke[r] \in Breakage
      /\ pc[r] # "idle" => ask[r] \in Ask
  BY DEF SessionInv, TypeOK
<1>2. pc[r] \in {"waiting", "answered", "relay"} => Account(ask[r]) \in Storage
  BY <1>1, AccountType DEF SessionInv, RequestOK
<1>3. QED
  BY <1>1, <1>2 DEF AnswerInv

\* A response that nothing was written to sets no cookie.
LEMMA FreshResponse ==
  /\ Fresh \in Response /\ Fresh.status = 0 /\ Fresh.body = {}
  /\ \A s \in Storage : Fresh.cookies[s] = None
BY DEF Fresh, NoCookies, Response, Cookies, MaybeToken

-----------------------------------------------------------------------------
(* What the writes leave in a response.                                    *)

\* The first header decides the status.
LEMMA WriteHeaderResult ==
  ASSUME NEW wr \in Response, NEW status \in {200, 302, 400}
  PROVE  /\ WriteHeader(wr, status).status
              = IF wr.status = 0 THEN status ELSE wr.status
         /\ WriteHeader(wr, status).body = wr.body
BY DEF WriteHeader, Response

\* What a header does to a response whose header has not left, and to one whose
\* header has.
LEMMA WriteHeaderOnce ==
  ASSUME NEW wr \in Response, NEW status \in {200, 302, 400}
  PROVE  /\ wr.status = 0 =>
              /\ WriteHeader(wr, status) \in Response
              /\ WriteHeader(wr, status).status = status
              /\ WriteHeader(wr, status).body = wr.body
              /\ WriteHeader(wr, status).cookies = wr.cookies
         /\ wr.status # 0 => WriteHeader(wr, status) = wr
BY WriteHeaderType DEF WriteHeader, Response

\* A write adds to the body, and sends status 200 unless a status was sent.
LEMMA WriteResult ==
  ASSUME NEW wr \in Response, NEW part \in {"json", "html", "data"}
  PROVE  /\ Write(wr, part).status = IF wr.status = 0 THEN 200 ELSE wr.status
         /\ Write(wr, part).body = wr.body \cup {part}
<1> DEFINE sent == WriteHeader(wr, 200)
<1>1. /\ sent \in Response /\ sent.body = wr.body
      /\ sent.status = IF wr.status = 0 THEN 200 ELSE wr.status
  BY WriteHeaderType, WriteHeaderResult
<1>2. Write(wr, part) = [sent EXCEPT !.body = sent.body \cup {part}]
  BY DEF Write
<1> HIDE DEF sent
<1>3. QED
  BY <1>1, <1>2 DEF Response

\* The error document, with the error status unless a status was sent.
LEMMA WriteJSONResult ==
  ASSUME NEW wr \in Response
  PROVE  /\ WriteJSON(wr).status = IF wr.status = 0 THEN 400 ELSE wr.status
         /\ WriteJSON(wr).body = wr.body \cup {"json"}
<1> DEFINE bad == WriteHeader(wr, 400)
<1>1. /\ bad \in Response /\ bad.body = wr.body
      /\ bad.status = IF wr.status = 0 THEN 400 ELSE wr.status
  BY WriteHeaderType, WriteHeaderResult
<1>2. WriteJSON(wr) = Write(bad, "json")
  BY DEF WriteJSON
<1> HIDE DEF bad
<1>3. QED
  BY <1>1, <1>2, WriteResult

\* A token set before the header has left is the cookie, and is the only one
\* that changes.
LEMMA SetTokenResult ==
  ASSUME NEW wr \in Response, wr.status = 0, NEW token, NEW name \in Storage
  PROVE  /\ SetToken(wr, token, name).status = 0
         /\ SetToken(wr, token, name).body = wr.body
         /\ name \in CookieSafe => SetToken(wr, token, name).cookies[name] = token
         /\ \A s \in Storage : s # name =>
              SetToken(wr, token, name).cookies[s] = wr.cookies[s]
         /\ name \notin CookieSafe => SetToken(wr, token, name) = wr
BY DEF SetToken, Response, Cookies

\* A step that writes no redirect and leaves the cookies as they were leaves
\* them as they have to be.
LEMMA KeepsCookies ==
  ASSUME NEW step, NEW from, NEW a, NEW answer, NEW old, NEW wr,
         NEW before, NEW broken, before # "early",
         CookiesInOrder(from, a, answer, before, old), from # "idle",
         from = "relay" \/ answer.kind # "ok",
         old.status # 302, wr.status # 302, wr.cookies = old.cookies
  PROVE  CookiesInOrder(step, a, answer, broken, wr)
BY DEF CookiesInOrder

\* A step that replies.
LEMMA ReplyAnswer ==
  ASSUME SessionInv, AnswerInv, NEW r \in Req, NEW wr, NEW isOpen, NEW broken,
         Reply(r, wr), open' = [open EXCEPT ![r] = isOpen],
         broke' = [broke EXCEPT ![r] = broken], UNCHANGED <<ask, rsp>>,
         WrittenInOrder("reply", ask[r], rsp[r], isOpen, broken, wr),
         CookiesInOrder("reply", ask[r], rsp[r], broken, wr)
  PROVE  AnswerInv'
<1> DEFINE answer == rsp[r]
<1>1. rsp' = [rsp EXCEPT ![r] = answer] /\ ask' = ask
  BY DEF SessionInv, TypeOK
<1>2. pc' = [pc EXCEPT ![r] = "reply"] /\ w' = [w EXCEPT ![r] = wr]
  BY DEF Reply, Goto
<1>3. /\ WrittenInOrder("reply", ask[r], answer, isOpen, broken, wr)
      /\ CookiesInOrder("reply", ask[r], answer, broken, wr)
  OBVIOUS
<1> HIDE DEF answer
<1>4. QED
  BY <1>1, <1>2, <1>3, ServiceAnswer

\* A step from which the handler returns.
LEMMA ReturnAnswer ==
  ASSUME SessionInv, AnswerInv, NEW r \in Req, NEW wr, NEW broken,
         Return(r, wr), broke' = [broke EXCEPT ![r] = broken],
         UNCHANGED <<ask, rsp>>,
         WrittenInOrder("reply", ask[r], rsp[r], FALSE, broken,
                        WriteHeader(wr, 200)),
         CookiesInOrder("reply", ask[r], rsp[r], broken, WriteHeader(wr, 200))
  PROVE  AnswerInv'
<1> DEFINE done   == WriteHeader(wr, 200)
           isOpen == FALSE
<1>1. Reply(r, done) /\ open' = [open EXCEPT ![r] = isOpen]
  BY DEF Return
<1>2. /\ WrittenInOrder("reply", ask[r], rsp[r], isOpen, broken, done)
      /\ CookiesInOrder("reply", ask[r], rsp[r], broken, done)
  OBVIOUS
<1> HIDE DEF done, isOpen
<1>3. QED
  BY <1>1, <1>2, ReplyAnswer

-----------------------------------------------------------------------------
(* The steps that write.                                                   *)

\* What a request that is refused, or could not be done, is answered with:
\* the form, or an error document.
LEMMA RefusalInOrder ==
  ASSUME NEW a, NEW answer, NEW isOpen, NEW wr \in Response,
         wr = Fresh, answer.kind # "ok", answer.xtoken = None,
         isOpen => answer.kind = "refused"
  PROVE  /\ WrittenInOrder("reply", a, answer, isOpen, "no", Refusal(a, wr))
         /\ Refusal(a, wr).status # 302
         /\ Refusal(a, wr).cookies = wr.cookies
<1>1. wr.status = 0 /\ wr.body = {}
  BY FreshResponse
<1>2. CASE Templated(a)
  <2>1. /\ Write(wr, "html").status = 200 /\ Write(wr, "html").body = {"html"}
        /\ Write(wr, "html").cookies = wr.cookies
    BY <1>1, WriteResult, WriteType, ZenonT(60)
  <2>2. Refusal(a, wr) = Write(wr, "html")
    BY <1>2 DEF Refusal
  <2>3. QED
    BY <1>2, <2>1, <2>2 DEF WrittenInOrder
<1>3. CASE ~Templated(a)
  <2>1. /\ WriteJSON(wr).status = 400 /\ WriteJSON(wr).body = {"json"}
        /\ WriteJSON(wr).cookies = wr.cookies
    BY <1>1, WriteJSONResult, WriteJSONType
  <2>2. Refusal(a, wr) = WriteJSON(wr)
    BY <1>3 DEF Refusal
  <2>3. QED
    BY <1>3, <2>1, <2>2 DEF WrittenInOrder
<1>4. QED
  BY <1>2, <1>3

\* The steps before anything is known of the gateway's answer, and those on an
\* answer that is not a success.
LEMMA RefusedAnswer ==
  ASSUME SessionInv, AnswerInv, NEW r \in Req,
         ShowForm(r) \/ Reject(r) \/ ProcessRefused(r)
  PROVE  AnswerInv'
<1> DEFINE a == ask[r]
<1>1. /\ pc[r] \in {"handler", "answered"}
      /\ rsp[r].kind # "ok" /\ rsp[r].xtoken = None
      /\ w[r] \in Response /\ w[r] = Fresh /\ broke[r] = "no"
      /\ open[r] => rsp[r].kind = "refused"
      /\ CookiesInOrder(pc[r], a, rsp[r], broke[r], w[r])
      /\ UNCHANGED <<ask, rsp, open, broke>>
  BY OfRequest DEF ShowForm, Reject, ProcessRefused, WrittenInOrder, NoAnswer
<1>2. Reply(r, Refusal(a, w[r]))
  BY DEF ShowForm, Reject, ProcessRefused, AsksForForm, Refusal
<1> DEFINE wr     == Refusal(a, w[r])
           isOpen == open[r]
           broken == broke[r]
<1>3. WrittenInOrder("reply", a, rsp[r], isOpen, broken, wr)
      /\ wr.status # 302 /\ wr.cookies = w[r].cookies
  BY <1>1, RefusalInOrder
<1>4. CookiesInOrder("reply", a, rsp[r], broken, wr)
  <2> HIDE DEF wr
  <2>1. w[r].status # 302 /\ pc[r] # "idle" /\ broke[r] # "early"
    BY <1>1, FreshResponse
  <2>2. QED
    BY <1>1, <1>3, <2>1, KeepsCookies
<1>5. /\ open' = [open EXCEPT ![r] = isOpen]
      /\ broke' = [broke EXCEPT ![r] = broken]
  BY <1>1 DEF SessionInv, TypeOK
<1> HIDE DEF wr, isOpen, broken
<1>6. Reply(r, wr)
  BY <1>2 DEF wr
<1>7. /\ WrittenInOrder("reply", ask[r], rsp[r], isOpen, broken, wr)
      /\ CookiesInOrder("reply", ask[r], rsp[r], broken, wr)
      /\ UNCHANGED <<ask, rsp>>
  BY <1>1, <1>3, <1>4
<1>8. QED
  BY <1>5, <1>6, <1>7, ReplyAnswer

\* The request is forwarded.
LEMMA ForwardAnswer ==
  ASSUME SessionInv, AnswerInv, NEW r \in Req, Forward(r)
  PROVE  AnswerInv'
<1>1. /\ pc[r] = "handler"
      /\ WrittenInOrder(pc[r], ask[r], rsp[r], open[r], broke[r], w[r])
      /\ CookiesInOrder(pc[r], ask[r], rsp[r], broke[r], w[r])
  BY OfRequest DEF Forward
<1>2. /\ WrittenInOrder("waiting", ask[r], rsp[r], open[r], broke[r], w[r])
      /\ CookiesInOrder("waiting", ask[r], rsp[r], broke[r], w[r])
  BY <1>1 DEF WrittenInOrder, CookiesInOrder
<1>3. /\ pc' = [pc EXCEPT ![r] = "waiting"]
      /\ w' = [w EXCEPT ![r] = w[r]] /\ open' = [open EXCEPT ![r] = open[r]]
      /\ broke' = [broke EXCEPT ![r] = broke[r]]
      /\ rsp' = [rsp EXCEPT ![r] = rsp[r]] /\ UNCHANGED ask
  BY DEF Forward, Goto, SessionInv, TypeOK
<1>4. QED
  BY <1>2, <1>3, ServiceAnswer

\* The gateway answers.
LEMMA GatewayAnswer ==
  ASSUME SessionInv, AnswerInv, NEW r \in Req, Gateway(r)
  PROVE  AnswerInv'
<1> DEFINE a == ask[r]
<1>1. /\ pc[r] = "waiting" /\ w[r] = Fresh /\ broke[r] = "no" /\ ~open[r]
      /\ CookiesInOrder(pc[r], a, rsp[r], broke[r], w[r])
      /\ pc' = [pc EXCEPT ![r] = "answered"]
      /\ w' = [w EXCEPT ![r] = w[r]]
      /\ broke' = [broke EXCEPT ![r] = broke[r]]
      /\ UNCHANGED ask
  BY OfRequest DEF Gateway, Accept, Refuse, TransportError, WrittenInOrder,
                   Goto, SessionInv, TypeOK
<1>2. ASSUME NEW answer, NEW isOpen,
             rsp' = [rsp EXCEPT ![r] = answer],
             open' = [open EXCEPT ![r] = isOpen],
             isOpen => answer.kind # "error",
             answer.kind # "ok" => answer.xtoken = None,
             answer.kind = "ok" /\ Templated(a) => answer.token # None
      PROVE  AnswerInv'
  <2>1. WrittenInOrder("answered", a, answer, isOpen, broke[r], w[r])
    BY <1>1, <1>2 DEF WrittenInOrder
  <2>2. CookiesInOrder("answered", a, answer, broke[r], w[r])
    BY <1>1, FreshResponse DEF CookiesInOrder
  <2>3. QED
    BY <1>1, <1>2, <2>1, <2>2, ServiceAnswer
<1>3. CASE Accept(r)
  <2>1. PICK x \in IF Subject(Message(a)) = None THEN {None}
                                                ELSE Unissued \cup {None} :
          \E t \in IF Templated(a) THEN Unissued \ {x} ELSE {None} :
            rsp' = [rsp EXCEPT ![r] =
                      [kind |-> "ok", xtoken |-> x, token |-> t]]
    BY <1>3 DEF Accept
  <2>2. PICK t \in IF Templated(a) THEN Unissued \ {x} ELSE {None} :
          rsp' = [rsp EXCEPT ![r] =
                    [kind |-> "ok", xtoken |-> x, token |-> t]]
    BY <2>1
  <2>3. Templated(a) => t # None
    BY <2>2, NoneAssumption DEF Unissued
  <2>4. open' = [open EXCEPT ![r] = TRUE]
    BY <1>3 DEF Accept
  <2> DEFINE answer == [kind |-> "ok", xtoken |-> x, token |-> t]
  <2>5. answer.kind = "ok" /\ answer.token = t
    OBVIOUS
  <2>6. rsp' = [rsp EXCEPT ![r] = answer]
    BY <2>2
  <2> HIDE DEF answer
  <2>7. QED
    BY <1>2, <2>3, <2>4, <2>5, <2>6
<1>4. CASE Refuse(r) \/ TransportError(r)
  <2>1. PICK kind \in {"refused", "error"} :
          /\ rsp' = [rsp EXCEPT ![r] = [NoAnswer EXCEPT !.kind = kind]]
          /\ open' = [open EXCEPT ![r] = (kind = "refused")]
    <3>1. CASE Refuse(r)
      BY <3>1 DEF Refuse
    <3>2. CASE TransportError(r)
      <4>1. open' = [open EXCEPT ![r] = FALSE]
        BY <1>1, <3>2 DEF TransportError, SessionInv, TypeOK
      <4>2. QED
        BY <3>2, <4>1 DEF TransportError
    <3>3. QED
      BY <1>4, <3>1, <3>2
  <2> DEFINE answer == [NoAnswer EXCEPT !.kind = kind]
  <2>2. answer.kind = kind /\ answer.xtoken = None
    BY DEF NoAnswer
  <2>3. rsp' = [rsp EXCEPT ![r] = answer]
    BY <2>1
  <2> HIDE DEF answer
  <2>4. QED
    BY <1>2, <2>1, <2>2, <2>3
<1>5. QED
  BY <1>3, <1>4 DEF Gateway

\* The header of a 200 answer: its X-Token is the only cookie that is set.
LEMMA ProcessOKAnswer ==
  ASSUME SessionInv, AnswerInv, NEW r \in Req, ProcessOK(r)
  PROVE  AnswerInv'
<1> DEFINE a  == ask[r]
           t  == rsp[r].xtoken
           wr == IF t = None THEN w[r] ELSE SetToken(w[r], t, Account(a))
<1>1. /\ pc[r] = "answered" /\ rsp[r].kind = "ok"
      /\ pc' = [pc EXCEPT ![r] = "relay"]
      /\ w' = [w EXCEPT ![r] = wr]
      /\ UNCHANGED <<ask, rsp, open, broke>>
  BY DEF ProcessOK, Goto
<1>2. /\ w[r] = Fresh /\ w[r] \in Response /\ broke[r] = "no"
      /\ Account(a) \in Storage
      /\ Templated(a) => rsp[r].token # None
  BY <1>1, OfRequest DEF WrittenInOrder
<1>3. /\ wr.status = 0 /\ wr.body = {}
      /\ Account(a) \in CookieSafe => wr.cookies[Account(a)] = t
      /\ \A s \in Storage : wr.cookies[s] # None => s = Account(a)
  <2>1. /\ w[r].status = 0 /\ w[r].body = {}
        /\ \A s \in Storage : w[r].cookies[s] = None
    BY <1>2, FreshResponse
  <2>2. CASE t = None
    <3>1. wr = w[r]
      BY <2>2
    <3> HIDE DEF wr, t, a
    <3>2. QED
      BY <1>2, <2>1, <2>2, <3>1
  <2>3. CASE t # None
    <3>1. wr = SetToken(w[r], t, Account(a))
      BY <2>3
    <3> HIDE DEF wr, t, a
    <3>2. QED
      BY <1>2, <2>1, <3>1, SetTokenResult
  <2>4. QED
    BY <2>2, <2>3
<1> DEFINE isOpen == open[r]
           broken == broke[r]
           answer == rsp[r]
<1> HIDE DEF wr
<1>4. /\ answer.kind = "ok" /\ answer.xtoken = t /\ broken = "no"
      /\ Templated(a) => answer.token # None
  BY <1>1, <1>2
<1>5. /\ pc' = [pc EXCEPT ![r] = "relay"]
      /\ w' = [w EXCEPT ![r] = wr]
      /\ open' = [open EXCEPT ![r] = isOpen]
      /\ broke' = [broke EXCEPT ![r] = broken]
      /\ rsp' = [rsp EXCEPT ![r] = answer]
      /\ UNCHANGED ask
  BY <1>1 DEF SessionInv, TypeOK, wr
<1> HIDE DEF isOpen, broken, answer, t
<1>6. WrittenInOrder("relay", ask[r], answer, isOpen, broken, wr)
  BY <1>3, <1>4 DEF WrittenInOrder
<1>7. CookiesInOrder("relay", ask[r], answer, broken, wr)
  BY <1>3, <1>4 DEF CookiesInOrder
<1>8. QED
  BY <1>5, <1>6, <1>7, ServiceAnswer

\* A part of the answer's body is passed on.
LEMMA CopyChunkAnswer ==
  ASSUME SessionInv, AnswerInv, NEW r \in Req, CopyChunk(r)
  PROVE  AnswerInv'
<1> DEFINE a      == ask[r]
           wr     == Write(w[r], "data")
           isOpen == open[r]
           broken == broke[r]
           answer == rsp[r]
<1>1. /\ pc[r] = "relay" /\ Copies(a)
      /\ w' = [w EXCEPT ![r] = wr]
      /\ UNCHANGED <<pc, ask, rsp, open, broke>>
  BY DEF CopyChunk
<1>2. /\ w[r] \in Response /\ broke[r] = "no" /\ answer.kind = "ok"
      /\ CookiesInOrder("relay", a, answer, broken, w[r])
      /\ Templated(a) => answer.token # None
      /\ \/ w[r].status = 0 /\ w[r].body = {}
         \/ w[r].status = 200 /\ w[r].body = {"data"}
  BY <1>1, OfRequest DEF WrittenInOrder
<1>3. wr.status = 200 /\ wr.body = {"data"} /\ wr.cookies = w[r].cookies
  BY <1>2, WriteResult, WriteType, ZenonT(60)
<1> HIDE DEF wr
<1>4. WrittenInOrder("relay", ask[r], answer, isOpen, broken, wr)
  BY <1>1, <1>2, <1>3 DEF WrittenInOrder
<1>5. CookiesInOrder("relay", ask[r], answer, broken, wr)
  <2>1. w[r].status # 302 /\ wr.status # 302 /\ broken # "early"
    BY <1>2, <1>3
  <2>2. QED
    BY <1>2, <1>3, <2>1, KeepsCookies
<1>6. /\ pc' = [pc EXCEPT ![r] = "relay"]
      /\ w' = [w EXCEPT ![r] = wr]
      /\ open' = [open EXCEPT ![r] = isOpen]
      /\ broke' = [broke EXCEPT ![r] = broken]
      /\ rsp' = [rsp EXCEPT ![r] = answer]
      /\ UNCHANGED ask
  BY <1>1 DEF SessionInv, TypeOK
<1> HIDE DEF isOpen, broken, answer
<1>7. QED
  BY <1>4, <1>5, <1>6, ServiceAnswer

\* What a handler may leave in the response when it returns on a 200 answer
\* that is no redirect: the cookies that were set, and one answer unless
\* something broke off.
Relayed(old, wr, broken) ==
  /\ wr \in Response
  /\ wr.cookies = old.cookies
  /\ wr.status \in {0, 200, 400}
  /\ "data" \in wr.body => wr.status = 200
  /\ \/ broken # "no"
     \/ wr.status # 400 /\ wr.body \in {{}, {"html"}, {"data"}}

\* Such a response is in order.
LEMMA RelayedInOrder ==
  ASSUME NEW a, NEW answer, NEW old, NEW wr, NEW broken,
         answer.kind = "ok", old.status # 302,
         CookiesInOrder("relay", a, answer, "no", old),
         Relayed(old, wr, broken)
  PROVE  /\ WrittenInOrder("reply", a, answer, FALSE, broken,
                           WriteHeader(wr, 200))
         /\ CookiesInOrder("reply", a, answer, broken, WriteHeader(wr, 200))
<1> DEFINE done == WriteHeader(wr, 200)
<1>1. wr \in Response /\ wr.status \in {0, 200, 400}
      /\ wr.cookies = old.cookies
  BY DEF Relayed
<1>2. /\ done.status = IF wr.status = 0 THEN 200 ELSE wr.status
      /\ done.body = wr.body /\ done.cookies = old.cookies
  BY <1>1, WriteHeaderResult, WriteHeaderType
<1> HIDE DEF done
<1>3. WrittenInOrder("reply", a, answer, FALSE, broken, done)
  BY <1>1, <1>2 DEF WrittenInOrder, Relayed
<1>4. CookiesInOrder("reply", a, answer, broken, done)
  <2>1. done.status # 302 /\ "no" # "early"
    BY <1>1, <1>2
  <2>2. QED
    BY <1>2, <2>1, KeepsCookies
<1>5. QED
  BY <1>3, <1>4 DEF done

\* A step that returns so.
LEMMA RelayedAnswer ==
  ASSUME SessionInv, AnswerInv, NEW r \in Req, pc[r] = "relay",
         NEW wr, Return(r, wr), UNCHANGED <<ask, rsp>>,
         NEW broken, broke' = [broke EXCEPT ![r] = broken],
         Relayed(w[r], wr, broken)
  PROVE  AnswerInv'
<1>1. /\ rsp[r].kind = "ok" /\ w[r].status # 302
      /\ CookiesInOrder("relay", ask[r], rsp[r], "no", w[r])
  BY OfRequest DEF WrittenInOrder
<1>2. /\ WrittenInOrder("reply", ask[r], rsp[r], FALSE, broken,
                        WriteHeader(wr, 200))
      /\ CookiesInOrder("reply", ask[r], rsp[r], broken, WriteHeader(wr, 200))
  BY <1>1, RelayedInOrder, ZenonT(60)
<1>3. QED
  BY <1>2, ReturnAnswer

\* The same for a step after which nothing has broken off.
LEMMA WholeAnswer ==
  ASSUME SessionInv, AnswerInv, NEW r \in Req, pc[r] = "relay",
         NEW wr, Return(r, wr), UNCHANGED <<ask, rsp, broke>>,
         Relayed(w[r], wr, "no")
  PROVE  AnswerInv'
<1> DEFINE broken == broke[r]
<1>1. broken = "no"
  BY OfRequest DEF WrittenInOrder
<1>2. broke' = [broke EXCEPT ![r] = broken] /\ UNCHANGED <<ask, rsp>>
  BY DEF SessionInv, TypeOK
<1>3. Relayed(w[r], wr, broken)
  BY <1>1
<1> HIDE DEF broken
<1>4. QED
  BY <1>2, <1>3, RelayedAnswer

\* The end of a copy, the page of a folder, an acknowledgement, and a body that
\* cannot be read or written to the end.
LEMMA BodyAnswer ==
  ASSUME SessionInv, AnswerInv, NEW r \in Req,
         \/ CopyDone(r) \/ RenderView(r) \/ Acknowledge(r)
         \/ RenderFails(r) \/ ReadFails(r)
  PROVE  AnswerInv'
<1> DEFINE a == ask[r]
<1>1. pc[r] = "relay" /\ UNCHANGED <<ask, rsp>>
  BY DEF CopyDone, RenderView, Acknowledge, RenderFails, ReadFails
<1>2. /\ w[r] \in Response
      /\ \/ w[r].status = 0 /\ w[r].body = {}
         \/ w[r].status = 200 /\ w[r].body = {"data"} /\ Copies(a)
  BY <1>1, OfRequest DEF WrittenInOrder
<1>3. CASE CopyDone(r)
  <2>1. Return(r, w[r]) /\ UNCHANGED <<ask, rsp, broke>>
    BY <1>3 DEF CopyDone
  <2>2. Relayed(w[r], w[r], "no")
    BY <1>2 DEF Relayed
  <2>3. QED
    BY <1>1, <2>1, <2>2, WholeAnswer
<1>4. CASE RenderView(r)
  <2> DEFINE wr == Write(w[r], "html")
  <2>1. w[r].status = 0 /\ w[r].body = {}
    BY <1>2, <1>4 DEF RenderView, Copies
  <2>2. /\ wr \in Response /\ wr.cookies = w[r].cookies
        /\ wr.status = 200 /\ wr.body = {"html"}
    BY <1>2, <2>1, WriteType, WriteResult, ZenonT(60)
  <2>3. Return(r, wr) /\ UNCHANGED <<ask, rsp, broke>>
    BY <1>4 DEF RenderView
  <2> HIDE DEF wr
  <2>4. Relayed(w[r], wr, "no")
    BY <2>2 DEF Relayed
  <2>5. QED
    BY <1>1, <2>3, <2>4, WholeAnswer
<1>5. CASE Acknowledge(r)
  <2> DEFINE wr == WriteHeader(w[r], 200)
  <2>1. w[r].status = 0 /\ w[r].body = {}
    BY <1>2, <1>5 DEF Acknowledge, Acknowledges, Copies
  <2>2. /\ wr \in Response /\ wr.cookies = w[r].cookies
        /\ wr.status = 200 /\ wr.body = {}
    BY <1>2, <2>1, WriteHeaderOnce
  <2>3. Return(r, wr) /\ UNCHANGED <<ask, rsp, broke>>
    BY <1>5 DEF Acknowledge
  <2> HIDE DEF wr
  <2>4. Relayed(w[r], wr, "no")
    BY <2>2 DEF Relayed
  <2>5. QED
    BY <1>1, <2>3, <2>4, WholeAnswer
<1>6. CASE RenderFails(r)
  <2> DEFINE sent == Write(w[r], "html")
             wr   == WriteJSON(sent)
  <2>1. w[r].status = 0 /\ w[r].body = {}
    BY <1>2, <1>6 DEF RenderFails, Copies
  <2>2. /\ sent \in Response /\ sent.cookies = w[r].cookies
        /\ sent.status = 200
    BY <1>2, <2>1, WriteType, WriteResult
  <2>3. Return(r, wr) /\ broke' = [broke EXCEPT ![r] = "client"]
    BY <1>6 DEF RenderFails
  <2> HIDE DEF sent
  <2>4. /\ wr \in Response /\ wr.cookies = w[r].cookies
        /\ wr.status = 200
    BY <2>2, WriteJSONType, WriteJSONResult
  <2> HIDE DEF wr
  <2>5. Relayed(w[r], wr, "client")
    BY <2>4 DEF Relayed
  <2>6. QED
    BY <1>1, <2>3, <2>5, RelayedAnswer
<1>7. CASE ReadFails(r)
  <2> DEFINE bad == WriteJSON(w[r])
             wr  == Failed(a, w[r])
  <2>1. /\ bad \in Response /\ bad.cookies = w[r].cookies
        /\ bad.status = IF w[r].status = 0 THEN 400 ELSE w[r].status
        /\ bad.body = w[r].body \cup {"json"}
    BY <1>2, WriteJSONType, WriteJSONResult
  <2>2. wr = IF Templated(a) THEN Write(bad, "html") ELSE bad
    BY DEF Failed
  <2>3. Return(r, wr) /\ broke' = [broke EXCEPT ![r] = "body"]
    BY <1>7 DEF ReadFails
  <2> HIDE DEF bad, wr
  <2>4. Relayed(w[r], bad, "body")
    BY <1>2, <2>1 DEF Relayed
  <2>5. CASE Templated(a)
    <3>1. /\ Write(bad, "html") \in Response
          /\ Write(bad, "html").cookies = bad.cookies
          /\ Write(bad, "html").status
               = IF bad.status = 0 THEN 200 ELSE bad.status
          /\ Write(bad, "html").body = bad.body \cup {"html"}
      BY <2>1, WriteType, WriteResult
    <3>2. wr = Write(bad, "html")
      BY <2>2, <2>5
    <3>3. Relayed(w[r], wr, "body")
      BY <2>4, <3>1, <3>2 DEF Relayed
    <3>4. QED
      BY <1>1, <2>3, <3>3, RelayedAnswer
  <2>6. CASE ~Templated(a)
    BY <1>1, <2>2, <2>3, <2>4, <2>6, RelayedAnswer
  <2>7. QED
    BY <2>5, <2>6
<1>8. QED
  BY <1>3, <1>4, <1>5, <1>6, <1>7

\* What a panic leaves in a response that no redirect was written to: its
\* cookies, and an error document, or nothing but what was deferred.
LEMMA UnwoundResult ==
  ASSUME NEW a, NEW old \in Response, NEW wr,
         \/ old.status = 0 /\ old.body = {}
         \/ old.status = 200 /\ old.body = {"data"},
         wr \in {Panicked(a, old), Dropped(a, old)}
  PROVE  /\ wr \in Response /\ wr.cookies = old.cookies
         /\ wr.status \in {200, 400}
         /\ "data" \in wr.body => wr.status = 200
         /\ wr = Panicked(a, old) /\ ~Templated(a) /\ old.status = 0
              => wr.status = 400
         /\ wr = Dropped(a, old) /\ ~Templated(a) /\ old.status = 0
              => wr.body = {}
<1> DEFINE sent == Unwound(a, old)
<1>1. /\ sent \in Response /\ sent.cookies = old.cookies
      /\ sent.status \in {0, 200}
      /\ "data" \in sent.body => sent.status = 200
      /\ ~Templated(a) => sent = old
  <2>1. CASE Templated(a)
    <3>1. sent = Write(old, "html")
      BY <2>1 DEF Unwound
    <3>2. /\ Write(old, "html") \in Response
          /\ Write(old, "html").cookies = old.cookies
          /\ Write(old, "html").status
               = IF old.status = 0 THEN 200 ELSE old.status
      BY WriteType, WriteResult
    <3> HIDE DEF sent
    <3>3. QED
      BY <2>1, <3>1, <3>2
  <2>2. CASE ~Templated(a)
    <3>1. sent = old
      BY <2>2 DEF Unwound
    <3> HIDE DEF sent
    <3>2. QED
      BY <2>2, <3>1
  <2>3. QED
    BY <2>1, <2>2
<1>2. Panicked(a, old) = WriteJSON(sent) /\ Dropped(a, old) = WriteHeader(sent, 200)
  BY DEF Panicked, Dropped
<1> HIDE DEF sent
<1>3. /\ WriteJSON(sent) \in Response
      /\ WriteJSON(sent).cookies = old.cookies
      /\ WriteJSON(sent).status = IF sent.status = 0 THEN 400 ELSE sent.status
      /\ WriteJSON(sent).body = sent.body \cup {"json"}
  BY <1>1, WriteJSONType, WriteJSONResult
<1>4. /\ WriteHeader(sent, 200) \in Response
      /\ WriteHeader(sent, 200).cookies = old.cookies
      /\ WriteHeader(sent, 200).status = 200
      /\ WriteHeader(sent, 200).body = sent.body
  <2>1. CASE sent.status = 0
    BY <1>1, <2>1, WriteHeaderOnce
  <2>2. CASE sent.status # 0
    <3>1. WriteHeader(sent, 200) = sent
      BY <1>1, <2>2, WriteHeaderOnce
    <3>2. QED
      BY <1>1, <2>2, <3>1
  <2>3. QED
    BY <2>1, <2>2
<1>5. CASE wr = Panicked(a, old)
  <2>1. /\ wr = WriteJSON(sent) /\ wr.status \in {200, 400}
        /\ "data" \in wr.body => wr.status = 200
    BY <1>1, <1>2, <1>3, <1>5
  <2>2. ~Templated(a) /\ old.status = 0 => wr.status = 400
    BY <1>1, <1>3, <2>1
  <2>3. wr = Dropped(a, old) /\ ~Templated(a) /\ old.status = 0 => wr.body = {}
    BY <1>1, <1>2, <1>4
  <2>4. QED
    BY <1>3, <2>1, <2>2, <2>3
<1>6. CASE wr = Dropped(a, old)
  <2>1. wr = WriteHeader(sent, 200)
    BY <1>2, <1>6
  <2>2. wr = Panicked(a, old) /\ ~Templated(a) /\ old.status = 0
          => wr.status = 400
    BY <1>1, <1>2, <1>3
  <2>3. ~Templated(a) /\ old.status = 0 => wr.body = {}
    BY <1>1, <1>4, <2>1
  <2>4. QED
    BY <1>4, <2>1, <2>2, <2>3
<1>7. QED
  BY <1>5, <1>6

\* A panic before anything was forwarded, or while a 200 answer is worked on:
\* nothing but an answer of the gateway, or nothing at all, looks like one.
LEMMA PanicAnswer ==
  ASSUME SessionInv, AnswerInv, NEW r \in Req, Panic(r)
  PROVE  AnswerInv'
<1> DEFINE a == ask[r]
<1>1. PICK wr, broken :
        /\ \/ wr = Panicked(a, w[r]) /\ broken = "panic"
           \/ wr = Dropped(a, w[r]) /\ broken = "swallowed"
        /\ Return(r, wr) /\ broke' = [broke EXCEPT ![r] = broken]
  BY DEF Panic
<1>2. pc[r] \in {"handler", "relay"} /\ UNCHANGED <<ask, rsp>>
  BY DEF Panic
<1>3. /\ w[r] \in Response /\ broke[r] = "no"
      /\ CookiesInOrder(pc[r], a, rsp[r], broke[r], w[r])
      /\ pc[r] = "handler" => /\ rsp[r].kind # "ok" /\ rsp[r].xtoken = None
                              /\ w[r].status = 0
      /\ pc[r] = "relay" => rsp[r].kind = "ok"
      /\ \/ w[r].status = 0 /\ w[r].body = {}
         \/ w[r].status = 200 /\ w[r].body = {"data"}
  BY <1>2, OfRequest, FreshResponse DEF WrittenInOrder, NoAnswer
<1>4. /\ wr \in Response /\ wr.cookies = w[r].cookies
      /\ wr.status \in {200, 400}
      /\ "data" \in wr.body => wr.status = 200
      /\ broken = "panic" /\ ~Templated(a) /\ w[r].status = 0
           => wr.status = 400
      /\ broken = "swallowed" /\ ~Templated(a) /\ w[r].status = 0
           => wr.body = {}
  BY <1>1, <1>3, UnwoundResult
<1> DEFINE done == WriteHeader(wr, 200)
<1>5. done = wr
  <2>1. wr.status # 0
    BY <1>4
  <2>2. QED
    BY <1>4, <2>1, WriteHeaderOnce
<1> HIDE DEF done
<1>6. WrittenInOrder("reply", ask[r], rsp[r], FALSE, broken, done)
  BY <1>1, <1>2, <1>3, <1>4, <1>5 DEF WrittenInOrder
<1>7. CookiesInOrder("reply", ask[r], rsp[r], broken, done)
  <2>1. /\ w[r].status # 302 /\ done.status # 302 /\ pc[r] # "idle"
        /\ pc[r] = "relay" \/ rsp[r].kind # "ok"
        /\ broke[r] # "early" /\ done.cookies = w[r].cookies
    BY <1>2, <1>3, <1>4, <1>5
  <2>2. QED
    BY <1>3, <2>1, KeepsCookies
<1>8. QED
  BY <1>1, <1>2, <1>6, <1>7, ReturnAnswer DEF done

\* A panic in processRequest, on whatever Do returned: no cookie is set, and
\* the body stays as it was.
LEMMA PanicEarlyAnswer ==
  ASSUME SessionInv, AnswerInv, NEW r \in Req, PanicEarly(r)
  PROVE  AnswerInv'
<1> DEFINE a      == ask[r]
           isOpen == open[r]
<1>1. PICK wr \in {Panicked(a, w[r]), Dropped(a, w[r])} : Reply(r, wr)
  BY DEF PanicEarly
<1>2. /\ pc[r] = "answered" /\ UNCHANGED <<ask, rsp, open>>
      /\ broke' = [broke EXCEPT ![r] = "early"]
      /\ open' = [open EXCEPT ![r] = isOpen]
  BY DEF PanicEarly, SessionInv, TypeOK
<1>3. /\ w[r] \in Response /\ w[r] = Fresh
      /\ rsp[r].kind # "ok" => rsp[r].xtoken = None
  BY <1>2, OfRequest DEF WrittenInOrder
<1>4. w[r].status = 0 /\ w[r].body = {} /\ \A s \in Storage : w[r].cookies[s] = None
  BY <1>3, FreshResponse
<1>5. /\ wr \in Response /\ wr.cookies = w[r].cookies
      /\ wr.status \in {200, 400}
      /\ "data" \in wr.body => wr.status = 200
      /\ wr = Panicked(a, w[r]) /\ ~Templated(a) => wr.status = 400
      /\ wr = Dropped(a, w[r]) /\ ~Templated(a) => wr.body = {}
  BY <1>1, <1>3, <1>4, UnwoundResult
<1>6. wr.status = 200 /\ ~Templated(a) => wr.body = {}
  BY <1>1, <1>5
<1> HIDE DEF isOpen
<1>7. WrittenInOrder("reply", ask[r], rsp[r], isOpen, "early", wr)
  BY <1>3, <1>5, <1>6 DEF WrittenInOrder
<1>8. CookiesInOrder("reply", ask[r], rsp[r], "early", wr)
  BY <1>4, <1>5 DEF CookiesInOrder
<1>9. QED
  BY <1>1, <1>2, <1>7, <1>8, ReplyAnswer

\* A login or registration: the token of the answer's body is the cookie, and
\* the redirect is empty.
LEMMA SignedInAnswer ==
  ASSUME SessionInv, AnswerInv, NEW r \in Req, SignedIn(r)
  PROVE  AnswerInv'
<1> DEFINE a    == ask[r]
           t    == rsp[r].token
           set  == SetToken(w[r], t, Account(a))
           wr   == WriteHeader(set, 302)
           done == WriteHeader(wr, 200)
<1>1. /\ pc[r] = "relay" /\ Templated(a) /\ UNCHANGED <<ask, rsp>>
      /\ Return(r, wr)
      /\ UNCHANGED broke
  BY DEF SignedIn
<1>2. /\ w[r] \in Response /\ broke[r] = "no" /\ Account(a) \in Storage
      /\ rsp[r].kind = "ok" /\ t # None /\ t \in MaybeToken
      /\ w[r].status = 0 /\ w[r].body = {}
      /\ CookiesInOrder("relay", a, rsp[r], broke[r], w[r])
  BY <1>1, OfRequest DEF WrittenInOrder, Copies, Templated, Answer
<1>3. /\ set \in Response /\ set.status = 0 /\ set.body = {}
      /\ Account(a) \in CookieSafe => set.cookies[Account(a)] = t
      /\ \A s \in Storage : s # Account(a) => set.cookies[s] = w[r].cookies[s]
  BY <1>2, SetTokenResult, SetTokenType
<1> HIDE DEF set
<1>4. /\ wr \in Response /\ wr.status = 302 /\ wr.body = {}
      /\ wr.cookies = set.cookies
  BY <1>3, WriteHeaderOnce
<1> HIDE DEF wr
<1>5. done.status = 302 /\ done.body = {} /\ done.cookies = set.cookies
  <2>1. done = wr
    BY <1>4, WriteHeaderOnce
  <2>2. QED
    BY <1>4, <2>1
<1>6. broke' = [broke EXCEPT ![r] = "no"]
  BY <1>1, <1>2 DEF SessionInv, TypeOK
<1> HIDE DEF done
<1>7. WrittenInOrder("reply", ask[r], rsp[r], FALSE, "no", done)
  BY <1>1, <1>2, <1>5 DEF WrittenInOrder
<1>8. CookiesInOrder("reply", ask[r], rsp[r], "no", done)
  <2>1. \A s \in Storage : done.cookies[s] # None => s = Account(a)
    BY <1>2, <1>3, <1>5 DEF CookiesInOrder
  <2>2. Account(a) \in CookieSafe => done.cookies[Account(a)] = rsp[r].token
    BY <1>3, <1>5
  <2>3. QED
    BY <1>2, <1>5, <2>1, <2>2 DEF CookiesInOrder
<1>9. QED
  BY <1>1, <1>6, <1>7, <1>8, ReturnAnswer DEF done

-----------------------------------------------------------------------------
(* The steps of the browser.                                               *)

\* A new request has a blank response; a finished one leaves its slot blank.
LEMMA SlotAnswer ==
  ASSUME SessionInv, AnswerInv, NEW r \in Req, Send(r) \/ Finish(r)
  PROVE  AnswerInv'
<1>1. /\ pc \in [Req -> Step] /\ w \in [Req -> Response]
      /\ open \in [Req -> BOOLEAN] /\ broke \in [Req -> Breakage]
      /\ rsp \in [Req -> Answer] /\ ask \in [Req -> Ask \cup {None}]
  BY DEF SessionInv, TypeOK
<1>2. /\ pc'[r] \in {"idle", "handler"}
      /\ rsp'[r] = NoAnswer /\ ~open'[r] /\ broke'[r] = "no" /\ w'[r] = Fresh
  <2>1. CASE Send(r)
    <3>1. rsp[r] = NoAnswer /\ ~open[r] /\ broke[r] = "no" /\ w[r] = Fresh
      BY <2>1, OfRequest DEF Send, WrittenInOrder
    <3>2. QED
      BY <1>1, <2>1, <3>1 DEF Send, Goto
  <2>2. CASE Finish(r)
    BY <1>1, <2>2 DEF Finish, Goto
  <2>3. QED
    BY <2>1, <2>2
<1>3. \A q \in Req : q # r =>
        /\ pc'[q] = pc[q] /\ ask'[q] = ask[q] /\ rsp'[q] = rsp[q]
        /\ open'[q] = open[q] /\ broke'[q] = broke[q] /\ w'[q] = w[q]
  <2>1. CASE Send(r)
    BY <1>1, <2>1 DEF Send, Goto
  <2>2. CASE Finish(r)
    BY <1>1, <2>2 DEF Finish, Goto
  <2>3. QED
    BY <2>1, <2>2
<1>4. /\ WrittenInOrder(pc'[r], ask'[r], rsp'[r], open'[r], broke'[r], w'[r])
      /\ CookiesInOrder(pc'[r], ask'[r], rsp'[r], broke'[r], w'[r])
  BY <1>2, FreshResponse DEF WrittenInOrder, CookiesInOrder, NoAnswer
<1>5. QED
  BY <1>3, <1>4, OneRequest

-----------------------------------------------------------------------------
(* The theorems.                                                           *)

\* Every step of the system preserves AnswerInv.
LEMMA NextAnswer == SessionInv /\ AnswerInv /\ [Next]_vars => AnswerInv'
<1> SUFFICES ASSUME SessionInv, AnswerInv, [Next]_vars PROVE AnswerInv'
  OBVIOUS
<1>1. CASE \E r \in Req : BrowserStep(r)
  <2>1. PICK r \in Req : BrowserStep(r)
    BY <1>1
  <2>2. CASE Send(r) \/ Finish(r)
    BY <2>2, SlotAnswer
  <2>3. CASE Hear(r) \/ Abandon(r)
    BY <2>3, NoRequest DEF Hear, Abandon
  <2>4. QED
    BY <2>1, <2>2, <2>3 DEF BrowserStep
<1>2. CASE \E r \in Req : HandlerStep(r)
  BY <1>2, RefusedAnswer, ForwardAnswer, ProcessOKAnswer, BodyAnswer
     DEF HandlerStep
<1>3. CASE \E r \in Req : BodyStep(r)
  BY <1>3, RefusedAnswer, CopyChunkAnswer, BodyAnswer, SignedInAnswer
     DEF BodyStep
<1>4. CASE \E r \in Req : Gateway(r) \/ Panic(r) \/ PanicEarly(r)
  BY <1>4, GatewayAnswer, PanicAnswer, PanicEarlyAnswer
<1>5. CASE (\E b \in Browser, s \in Storage : Expire(b, s)) \/ UNCHANGED vars
  BY <1>5, NoRequest DEF Expire, vars
<1>6. QED
  BY <1>1, <1>2, <1>3, <1>4, <1>5 DEF Next

\* AnswerInv holds in every reachable state: nothing is written to a response
\* before the gateway has answered, and what is written and set then is what
\* that answer allows.
THEOREM AnswersInOrder == Spec => []AnswerInv
<1>1. Init => AnswerInv
  BY FreshResponse
     DEF Init, AnswerInv, WrittenInOrder, CookiesInOrder, NoAnswer
<1>2. SessionInv /\ AnswerInv /\ [Next]_vars => AnswerInv'
  BY NextAnswer
<1>3. QED
  BY <1>1, <1>2, Invariance, PTL DEF Spec

\* What a browser is told has succeeded, the gateway has confirmed for this very
\* request, or it is the empty 200 of a panic that was swallowed.
THEOREM OnlyConfirmedSuccess == Spec => []SuccessIsConfirmed
<1>1. AnswerInv => SuccessIsConfirmed
  BY DEF AnswerInv, WrittenInOrder, SuccessIsConfirmed
<1>2. QED
  BY <1>1, AnswersInOrder, PTL

\* Whatever a handler wrote before it returned is one answer, unless something
\* broke off, and a file never has the error status.
THEOREM AlwaysOneAnswer == Spec => []OneAnswer
<1>1. AnswerInv => OneAnswer
  BY DEF AnswerInv, WrittenInOrder, OneAnswer
<1>2. QED
  BY <1>1, AnswersInOrder, PTL

\* Every way out of a handler, a panic included, closes the body of the answer
\* the handler was given.
THEOREM AcceptedBodiesClosed == Spec => []BodiesClosed
<1>1. AnswerInv => BodiesClosed
  BY DEF AnswerInv, WrittenInOrder, BodiesClosed
<1>2. QED
  BY <1>1, AnswersInOrder, PTL

-----------------------------------------------------------------------------
(* What becomes of the cookies of a browser.                               *)

\* The header of a response is only ever heard by Hear.
LEMMA HeardByHear ==
  ASSUME SessionInv, [Next]_vars, NEW r \in Req, Heard(r)
  PROVE  Hear(r)
<1>1. client \in [Req -> Client] /\ client[r] = "waiting" /\ client'[r] = "heard"
  BY DEF SessionInv, TypeOK, Heard
<1>2. CASE \E q \in Req : BrowserStep(q)
  <2>1. PICK q \in Req : BrowserStep(q)
    BY <1>2
  <2>2. CASE Hear(q)
    BY <1>1, <2>2 DEF Hear
  <2>3. CASE Send(q) \/ Abandon(q) \/ Finish(q)
    BY <1>1, <2>3 DEF Send, Abandon, Finish
  <2>4. QED
    BY <2>1, <2>2, <2>3 DEF BrowserStep
<1>3. CASE \E q \in Req : HandlerStep(q)
  BY <1>1, <1>3 DEF HandlerStep, ShowForm, Reject, Forward, ProcessOK,
                    Acknowledge
<1>4. CASE \E q \in Req : BodyStep(q)
  BY <1>1, <1>4 DEF BodyStep, ProcessRefused, CopyChunk, CopyDone, RenderView,
                    RenderFails, SignedIn, ReadFails
<1>5. CASE \E q \in Req : Gateway(q) \/ Panic(q) \/ PanicEarly(q)
  BY <1>1, <1>5 DEF Gateway, Accept, Refuse, TransportError, Panic, PanicEarly
<1>6. CASE (\E b \in Browser, s \in Storage : Expire(b, s)) \/ UNCHANGED vars
  BY <1>1, <1>6 DEF Expire, vars
<1>7. QED
  BY <1>2, <1>3, <1>4, <1>5, <1>6 DEF Next

\* A jar changes when a header is heard or a cookie expires, and not otherwise.
LEMMA JarChanges ==
  ASSUME SessionInv, [Next]_vars, NEW b \in Browser, NEW s \in Storage,
         jar'[b][s] \notin {None, jar[b][s]}
  PROVE  \E r \in Req : Hear(r)
<1>1. jar \in [Browser -> Cookies] /\ jar' # jar
  BY DEF SessionInv, TypeOK
<1>2. CASE \E q \in Req : BrowserStep(q)
  BY <1>1, <1>2 DEF BrowserStep, Send, Abandon, Finish
<1>3. CASE \E q \in Req : HandlerStep(q)
  BY <1>1, <1>3 DEF HandlerStep, ShowForm, Reject, Forward, ProcessOK,
                    Acknowledge
<1>4. CASE \E q \in Req : BodyStep(q)
  BY <1>1, <1>4 DEF BodyStep, ProcessRefused, CopyChunk, CopyDone, RenderView,
                    RenderFails, SignedIn, ReadFails
<1>5. CASE \E q \in Req : Gateway(q) \/ Panic(q) \/ PanicEarly(q)
  BY <1>1, <1>5 DEF Gateway, Accept, Refuse, TransportError, Panic, PanicEarly
<1>6. CASE \E c \in Browser, t \in Storage : Expire(c, t)
  <2>1. PICK c \in Browser, t \in Storage : Expire(c, t)
    BY <1>6
  <2>2. jar'[b][s] \in {None, jar[b][s]}
    BY <1>1, <2>1 DEF Expire, Cookies
  <2>3. QED
    BY <2>2
<1>7. CASE UNCHANGED vars
  BY <1>1, <1>7 DEF vars
<1>8. QED
  BY <1>2, <1>3, <1>4, <1>5, <1>6, <1>7 DEF Next

\* What the header that is heard sets for the storage of its request.
LEMMA HeardCookie ==
  ASSUME SessionInv, AnswerInv, NEW r \in Req, Hear(r),
         Account(ask[r]) \in CookieSafe,
         rsp[r].kind = "ok", broke[r] # "early", NEW token, token # None,
         token = IF w[r].status = 302 THEN rsp[r].token ELSE rsp[r].xtoken
  PROVE  jar'[ask[r].browser][Account(ask[r])] = token
<1> DEFINE a == ask[r]
<1>1. /\ pc[r] # "idle" /\ w[r].status # 0
      /\ a \in Ask /\ a.browser \in Browser /\ jar \in [Browser -> Cookies]
  BY DEF Hear, SessionInv, TypeOK, Ask
<1>2. pc[r] \in {"relay", "reply"}
  BY <1>1, OfRequest, FreshResponse DEF WrittenInOrder, SessionInv, TypeOK, Step
<1>3. w[r].cookies[Account(a)] = token
  BY <1>2, OfRequest DEF CookiesInOrder
<1>4. Account(a) \in Storage
  BY CookieAssumption
<1>5. jar'[a.browser] = [s \in Storage |-> IF w[r].cookies[s] = None
                                             THEN jar[a.browser][s]
                                             ELSE w[r].cookies[s]]
  BY <1>1 DEF Hear
<1>6. QED
  BY <1>3, <1>4, <1>5

\* A token that the gateway refreshed reaches the jar with the header of the
\* response, whatever the handler made of the answer.
THEOREM RefreshesArrive == Spec => RefreshNeverLost
<1>1. ASSUME SessionInv, AnswerInv, [Next]_vars PROVE RefreshKept
  <2>1. ASSUME NEW r \in Req, Heard(r), rsp[r].xtoken # None,
               w[r].status # 302, broke[r] # "early",
               Account(ask[r]) \in CookieSafe
        PROVE  jar'[ask[r].browser][Account(ask[r])] = rsp[r].xtoken
    <3>1. Hear(r)
      BY <1>1, <2>1, HeardByHear
    <3>2. rsp[r].kind = "ok"
      BY <1>1, <2>1, OfRequest DEF WrittenInOrder
    <3>3. QED
      BY <1>1, <2>1, <3>1, <3>2, HeardCookie
  <2>2. QED
    BY <2>1 DEF RefreshKept
<1>2. SessionInv /\ AnswerInv /\ [Next]_vars => [RefreshKept]_vars
  BY <1>1
<1>3. QED
  BY <1>2, Invariance, AnswersInOrder, PTL DEF Spec, RefreshNeverLost

\* A browser that is redirected after a login or registration holds the token
\* of the answer's body, whether or not its header carried another.
THEOREM LoginsArrive == Spec => LoginEstablishesSession
<1>1. ASSUME SessionInv, AnswerInv, [Next]_vars PROVE LoginStored
  <2>1. ASSUME NEW r \in Req, Heard(r),
               w[r].status = 302, Account(ask[r]) \in CookieSafe
        PROVE  jar'[ask[r].browser][Account(ask[r])] = rsp[r].token
    <3>1. Hear(r)
      BY <1>1, <2>1, HeardByHear
    <3>2. rsp[r].kind = "ok" /\ rsp[r].token # None /\ broke[r] = "no"
      BY <1>1, <2>1, OfRequest, FreshResponse
         DEF WrittenInOrder, SessionInv, TypeOK, Step
    <3>3. QED
      BY <1>1, <2>1, <3>1, <3>2, HeardCookie
  <2>2. QED
    BY <2>1 DEF LoginStored
<1>2. SessionInv /\ AnswerInv /\ [Next]_vars => [LoginStored]_vars
  BY <1>1
<1>3. QED
  BY <1>2, Invariance, AnswersInOrder, PTL DEF Spec, LoginEstablishesSession

\* A cookie only changes to another token on a response of its browser about its
\* storage that the gateway answered with 200.
THEOREM SessionsFromAnswers == Spec => SessionOnlyFromAnswer
<1>1. ASSUME SessionInv, AnswerInv, [Next]_vars PROVE JarWrittenByOwner
  <2> SUFFICES ASSUME NEW b \in Browser, NEW s \in Storage,
                      jar'[b][s] \notin {None, jar[b][s]}
               PROVE  \E r \in Req : /\ Heard(r)
                                     /\ ask[r].browser = b
                                     /\ Account(ask[r]) = s
                                     /\ rsp[r].kind = "ok"
    BY DEF JarWrittenByOwner
  <2>1. PICK r \in Req : Hear(r)
    BY <1>1, JarChanges
  <2>2. /\ pc[r] # "idle" /\ jar \in [Browser -> Cookies]
        /\ client \in [Req -> Client]
    BY <1>1, <2>1 DEF Hear, SessionInv, TypeOK
  <2>3. Heard(r)
    BY <2>1, <2>2 DEF Hear, Heard
  <2>4. ask[r].browser = b /\ w[r].cookies[s] # None
    BY <2>1, <2>2 DEF Hear, Cookies
  <2>5. rsp[r].kind = "ok" /\ s = Account(ask[r])
    BY <1>1, <2>2, <2>4, OfRequest DEF CookiesInOrder
  <2>6. QED
    BY <2>3, <2>4, <2>5
<1>2. SessionInv /\ AnswerInv /\ [Next]_vars => [JarWrittenByOwner]_vars
  BY <1>1
<1>3. QED
  BY <1>2, Invariance, AnswersInOrder, PTL DEF Spec, SessionOnlyFromAnswer
=============================================================================
