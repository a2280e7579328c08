----------------------------- MODULE WebService -----------------------------
(***************************************************************************)
(* The request handlers of internal/handler, the cookie session of          *)
(* internal/wrapper, the gateway they forward to over http and the browsers *)
(* that call them.                                                          *)
(*                                                                         *)
(* net/http runs one goroutine for each request.  A request slot r goes     *)
(* through the steps at which that goroutine can be overtaken by another:   *)
(*                                                                         *)
(*   idle -> handler -> waiting -> answered -> relay -> reply -> idle       *)
(*                                                                         *)
(* "handler"   the handler has the request and its route's parameters       *)
(* "waiting"   http.DefaultClient.Do has sent the forwarded request         *)
(* "answered"  Do has returned an answer or an error                        *)
(* "relay"     the handler works on the body of a 200 answer                *)
(* "reply"     the handler and what it deferred have returned               *)
(***************************************************************************)
EXTENDS FiniteSets

CONSTANTS
  Browser,      \* user agents, each with a cookie jar of its own
  Storage,      \* storage (user) names
  File,         \* file names, and titles of shared texts
  Token,        \* session tokens the gateway can hand out
  Req,          \* slots of concurrent requests
  Served,       \* what the router serves: see Route
  CookieSafe,   \* names http.SetCookie accepts as the name of a cookie
  None          \* no storage, no file, no token

Handler == {"Register", "Login", "IndexHTML", "View", "Upload", "Remove",
            "GetFile", "ShareText"}

Method == {"GET", "POST"}

\* A route of internal/router: the handler it ends in, its flags, and which
\* of the two path variables its pattern has.
Route == [handler : Handler, method : Method, public : BOOLEAN,
          permanent : BOOLEAN, hasStorage : BOOLEAN, hasFile : BOOLEAN]

\* Whom a token is for: the gateway ties it to an account, and the browser it
\* hands it to is who asked.
Grant == [browser : Browser, storage : Storage]

ASSUME NoneAssumption == None \notin Storage \cup File \cup Token \cup Grant

ASSUME CookieAssumption == CookieSafe \subseteq Storage

\* Every route of the table names a storage in its path, except "/register/".
ASSUME ServedAssumption ==
  /\ Served \subseteq Route
  /\ \A route \in Served : route.hasStorage <=> route.handler # "Register"

VARIABLES
  jar,      \* [Browser -> [Storage -> token]]: the cookies a browser holds
  issued,   \* whom the gateway handed each token to, for which storage
  pc,       \* the step a request is at
  ask,      \* the request as its handler sees it
  rsp,      \* what Do returned
  open,     \* the answer's body is open
  broke,    \* whether reading that body, or the handler, broke off
  w,        \* the http.ResponseWriter
  client    \* what the browser knows of the response

vars == <<jar, issued, pc, ask, rsp, open, broke, w, client>>

-----------------------------------------------------------------------------
(* What the variables hold.                                                *)

MaybeToken   == Token \cup {None}
MaybeStorage == Storage \cup {None}
MaybeFile    == File \cup {None}

\* A cookie is named after its storage.
Cookies   == [Storage -> MaybeToken]
NoCookies == [s \in Storage |-> None]

\* The storageParameters a handler reads back from the request's context.
Parameters == [storage : MaybeStorage, public : BOOLEAN,
               permanent : BOOLEAN, file : MaybeFile]

\* The form of a POST request: the storage it names (register), the file it
\* names (remove), titles (shareText) or contains (upload), and whether the
\* rest of it is filled in and well formed.
Form  == [storage : MaybeStorage, file : MaybeFile, complete : BOOLEAN]
Blank == [storage |-> None, file |-> None, complete |-> TRUE]

Ask == [browser : Browser, handler : Handler, method : Method,
        sp : Parameters, form : Form, cookies : Cookies]

Step == {"idle", "handler", "waiting", "answered", "relay", "reply"}

\* "error" is a request that could not be done, "refused" any status but 200.
\* xtoken is the answer's X-Token header, token the token its body carries.
Answer   == [kind : {"none", "error", "refused", "ok"},
             xtoken : MaybeToken, token : MaybeToken]
NoAnswer == [kind |-> "none", xtoken |-> None, token |-> None]

\* Status 0 is a response whose header is not written yet.
Response == [status : {0, 200, 302, 400}, cookies : Cookies,
             body : SUBSET {"json", "html", "data"}]
Fresh    == [status |-> 0, cookies |-> NoCookies, body |-> {}]

\* "swallowed" is a panic with a value that is no error, "early" any panic
\* before the handler had deferred to close the answer's body.
Breakage == {"no", "body", "client", "panic", "swallowed", "early"}

Client == {"waiting", "heard", "gone"}

-----------------------------------------------------------------------------
(* http.ResponseWriter.  The header, and the cookies in it, leave with the  *)
(* first write; what is set later has no effect.                            *)

WriteHeader(wr, status) ==
  IF wr.status = 0 THEN [wr EXCEPT !.status = status] ELSE wr

Write(wr, part) ==
  LET sent == WriteHeader(wr, 200)
  IN  [sent EXCEPT !.body = sent.body \cup {part}]

\* httperror.Error.WriteJSON
WriteJSON(wr) == Write(WriteHeader(wr, 400), "json")

\* Mutants of SetToken: one cookie for the whole site, under whatever name it
\* is looked up; a cookie that was set already is kept.
SetTokenForSite(wr, token, name) ==
  IF wr.status = 0 THEN [wr EXCEPT !.cookies = [s \in Storage |-> token]]
                   ELSE wr

SetTokenOnce(wr, token, name) ==
  IF wr.status = 0 /\ name \in CookieSafe /\ wr.cookies[name] = None
    THEN [wr EXCEPT !.cookies[name] = token]
    ELSE wr

\* CookieSession.SetToken: http.SetCookie drops a cookie with a bad name.
SetToken(wr, token, name) ==
  IF wr.status = 0 /\ name \in CookieSafe
    THEN [wr EXCEPT !.cookies[name] = token]
    ELSE wr

\* Mutant of GetToken: the first cookie, whatever its name.
GetAnyToken(cookies, name) ==
  IF \E s \in Storage : cookies[s] # None
    THEN cookies[CHOOSE s \in Storage : cookies[s] # None]
    ELSE None

\* CookieSession.GetToken
GetToken(cookies, name) == IF name = None THEN None ELSE cookies[name]

-----------------------------------------------------------------------------
(* What the handlers have in common.                                       *)

\* Login and Register render their form when they return, unless they
\* redirect.
Templated(a) == a.handler \in {"Login", "Register"}

\* Handlers that copy the answer's body, that read a token from it, and that
\* only acknowledge it.
Copies(a)       == a.handler \in {"GetFile", "IndexHTML"}
Acknowledges(a) == a.handler \in {"Upload", "Remove", "ShareText"}

\* The storage whose cookie the handler reads and writes.
Account(a) == IF a.handler = "Register" THEN a.form.storage ELSE a.sp.storage

\* A GET of one of the two forms is answered with the form alone.
AsksForForm(a) == Templated(a) /\ a.method = "GET"

\* Mutant of FormComplete: a registration without a name is let through.
FormCompleteWithoutName(a) ==
  /\ a.handler \in {"Remove", "ShareText"} => a.form.file # None
  /\ a.handler \in {"Login", "ShareText", "Upload"} => a.form.complete

FormComplete(a) ==
  /\ a.handler = "Register" => a.form.storage # None
  /\ a.handler \in {"Remove", "ShareText"} => a.form.file # None
  /\ a.handler \in {"Login", "ShareText", "Upload"} => a.form.complete

\* The forwarded request: the endpoint, the url or form values, the file its
\* payload is about, and the bearer token.
Endpoint(a) ==
  CASE a.handler = "GetFile"   -> "file"
    [] a.handler = "IndexHTML" -> "index.html"
    [] a.handler = "View"      -> "list"
    [] a.handler = "Login"     -> "login"
    [] a.handler = "Register"  -> "register"
    [] a.handler = "Upload"    -> "upload"
    [] a.handler = "Remove"    -> "remove"
    [] a.handler = "ShareText" -> "shareText"

NoValues == [storage |-> None, public |-> FALSE, permanent |-> FALSE,
             file |-> None]

Values(a) ==
  CASE a.handler = "Register" -> [NoValues EXCEPT !.storage = a.form.storage]
    [] a.handler = "Upload"   -> NoValues
    [] OTHER                  -> a.sp

Payload(a) == IF a.handler \in {"Upload", "ShareText"} THEN a.form.file
                                                       ELSE None

Message(a) == [endpoint |-> Endpoint(a), values |-> Values(a),
               payload |-> Payload(a),
               token |-> GetToken(a.cookies, Account(a))]

\* Mutants: a failure discards the header; a refusal is answered with an error
\* and then with the form.
FailedAfresh(a, wr) ==
  LET bare == [wr EXCEPT !.cookies = NoCookies]
  IN  IF Templated(a) THEN Write(WriteJSON(bare), "html") ELSE WriteJSON(bare)

RefusalTwice(a, wr) ==
  IF Templated(a) THEN Write(WriteJSON(wr), "html") ELSE WriteJSON(wr)

\* h.Error, and what is written after it when a handler has failed, and when
\* its request was refused or could not be done.
Failed(a, wr)  == IF Templated(a) THEN Write(WriteJSON(wr), "html")
                                  ELSE WriteJSON(wr)
Refusal(a, wr) == IF Templated(a) THEN Write(wr, "html") ELSE WriteJSON(wr)

\* A panic: what was deferred runs, then RecoverMiddleware writes its error.
\* A value that is no error it recovers and drops: net/http ends the response.
Unwound(a, wr)  == IF Templated(a) THEN Write(wr, "html") ELSE wr
Panicked(a, wr) == WriteJSON(Unwound(a, wr))
Dropped(a, wr)  == WriteHeader(Unwound(a, wr), 200)

-----------------------------------------------------------------------------
Init ==
  /\ jar = [b \in Browser |-> NoCookies]
  /\ issued = [t \in Token |-> None]
  /\ pc = [r \in Req |-> "idle"]
  /\ ask = [r \in Req |-> None]
  /\ rsp = [r \in Req |-> NoAnswer]
  /\ open = [r \in Req |-> FALSE]
  /\ broke = [r \in Req |-> "no"]
  /\ w = [r \in Req |-> Fresh]
  /\ client = [r \in Req |-> "waiting"]

Goto(r, step) == pc' = [pc EXCEPT ![r] = step]

Reply(r, wr) ==
  /\ w' = [w EXCEPT ![r] = wr]
  /\ Goto(r, "reply")

\* Mutant of Return: nothing closes the body.
ReturnOpen(r, wr) ==
  /\ Reply(r, WriteHeader(wr, 200))
  /\ UNCHANGED open

\* The handler returns: the body it deferred to close is closed.  A handler
\* that wrote nothing is given status 200 by net/http.
Return(r, wr) ==
  /\ Reply(r, WriteHeader(wr, 200))
  /\ open' = [open EXCEPT ![r] = FALSE]

-----------------------------------------------------------------------------
(* The browser.                                                            *)

\* Mutant of StoredParameters: the two path variables change places.
StoredParametersSwapped(route, s, f) ==
  [storage   |-> IF route.hasStorage THEN f ELSE None,
   public    |-> route.public,
   permanent |-> route.hasStorage /\ route.permanent,
   file      |-> IF route.hasFile THEN s ELSE None]

\* storeRouterParametes: the permanent flag goes with a storage.
StoredParameters(route, s, f) ==
  [storage   |-> IF route.hasStorage THEN s ELSE None,
   public    |-> route.public,
   permanent |-> route.hasStorage /\ route.permanent,
   file      |-> IF route.hasFile THEN f ELSE None]

Forms(handler) ==
  CASE handler = "Register" -> [storage : MaybeStorage, file : {None},
                                complete : {TRUE}]
    [] handler = "Login"    -> [storage : {None}, file : {None},
                                complete : BOOLEAN]
    [] handler = "Remove"   -> [storage : {None}, file : MaybeFile,
                                complete : {TRUE}]
    [] handler \in {"Upload", "ShareText"} ->
                               [storage : {None}, file : MaybeFile,
                                complete : BOOLEAN]
    [] OTHER                -> {Blank}

Send(r) ==
  /\ pc[r] = "idle"
  /\ \E b \in Browser, route \in Served, s \in Storage, f \in File :
       \E form \in IF route.method = "POST" THEN Forms(route.handler)
                                            ELSE {Blank} :
         ask' = [ask EXCEPT ![r] =
                   [browser |-> b, handler |-> route.handler,
                    method |-> route.method,
                    sp |-> StoredParameters(route, s, f),
                    form |-> form, cookies |-> jar[b]]]
  /\ Goto(r, "handler")
  /\ UNCHANGED <<jar, issued, rsp, open, broke, w, client>>

\* The response's header reaches the browser, with the cookies it sets.
Hear(r) ==
  /\ pc[r] # "idle"
  /\ w[r].status # 0
  /\ client[r] = "waiting"
  /\ client' = [client EXCEPT ![r] = "heard"]
  /\ jar' = [jar EXCEPT ![ask[r].browser] =
               [s \in Storage |-> IF w[r].cookies[s] = None
                                    THEN jar[ask[r].browser][s]
                                    ELSE w[r].cookies[s]]]
  /\ UNCHANGED <<issued, pc, ask, rsp, open, broke, w>>

\* The user closes the page, or the connection is lost.
Abandon(r) ==
  /\ pc[r] # "idle"
  /\ client[r] # "gone"
  /\ client' = [client EXCEPT ![r] = "gone"]
  /\ UNCHANGED <<jar, issued, pc, ask, rsp, open, broke, w>>

\* A cookie outlives its session_expire_period.
Expire(b, s) ==
  /\ jar[b][s] # None
  /\ jar' = [jar EXCEPT ![b][s] = None]
  /\ UNCHANGED <<issued, pc, ask, rsp, open, broke, w, client>>

\* The response is complete; the slot is free for another request.
Finish(r) ==
  /\ pc[r] = "reply"
  /\ client[r] # "waiting"
  /\ Goto(r, "idle")
  /\ ask' = [ask EXCEPT ![r] = None]
  /\ rsp' = [rsp EXCEPT ![r] = NoAnswer]
  /\ open' = [open EXCEPT ![r] = FALSE]
  /\ broke' = [broke EXCEPT ![r] = "no"]
  /\ w' = [w EXCEPT ![r] = Fresh]
  /\ client' = [client EXCEPT ![r] = "waiting"]
  /\ UNCHANGED <<jar, issued>>

-----------------------------------------------------------------------------
(* A handler up to its request to the gateway.                             *)

\* The body of a request cannot be read once its browser is gone.
BodyReadable(r) == ask[r].method = "GET" \/ client[r] # "gone"

ShowForm(r) ==
  /\ pc[r] = "handler"
  /\ AsksForForm(ask[r])
  /\ Reply(r, Write(w[r], "html"))
  /\ UNCHANGED <<jar, issued, ask, rsp, open, broke, client>>

\* A form with something missing never reaches the gateway.
Reject(r) ==
  /\ pc[r] = "handler"
  /\ ~AsksForForm(ask[r])
  /\ ~FormComplete(ask[r]) \/ ~BodyReadable(r)
  /\ Reply(r, Refusal(ask[r], w[r]))
  /\ UNCHANGED <<jar, issued, ask, rsp, open, broke, client>>

\* The body may have been read before its browser went away.
Forward(r) ==
  /\ pc[r] = "handler"
  /\ ~AsksForForm(ask[r])
  /\ FormComplete(ask[r])
  /\ Goto(r, "waiting")
  /\ UNCHANGED <<jar, issued, ask, rsp, open, broke, w, client>>

-----------------------------------------------------------------------------
(* The gateway.                                                            *)

\* The storage the gateway takes the message to be about.
Subject(m) == IF m.token # None THEN issued[m.token].storage
                                ELSE m.values.storage

\* The tokens the gateway can hand out: each one once.
Unissued == {t \in Token : issued[t] = None}

\* A 200 answer.  It may refresh the token of its subject in X-Token; that of
\* a login or registration carries the token of the named storage.
Accept(r) ==
  LET m == Message(ask[r])
      grant(s) == [browser |-> ask[r].browser, storage |-> s]
  IN  /\ pc[r] = "waiting"
      /\ \E x \in IF Subject(m) = None THEN {None} ELSE Unissued \cup {None} :
         \E t \in IF Templated(ask[r]) THEN Unissued \ {x} ELSE {None} :
           /\ rsp' = [rsp EXCEPT ![r] =
                        [kind |-> "ok", xtoken |-> x, token |-> t]]
           /\ issued' = [u \in Token |->
                           IF u = x THEN grant(Subject(m))
                           ELSE IF u = t THEN grant(m.values.storage)
                           ELSE issued[u]]
      /\ open' = [open EXCEPT ![r] = TRUE]
      /\ Goto(r, "answered")
      /\ UNCHANGED <<jar, ask, broke, w, client>>

\* Any other status, whatever its body.
Refuse(r) ==
  /\ pc[r] = "waiting"
  /\ rsp' = [rsp EXCEPT ![r] = [NoAnswer EXCEPT !.kind = "refused"]]
  /\ open' = [open EXCEPT ![r] = TRUE]
  /\ Goto(r, "answered")
  /\ UNCHANGED <<jar, issued, ask, broke, w, client>>

\* Do fails: nothing tells whether the gateway performed the request.
TransportError(r) ==
  /\ pc[r] = "waiting"
  /\ rsp' = [rsp EXCEPT ![r] = [NoAnswer EXCEPT !.kind = "error"]]
  /\ Goto(r, "answered")
  /\ UNCHANGED <<jar, issued, ask, open, broke, w, client>>

Gateway(r) == Accept(r) \/ Refuse(r) \/ TransportError(r)

-----------------------------------------------------------------------------
(* processRequest, once Do has returned.                                   *)

\* Mutant of ProcessRefused: a request that could not be done is repeated.
ProcessRefusedRetries(r) ==
  /\ pc[r] = "answered"
  /\ rsp[r].kind \in {"error", "refused"}
  /\ IF rsp[r].kind = "error"
       THEN Goto(r, "waiting") /\ UNCHANGED w
       ELSE Reply(r, Refusal(ask[r], w[r]))
  /\ UNCHANGED <<jar, issued, ask, rsp, open, broke, client>>

\* The error paths return without closing the body of a refusal.
ProcessRefused(r) ==
  /\ pc[r] = "answered"
  /\ rsp[r].kind \in {"error", "refused"}
  /\ Reply(r, Refusal(ask[r], w[r]))
  /\ UNCHANGED <<jar, issued, ask, rsp, open, broke, client>>

\* Mutant of ProcessOK: the status is not looked at.
ProcessAnyStatus(r) ==
  /\ pc[r] = "answered"
  /\ rsp[r].kind # "error"
  /\ w' = [w EXCEPT ![r] = IF rsp[r].xtoken = None THEN w[r]
                           ELSE SetToken(w[r], rsp[r].xtoken,
                                         Account(ask[r]))]
  /\ Goto(r, "relay")
  /\ UNCHANGED <<jar, issued, ask, rsp, open, broke, client>>

ProcessOK(r) ==
  /\ pc[r] = "answered"
  /\ rsp[r].kind = "ok"
  /\ w' = [w EXCEPT ![r] = IF rsp[r].xtoken = None THEN w[r]
                           ELSE SetToken(w[r], rsp[r].xtoken,
                                         Account(ask[r]))]
  /\ Goto(r, "relay")
  /\ UNCHANGED <<jar, issued, ask, rsp, open, broke, client>>

-----------------------------------------------------------------------------
(* A handler on a 200 answer.                                              *)

\* io.Copy passes on what it has read so far.
CopyChunk(r) ==
  /\ pc[r] = "relay"
  /\ Copies(ask[r])
  /\ "data" \notin w[r].body
  /\ w' = [w EXCEPT ![r] = Write(w[r], "data")]
  /\ UNCHANGED <<jar, issued, pc, ask, rsp, open, broke, client>>

CopyDone(r) ==
  /\ pc[r] = "relay"
  /\ Copies(ask[r])
  /\ Return(r, w[r])
  /\ UNCHANGED <<jar, issued, ask, rsp, broke, client>>

\* json.Decode of the list, then the template.
RenderView(r) ==
  /\ pc[r] = "relay"
  /\ ask[r].handler = "View"
  /\ Return(r, Write(w[r], "html"))
  /\ UNCHANGED <<jar, issued, ask, rsp, broke, client>>

\* The template cannot be written to a browser that is gone.
RenderFails(r) ==
  /\ pc[r] = "relay"
  /\ ask[r].handler = "View"
  /\ client[r] = "gone"
  /\ Return(r, WriteJSON(Write(w[r], "html")))
  /\ broke' = [broke EXCEPT ![r] = "client"]
  /\ UNCHANGED <<jar, issued, ask, rsp, client>>

\* Mutant of SignedIn: renderTemplate is left set, so the form follows the
\* redirect.
SignedInRenders(r) ==
  /\ pc[r] = "relay"
  /\ Templated(ask[r])
  /\ LET set == SetToken(w[r], rsp[r].token, Account(ask[r]))
     IN  Return(r, Write(WriteHeader(set, 302), "html"))
  /\ UNCHANGED <<jar, issued, ask, rsp, broke, client>>

\* Login and Register: the token is set and the browser sent to "/<storage>".
SignedIn(r) ==
  /\ pc[r] = "relay"
  /\ Templated(ask[r])
  /\ Return(r, WriteHeader(SetToken(w[r], rsp[r].token, Account(ask[r])),
                           302))
  /\ UNCHANGED <<jar, issued, ask, rsp, broke, client>>

\* io.Copy, json.Decode or ioutil.ReadAll fails on the answer's body.
ReadFails(r) ==
  /\ pc[r] = "relay"
  /\ ~Acknowledges(ask[r])
  /\ Return(r, Failed(ask[r], w[r]))
  /\ broke' = [broke EXCEPT ![r] = "body"]
  /\ UNCHANGED <<jar, issued, ask, rsp, client>>

\* Upload, Remove and ShareText do not read the answer's body.
Acknowledge(r) ==
  /\ pc[r] = "relay"
  /\ Acknowledges(ask[r])
  /\ Return(r, WriteHeader(w[r], 200))
  /\ UNCHANGED <<jar, issued, ask, rsp, broke, client>>

\* A panic before the forwarded request or while its answer is worked on, with
\* an error or with any other value.
Panic(r) ==
  /\ pc[r] \in {"handler", "relay"}
  /\ \/ /\ Return(r, Panicked(ask[r], w[r]))
        /\ broke' = [broke EXCEPT ![r] = "panic"]
     \/ /\ Return(r, Dropped(ask[r], w[r]))
        /\ broke' = [broke EXCEPT ![r] = "swallowed"]
  /\ UNCHANGED <<jar, issued, ask, rsp, client>>

\* A panic in processRequest: the handler has not deferred the Close yet.
PanicEarly(r) ==
  /\ pc[r] = "answered"
  /\ Reply(r, Panicked(ask[r], w[r])) \/ Reply(r, Dropped(ask[r], w[r]))
  /\ broke' = [broke EXCEPT ![r] = "early"]
  /\ UNCHANGED <<jar, issued, ask, rsp, open, client>>

\* Steps that wait for nothing but the goroutine and the browser's own form,
\* and steps that also wait for the gateway's answer to end or for a slow
\* browser to take it.  Nothing has to panic.
HandlerStep(r) ==
  ShowForm(r) \/ Reject(r) \/ Forward(r) \/ ProcessOK(r) \/ Acknowledge(r)

BodyStep(r) ==
  \/ ProcessRefused(r)
  \/ CopyChunk(r) \/ CopyDone(r)
  \/ RenderView(r) \/ RenderFails(r)
  \/ SignedIn(r) \/ ReadFails(r)

BrowserStep(r) == Send(r) \/ Hear(r) \/ Abandon(r) \/ Finish(r)

Next ==
  \/ \E r \in Req :
       \/ BrowserStep(r) \/ Gateway(r)
       \/ HandlerStep(r) \/ BodyStep(r) \/ Panic(r) \/ PanicEarly(r)
  \/ \E b \in Browser, s \in Storage : Expire(b, s)

Spec == Init /\ [][Next]_vars

\* The goroutine of a request is scheduled, the browser sends the form it
\* announced or goes away, and the connection delivers a header that was
\* written unless the browser goes away.
Fairness == \A r \in Req : WF_vars(HandlerStep(r)) /\ WF_vars(Hear(r))

\* Nothing in the handlers bounds the wait for the gateway: that it answers,
\* and that the body of its answer ends, or that the connection to it drops
\* in the end is assumed, not implemented.
GatewayAnswers == \A r \in Req : WF_vars(Gateway(r)) /\ WF_vars(BodyStep(r))

FairSpec == Spec /\ Fairness /\ GatewayAnswers

-----------------------------------------------------------------------------
(* Properties.                                                             *)

\* Every variable holds a value of its kind.
TypeOK ==
  /\ jar \in [Browser -> Cookies]
  /\ issued \in [Token -> Grant \cup {None}]
  /\ pc \in [Req -> Step]
  /\ ask \in [Req -> Ask \cup {None}]
  /\ \A r \in Req : pc[r] # "idle" => ask[r] \in Ask
  /\ rsp \in [Req -> Answer]
  /\ open \in [Req -> BOOLEAN]
  /\ broke \in [Req -> Breakage]
  /\ w \in [Req -> Response]
  /\ client \in [Req -> Client]

\* The step on which the browser of r reads the header of its response.
Heard(r) == client[r] = "waiting" /\ client'[r] = "heard"

\* A token the gateway issued to one browser for one storage is never kept in
\* another jar or under another name, and never presented for another browser
\* or another account (processRequest, GetToken, SetToken and the handlers
\* that name the cookie).
JarIsolation ==
  \A b \in Browser, s \in Storage :
    jar[b][s] # None => issued[jar[b][s]] = [browser |-> b, storage |-> s]

PresentedIsolation ==
  \A r \in Req :
    LET a == ask[r]
    IN  pc[r] = "waiting" /\ Message(a).token # None
          => issued[Message(a).token]
               = [browser |-> a.browser, storage |-> Account(a)]

TokenIsolation == JarIsolation /\ PresentedIsolation

\* The same for every place a token passes through on its way: the cookies a
\* handler was called with, the answer it works on, the header it writes.
SnapshotIsolation ==
  \A r \in Req, s \in Storage :
    pc[r] # "idle" /\ ask[r].cookies[s] # None
      => issued[ask[r].cookies[s]]
           = [browser |-> ask[r].browser, storage |-> s]

AnswerIsolation ==
  \A r \in Req :
    pc[r] \in {"answered", "relay"} =>
      \A t \in {rsp[r].xtoken, rsp[r].token} \ {None} :
        issued[t] = [browser |-> ask[r].browser, storage |-> Account(ask[r])]

PendingIsolation ==
  \A r \in Req, s \in Storage :
    pc[r] # "idle" /\ w[r].cookies[s] # None
      => issued[w[r].cookies[s]]
           = [browser |-> ask[r].browser, storage |-> s]

\* A request under way was routed with a storage unless it registers one, and
\* has passed its form's checks once it is forwarded; a free slot is blank.
RequestOK ==
  \A r \in Req :
    /\ pc[r] = "idle" => w[r] = Fresh
    /\ pc[r] # "idle" /\ ask[r].handler # "Register"
         => ask[r].sp.storage # None
    /\ pc[r] \in {"waiting", "answered", "relay"} => FormComplete(ask[r])

\* The inductive invariant behind TokenIsolation.
SessionInv == /\ TypeOK
        /\ RequestOK
        /\ JarIsolation
        /\ SnapshotIsolation
        /\ AnswerIsolation
        /\ PendingIsolation

\* What a browser is told has succeeded, the gateway has confirmed for this
\* very request: a redirect after login or registration and a 200 of every
\* handler without a form of its own follow a 200 answer (processRequest's
\* status check, the error returns of the handlers).  The one exception is an
\* empty 200 after a panic that RecoverMiddleware has swallowed: a panic with
\* an error never looks like a success.
SuccessIsConfirmed ==
  \A r \in Req : pc[r] = "reply" =>
    /\ w[r].status = 302 => rsp[r].kind = "ok" /\ Templated(ask[r])
    /\ w[r].status = 200 /\ ~Templated(ask[r])
         => \/ rsp[r].kind = "ok"
            \/ broke[r] \in {"swallowed", "early"} /\ w[r].body = {}

\* Unless the answer's body or the handler broke off, a response is one
\* answer: an empty redirect, an error document with the error status, or a
\* page, a file or nothing with status 200 (the early returns, renderTemplate).
\* A file is never sent under the error status.
OneAnswer ==
  \A r \in Req : pc[r] = "reply" =>
    /\ "data" \in w[r].body => w[r].status = 200
    /\ \/ broke[r] # "no"
       \/ w[r].status = 302 /\ w[r].body = {}
       \/ w[r].status = 400 /\ w[r].body = {"json"}
       \/ w[r].status = 200 /\ w[r].body \in {{}, {"html"}, {"data"}}

\* A handler that has returned has closed the body of the answer it was given,
\* panics included (the deferred Close of every handler): what stays open is
\* the body of a refusal, which processRequest keeps to itself, or one on
\* which processRequest panicked, which no handler was given.
BodiesClosed ==
  \A r \in Req : pc[r] = "reply" /\ open[r]
    => rsp[r].kind = "refused" \/ broke[r] = "early"

\* A refreshed token that the gateway sent with a 200 answer reaches the jar
\* with the response's header, even when the handler fails or panics later,
\* unless the token of a login replaces it (processRequest sets it before the
\* handler writes anything).  Only a panic in processRequest itself loses it.
RefreshKept ==
  \A r \in Req :
    LET a == ask[r]
    IN  Heard(r) /\ rsp[r].xtoken # None /\ w[r].status # 302
          /\ broke[r] # "early" /\ Account(a) \in CookieSafe
        => jar'[a.browser][Account(a)] = rsp[r].xtoken

RefreshNeverLost == [][RefreshKept]_vars

\* A browser that is redirected after a login or a registration holds the
\* token its body carried, not one the answer's header carried, for every
\* storage whose name can name a cookie (SetToken, then http.Redirect).
LoginStored ==
  \A r \in Req :
    LET a == ask[r]
    IN  Heard(r) /\ w[r].status = 302 /\ Account(a) \in CookieSafe
        => jar'[a.browser][Account(a)] = rsp[r].token

LoginEstablishesSession == [][LoginStored]_vars

\* A cookie only comes from a response of this browser about this storage
\* that the gateway answered with 200: a refused or failed request, and a
\* request about another storage, leaves the session as it was.
JarWrittenByOwner ==
  \A b \in Browser, s \in Storage :
    jar'[b][s] \notin {None, jar[b][s]} =>
      \E r \in Req : /\ Heard(r)
                     /\ ask[r].browser = b
                     /\ Account(ask[r]) = s
                     /\ rsp[r].kind = "ok"

SessionOnlyFromAnswer == [][JarWrittenByOwner]_vars

\* How the gateway's answer and the response of one request go together at
\* each of its steps: nothing is written before the answer is known to be a
\* success or a failure, and what is written and set then depends on it.
WrittenInOrder(step, a, answer, isOpen, broken, wr) ==
  /\ step \in {"idle", "handler", "waiting"} => answer = NoAnswer /\ ~isOpen
  /\ step \in {"idle", "handler", "waiting", "answered"} => wr = Fresh
  /\ step # "reply" => broken = "no"
  /\ answer.kind # "ok" => answer.xtoken = None
  /\ step = "answered" /\ isOpen => answer.kind # "error"
  /\ step = "relay" =>
       /\ answer.kind = "ok"
       /\ \/ wr.status = 0 /\ wr.body = {}
          \/ wr.status = 200 /\ wr.body = {"data"} /\ Copies(a)
  /\ step \in {"answered", "relay"} /\ answer.kind = "ok" /\ Templated(a)
       => answer.token # None
  /\ step = "reply" =>
       /\ wr.status = 302 => /\ answer.kind = "ok" /\ answer.token # None
                             /\ Templated(a) /\ broken = "no"
       /\ wr.status = 200 /\ ~Templated(a)
            => \/ answer.kind = "ok"
               \/ broken \in {"swallowed", "early"} /\ wr.body = {}
       /\ isOpen => answer.kind = "refused" \/ broken = "early"
       /\ "data" \in wr.body => wr.status = 200
       /\ \/ broken # "no"
          \/ wr.status = 302 /\ wr.body = {}
          \/ wr.status = 400 /\ wr.body = {"json"}
          \/ wr.status = 200 /\ wr.body \in {{}, {"html"}, {"data"}}

\* The cookies a response sets: the session of the request's account, once the
\* gateway has answered with 200, and the last token of that answer.
CookiesInOrder(step, a, answer, broken, wr) ==
  /\ step # "idle" => \A s \in Storage :
       wr.cookies[s] # None => answer.kind = "ok" /\ s = Account(a)
  /\ step \in {"relay", "reply"} /\ answer.kind = "ok" /\ broken # "early"
       /\ Account(a) \in CookieSafe
     => wr.cookies[Account(a)]
          = IF wr.status = 302 THEN answer.token ELSE answer.xtoken

\* The inductive invariant behind the properties of responses.
AnswerInv ==
  \A r \in Req :
    /\ WrittenInOrder(pc[r], ask[r], rsp[r], open[r], broke[r], w[r])
    /\ CookiesInOrder(pc[r], ask[r], rsp[r], broke[r], w[r])

\* Under fairness of the goroutines, and of the gateway, every request is
\* answered, and the browser that waits for it learns of it.
EveryRequestAnswered ==
  \A r \in Req : pc[r] = "handler"
                   ~> pc[r] = "reply" /\ client[r] # "waiting"

-----------------------------------------------------------------------------
(* What the comments of the source say, and the code does not do.          *)

\* RemoveHandler: "removes current file from storage".  The file the browser
\* named is named in the forwarded request.
RemoveNamesFile ==
  \A r \in Req :
    pc[r] = "waiting" /\ ask[r].handler = "Remove"
      => ask[r].form.file \in {Message(ask[r]).values.file,
                               Message(ask[r]).payload}

\* UploadHandler: "upload file to storage".  The forwarded request names the
\* folder the file was dropped on.
UploadNamesFolder ==
  \A r \in Req :
    pc[r] = "waiting" /\ ask[r].handler = "Upload"
      => /\ Message(ask[r]).values.storage = ask[r].sp.storage
         /\ Message(ask[r]).values.permanent = ask[r].sp.permanent

\* GetFileHandler: "get single file from storage".  A file that a browser
\* receives with status 200 is the whole file.
FileArrivesWhole ==
  \A r \in Req :
    pc[r] = "reply" /\ ask[r].handler = "GetFile" /\ client[r] = "heard"
      /\ w[r].status = 200
    => broke[r] # "body"

\* LoginHandler: "sign in for the existing storage(user)".  A browser that is
\* sent on after the login is given the token the gateway answered with.
LoginAlwaysSignsIn ==
  \A r \in Req :
    LET a == ask[r]
    IN  pc[r] = "reply" /\ a.handler = "Login" /\ w[r].status = 302
          => w[r].cookies[Account(a)] = rsp[r].token
=============================================================================
