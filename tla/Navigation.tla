----------------------------- MODULE Navigation -----------------------------
(***************************************************************************)
(* A browser that walks through the pages of the service: it follows the    *)
(* redirects of the router and of the handlers, and the links, forms and    *)
(* scripts of the templates, whose addresses are relative to the page they  *)
(* are on.  Routes says what each request ends in.                          *)
(*                                                                         *)
(* Two places write a name into an address without escaping it: the link to *)
(* a file in view.html, of which html/template keeps "#", "?" and "%xx", and *)
(* the redirect to "/<storage>" after a login or registration.  What comes  *)
(* of a name there is a constant: an ordinary name is itself, "a#b" and     *)
(* "a?b" are "a", "%61" is "a", and "a/b" is two segments.                  *)
(***************************************************************************)
EXTENDS Routes

CONSTANTS
  Typed,         \* the paths a user may enter in the address bar
  StorageName,   \* the storages there are or can be registered
  FileName,      \* the files a folder may list
  Link(_),       \* the relative address that a name is as a link
  Inert,         \* names whose link requests nothing: see OpenNothing
  Location(_),   \* the path that "/<name>" is as the address of a redirect
  Malformed      \* names with which it is no address: see SentAstray

ASSUME TypedAssumption == Typed \subseteq Path
ASSUME NamesAssumption == StorageName \cup FileName \subseteq Segment \ {NoName}
ASSUME AddressAssumption ==
  \A name \in Segment : Link(name) \in Path /\ Location(name) \in Path

VARIABLES
  page,     \* the document shown: its path, and what it is
  going,    \* the request under way: where to, how, and on behalf of what
  goal,     \* what the user's last action was for
  took,     \* what the service took the last request for
  hops      \* redirects followed since that action

vars == <<page, going, goal, took, hops>>

-----------------------------------------------------------------------------
(* What the service makes of a request: a handler and the folder or file    *)
(* it works on, or an error page.                                           *)

NoFolder == [storage |-> NoName, permanent |-> FALSE, file |-> NoName]

Work(handler, storage, permanent, file) ==
  [handler |-> handler, storage |-> storage, permanent |-> permanent,
   file |-> file]

Nothing == Work("Nothing", NoName, FALSE, NoName)

WorkOf(d) ==
  IF d.kind = "handler"
    THEN Work(d.handler, d.sp.storage, d.sp.permanent, d.sp.file)
    ELSE Work(d.kind, NoName, FALSE, NoName)

\* The address of a relative link: it replaces what follows the last slash.
Resolve(path, segs, slash) ==
  LET base == IF path.slash THEN path.segs
                            ELSE SubSeq(path.segs, 1, Len(path.segs) - 1)
  IN  [segs |-> base \o segs, slash |-> slash]

Get(path)  == [method |-> "GET", path |-> path, script |-> FALSE]
Post(path) == [method |-> "POST", path |-> path, script |-> FALSE]
Ajax(path) == [method |-> "POST", path |-> path, script |-> TRUE]

NotGoing == [method |-> "none", path |-> Root, script |-> FALSE]

Idle == going = NotGoing

NewTab == [path |-> Root, is |-> Nothing]

-----------------------------------------------------------------------------
Init ==
  /\ page = NewTab
  /\ going = NotGoing
  /\ goal = Nothing
  /\ took = Nothing
  /\ hops = 0

Go(request, aim) ==
  /\ Idle
  /\ going' = request
  /\ goal' = aim
  /\ hops' = 0
  /\ UNCHANGED <<page, took>>

\* An address is entered in a new tab, with no goal: any answer will do.
OpenTab ==
  /\ Idle
  /\ page # NewTab
  /\ page' = NewTab
  /\ took' = Nothing
  /\ goal' = Nothing
  /\ hops' = 0
  /\ UNCHANGED going

Enter ==
  /\ Idle
  /\ page = NewTab
  /\ \E path \in Typed : Go(Get(path), Nothing)

-----------------------------------------------------------------------------
(* The links and requests of view.html.                                    *)

OnView == page.is.handler = "View"

\* The link to the permanent folder is on every page that is not permanent.
OpenPermanent ==
  /\ OnView
  /\ ~page.is.permanent
  /\ Go(Get(Resolve(page.path, <<"permanent">>, FALSE)),
        Work("View", page.is.storage, TRUE, NoName))

FileWork(name) ==
  Work("GetFile", page.is.storage, page.is.permanent, name)

OpenFile(name) ==
  /\ OnView
  /\ name \notin Inert
  /\ Go(Get(Resolve(page.path, Link(name).segs, Link(name).slash)),
        FileWork(name))

\* html/template replaces a name that begins like an address of an unknown
\* scheme by "#ZgotmplZ", which like "#..." stays on the page; "http:...",
\* "https:..." and "mailto:..." it keeps, and they lead away.
OpenNothing(name) ==
  /\ Idle
  /\ OnView
  /\ name \in Inert
  /\ page' \in {page, NewTab}
  /\ goal' = FileWork(name)
  /\ took' = Nothing
  /\ hops' = 0
  /\ UNCHANGED going

\* Mutant of PageAction: the address lacks its final slash.
PageActionWithoutSlash(segment, handler) ==
  /\ OnView
  /\ Go(Ajax(Resolve(page.path, <<segment>>, FALSE)),
        Work(handler, page.is.storage, page.is.permanent, NoName))

\* The dropzone form, removeFileRequest and the text sharing box.
PageAction(segment, handler) ==
  /\ OnView
  /\ Go(Ajax(Resolve(page.path, <<segment>>, TRUE)),
        Work(handler, page.is.storage, page.is.permanent, NoName))

UploadFile == PageAction("upload", "Upload")
RemoveFile == PageAction("remove", "Remove")
ShareText  == PageAction("shareText", "ShareText")

\* location.reload() after an upload or a shared text, and by hand.
Reload ==
  /\ OnView
  /\ Go(Get(page.path), page.is)

-----------------------------------------------------------------------------
(* login.html and register.html post to the address they are shown at.      *)

SubmitLogin ==
  /\ page.is.handler = "Login"
  /\ Go(Post(page.path), Work("View", page.is.storage, FALSE, NoName))

SubmitRegister(name) ==
  /\ page.is.handler = "Register"
  /\ Go(Post(page.path), Work("View", name, FALSE, NoName))

-----------------------------------------------------------------------------
(* The service answers.                                                    *)

\* A browser repeats a redirected request as a GET.
Redirected(path) ==
  /\ going' = [Get(path) EXCEPT !.script = going.script]
  /\ hops' = hops + 1
  /\ UNCHANGED <<page, goal, took>>

\* A document is shown; the answer to a script, and a file, which is sent as
\* an attachment, leave the page as it was.
Answered(work, document) ==
  /\ took' = work
  /\ page' = IF going.script THEN page ELSE document
  /\ going' = NotGoing
  /\ UNCHANGED hops

Document(work) == [path |-> going.path, is |-> work]

CommonPath == [segs |-> <<"common">>, slash |-> TRUE]

\* http.Redirect cleans the address of a storage before it sends it.
StoragePath(name) == CleanPath(Location(name))

RouterRedirects(answer) ==
  /\ answer.kind = "redirect"
  /\ Redirected(answer.path)

RootRedirects(answer) ==
  /\ WorkOf(answer).handler = "RedirectToCommon"
  /\ Redirected(CommonPath)

\* LoginHandler and RegisterHandler, on success: the name comes from the path
\* or from the form.
SignsIn(answer) ==
  going.method = "POST" /\ WorkOf(answer).handler \in {"Login", "Register"}

SignedInto(answer) ==
  IF WorkOf(answer).handler = "Login" THEN WorkOf(answer).storage
                                      ELSE goal.storage

SignedIn(answer) ==
  /\ SignsIn(answer)
  /\ SignedInto(answer) \notin Malformed
  /\ Redirected(StoragePath(SignedInto(answer)))

\* A stray "%": http.Redirect sends the address on as it is, and net/http
\* answers the request for it with status 400 before it is routed.
SentAstray(answer) ==
  /\ SignsIn(answer)
  /\ SignedInto(answer) \in Malformed
  /\ Answered(Nothing, Document(Nothing))
  /\ UNCHANGED goal

\* The form is shown again, and the user's goal is given up.
SignInFails(answer) ==
  /\ SignsIn(answer)
  /\ Answered(WorkOf(answer), Document(WorkOf(answer)))
  /\ goal' = IF going.script THEN goal ELSE Nothing

\* Mutant of Ends: the root is a page of its own.
EndsAtRoot(answer) ==
  /\ answer.kind # "redirect"
  /\ WorkOf(answer).handler \in {"Login", "Register"} => going.method = "GET"

Ends(answer) ==
  /\ answer.kind # "redirect"
  /\ WorkOf(answer).handler # "RedirectToCommon"
  /\ WorkOf(answer).handler \in {"Login", "Register"} => going.method = "GET"

Shown(answer) ==
  /\ Ends(answer)
  /\ Answered(WorkOf(answer), IF WorkOf(answer).handler = "GetFile"
                                THEN page ELSE Document(WorkOf(answer)))
  /\ UNCHANGED goal

\* The gateway refuses: an error document, which leads nowhere.
ErrorShown(answer) ==
  /\ Ends(answer)
  /\ answer.kind = "handler"
  /\ Answered(WorkOf(answer), Document(Nothing))
  /\ UNCHANGED goal

Serve ==
  /\ ~Idle
  /\ LET answer == Dispatch(going.method, going.path)
     IN  \/ RouterRedirects(answer) \/ RootRedirects(answer)
         \/ SignedIn(answer) \/ SentAstray(answer) \/ SignInFails(answer)
         \/ Shown(answer) \/ ErrorShown(answer)

Next ==
  \/ OpenTab \/ Enter
  \/ OpenPermanent
  \/ \E name \in FileName : OpenFile(name) \/ OpenNothing(name)
  \/ UploadFile \/ RemoveFile \/ ShareText \/ Reload
  \/ SubmitLogin
  \/ \E name \in StorageName : SubmitRegister(name)
  \/ Serve

Spec == Init /\ [][Next]_vars

-----------------------------------------------------------------------------
(* Properties.                                                             *)

\* Every variable holds a value of its kind, and what is shown is something
\* that is answered with a document.
TypeOK ==
  /\ page.path \in Path
  /\ going.method \in {"none", "GET", "POST"}
  /\ going.path \in Path
  /\ hops \in Nat
  /\ page.is.handler \in {"Nothing", "NotFound", "MethodNotAllowed",
                         "Metrics", "Resources", "Register", "Login",
                         "IndexHTML", "View"}
  /\ \A work \in {page.is, goal, took} :
       DOMAIN work = {"handler", "storage", "permanent", "file"}

\* The names the table spells out as the first segment of a path, those it
\* spells out after the storage in a route that a link leads to, and the names
\* that no path keeps.
ReservedStorage == {"metrics", "res", "register", "login"}

Shadowed(work) ==
  \/ work.storage \in ReservedStorage \cup {".", ".."}
  \/ work.file \in {".", ".."}
  \/ work.file = "index.html"
  \/ work.file = "permanent" /\ ~work.permanent

\* A name that an address keeps as it is.
ItselfIn(address, name) == address = [segs |-> <<name>>, slash |-> FALSE]

\* What is looked for by an address that does not keep its name: a file, and
\* the folder that a login or registration leads to.
Misspelt(work) ==
  \/ /\ work.handler = "GetFile"
     /\ work.file \in Inert \/ ~ItselfIn(Link(work.file), work.file)
  \/ /\ work.handler = "View" /\ ~work.permanent
     /\ \/ work.storage \in Malformed
        \/ ~ItselfIn(Location(work.storage), work.storage)

\* Whatever the page offers ends where it says: the link, form or script of a
\* page is taken, through every redirect, for the same storage and the same of
\* its two folders, by the handler it is meant for, and a login or
\* registration ends on the page of its storage (the order of the route
\* table, StrictSlash, and the relative addresses of the templates).  Names
\* the table takes, and names an address changes, are excepted.
GoalReached ==
  Idle /\ goal # Nothing /\ ~Shadowed(goal) /\ ~Misspelt(goal)
    => took = goal

\* A browser turns a redirected POST into a GET and drops its form.  Only an
\* accepted login or registration redirects a POST that a page sent: uploads,
\* removals and texts go straight to their handler.
ScriptsNotRedirected ==
  [][ going.script /\ going' # NotGoing /\ goal.storage \notin ReservedStorage
        => going' = going ]_vars

\* The redirects of cleanPath, of StrictSlash, of "/" and of the sign-in
\* handlers never chain into more than two: no request is redirected for ever.
AtMostTwoHops == hops <= 2

-----------------------------------------------------------------------------
(* What a comment of the source says, and the code does not do.            *)

\* RegisterHandler: "register a new storage(user)".  Whoever has registered a
\* storage is sent to its page.
RegisteredIsReachable ==
  Idle /\ goal.handler = "View" /\ ~goal.permanent => took = goal
=============================================================================
