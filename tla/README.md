# Formal models of the filesharing web service

The repository is a small HTTP service. Browsers ask it for pages, files and
uploads; it forwards each request to a *gateway* over HTTP, turns the answer
into a page or a file, and keeps one session cookie for every storage (a
storage is a user account with an ordinary and a permanent folder). This
directory holds TLA+ models of it, the TLC configurations that check them on
small instances, and proofs that TLAPS checks for every instance.

    tlc -workers 2 -config MCWebService_sessions.cfg MCWebService
    tlc -workers 2 -config MCDropzone_queue.cfg MCDropzone
    tlapm WebServiceProofs.tla

The models fall in two halves: the service (routes, handlers, sessions, the life
of the process) and the scripts of its storage page (the upload queue, thumbnails,
the text sharing dialog, and the widgets that come with it). No page of the service
uses the carousel, the collapse or the tooltip: they are modelled as the library's code
that the service delivers with its pages, and what their runs show is about that code.

## 1. The system

| component | code | state | operations | modules |
|---|---|---|---|---|
| router | `internal/router/router.go` | the route table | `MakeRoutes`, `storeRouterParametes` | `Routes` |
| mux | `vendor/github.com/gorilla/mux` | none at run time | `cleanPath`, matching in order, StrictSlash redirects, 404/405 | `Routes` |
| handlers | `internal/handler/*.go` | per request: cookies, form, gateway answer, open body, response | the eight handlers, `processRequest`, `make*Request`, `RecoverMiddleware` | `WebService` |
| cookie session | `internal/wrapper/cookie_session.go` | none in the service; the cookie jars of the browsers | `GetToken`, `SetToken` | `WebService` |
| http errors | `vendor/.../pkg/httperror` | none | `WriteJSON` | `WebService` |
| request context | `vendor/.../pkg/ctxinfo` | values of one request | store, read back | `Routes`, `WebService` |
| pages | `internal/template/html/*.html` | the document a browser shows | links, forms, `$.ajax` calls, `location.reload` | `Navigation`, `Dropzone`, `Modal` |
| upload queue | `internal/template/res/dropzone/dropzone.js` | files, their status, open requests, timers | add (dialog, drop, directory), accept, queue, process, finish, cancel, remove, `queuecomplete` | `Dropzone`, `UploadPool` |
| thumbnails | same | queue of images, one reader or decoder | `_enqueueThumbnail`, `_processThumbnailQueue`, `createThumbnail`, `resize`, `detectVerticalSquash` | `ThumbnailQueue`, `ThumbnailImage` |
| page start | same, with `view.html` | listeners of the document, boxes | `contentLoaded`, `discover`, the constructor's exceptions | `Startup` |
| text sharing dialog | `internal/template/res/bootstrap/js/bootstrap.js` | flags, backdrop, callbacks of transitions | `show`, `hide`, `backdrop`, `hideModal` | `Modal`, `Dialog` |
| carousel (no page uses it) | same | active item, sliding, timer, calls that wait | `next`, `prev`, `to`, `pause`, `cycle`, `slide` | `Carousel` |
| collapse (no page uses it) | same | classes, objects, flags of panels | `show`, `hide`, `toggle`, the constructor | `Collapse` |
| tooltip (no page uses it) | same | hover state, timeout, transitions, position | `enter`, `leave`, `show`, `hide`, `destroy`, `applyPlacement` | `Tooltip`, `TooltipPlacement` |
| service runner | `vendor/.../pkg/service/application.go` | HTTP server, rpc service, post actions | `Run`: start, stop, shutdown within a minute | `Lifecycle` |
| configuration | `cmd/web/main.go`, `pkg/service/config.go` | settings | `loadConfig`, `Validate` | `Lifecycle` |
| gateway | not in this repository | accounts, files, tokens | the eight endpoints the handlers call | part of `WebService` |

**How they interact.** net/http starts a goroutine for each request. The router
matches it against the table, puts the storage, file and two flags of the route
into the request's context and calls the handler. The handler reads the form
and the cookie named after the storage, forwards one request to the gateway with
that cookie as bearer token, and waits. A 200 answer may carry a fresh token in
`X-Token`; the answer to a login or registration carries the token in its body.
Both become the cookie of that storage. The service keeps no session state of
its own: what it knows lives in the browsers' jars and travels with requests,
so all sharing between requests is through the jars and the gateway.
The page's scripts run in the browser, one task of its event loop at a time. They
reach the service only by requests: uploads, removals, shared texts, the reload.

**What is hard about it.**

- *Interleaving.* One browser has several requests under way, for several
  storages; each reads the jar as it was when it was sent and writes it when
  its header arrives. Tokens must not cross storages or browsers.
- *Order inside a response.* Cookies leave with the first write of a response.
  Handlers write on many paths (deferred templates, error documents, copied
  bodies, the recovery middleware), so what is set or written after that is lost
  or appended.
- *Partial failure.* The gateway refuses, cannot be reached, breaks off in its
  body; the browser goes away; the handler panics between any two of these, and
  `RecoverMiddleware` answers for it only when the value is an `error`.
- *Waiting.* Nothing bounds the wait for the gateway.
- *Routes.* Patterns overlap (`/{storage}/{file}/`, `/login/{storage}/`,
  `/{storage}/permanent/`); their order, the methods, StrictSlash and the
  relative addresses in the pages have to agree. Names become addresses without escaping.
- *The page.* Callbacks run inside of callbacks: the page's listener of `canceled`
  removes the file that is being removed, `complete` is emitted before the next
  files start, `queuecomplete` reloads the page from a timer while files are added.
- *Transitions.* The widgets start CSS transitions and leave callbacks to their end.
  What the user does in between takes nothing back; the callbacks have to find out.
- *The end.* A minute is all that requests under way are given, and a request may
  wait for the gateway longer than that.

**What makes each part correct.**

| part | properties |
|---|---|
| sessions | a token stays with the browser and storage it was issued for; nothing but an accepted answer changes a cookie; a token that was handed out is not lost when the handler fails later |
| handlers | success is only reported when the gateway confirmed it; one response is one answer; the bodies handlers are given are closed; every request is answered |
| router and pages | what a page offers ends in the handler, storage and folder it stands for; no request is redirected for ever; scripts are never redirected |
| upload queue | no file waits while a slot is free; no more requests than slots; a removal is reported once; the reload comes when all is done and interrupts nothing that was there when it was decided |
| thumbnails | one image at a time, in order, none lost; what is drawn has the right part and stretch |
| page start | the document is searched once, after the page's options are set |
| dialog and widgets | when nothing moves, flags, classes, timers and document agree, however the events fell into the transitions; and everything comes to rest |
| runner | only a valid configuration is served; requests under way are finished or cut off after a minute; post actions run once, after the last handler |

## 2. The modules

    Routes                 route table and mux, as operators
     |- Navigation         a browser in the pages         -> MCNavigation
     |   '- NavigationProofs
     '- MCWebService       instances of WebService with the routes of the table
    WebService             handlers, sessions, gateway, browsers
     |- WebServiceProofs   types, sessions
     '- ResponseProofs     responses, cookies (extends WebServiceProofs)
    Dropzone               the upload queue               -> MCDropzone
     |- DropzoneProofs
     '- UploadPool         what it implements (INSTANCE ... WITH)
    ThumbnailQueue         images in order                -> MCPage
    ThumbnailImage         one image                      -> MCPage
     '- ThumbnailProofs    of both
    Startup                how the page is outfitted      -> MCPage
    Modal                  the text sharing dialog        -> MCPage
     |- Dialog             what it implements (INSTANCE ... WITH)
     '- PageProofs         of Startup and Modal
    Carousel, Collapse, Tooltip                           -> MCWidgets
    TooltipPlacement       where a tooltip goes           -> MCWidgets
     '- WidgetProofs       of all four
    Lifecycle              the process                    -> MCLifecycle
     '- LifecycleProofs

### WebService

The core: every handler with every return, interleaved with those of other
requests.

| variable | stands for |
|---|---|
| `jar` | the cookies of each browser; one per storage, as `SetToken` names them |
| `issued` | whom the gateway gave each token to and for which storage: a history of the gateway's answers that no action of the service reads |
| `pc` | how far the goroutine of a request is |
| `ask` | the request as its handler sees it: route parameters, form, cookies |
| `rsp`, `open` | what `http.DefaultClient.Do` returned, and whether its body is open |
| `broke` | whether the body, the browser or the handler itself broke off |
| `w` | the `http.ResponseWriter`: status, cookies in the header, parts of the body |
| `client` | whether the browser waits, has the header, or has gone |

A step of the model ends where another goroutine can make a difference: at the
call of the gateway, at its answer, and while a body is copied.

| action | code |
|---|---|
| `Send` | a request matched by a route, with the context `storeRouterParametes` fills |
| `ShowForm` | login and register on GET |
| `Reject` | the early returns on an incomplete or unreadable form |
| `Forward` | `make*Request` up to `Do` |
| `Accept`, `Refuse`, `TransportError` | the gateway: status 200, any other status, no answer |
| `ProcessRefused`, `ProcessOK` | the rest of `processRequest`, with the error return of the handler |
| `CopyChunk`, `CopyDone`, `ReadFails` | `io.Copy` of a file or `index.html`; a failed copy, decode or read |
| `RenderView`, `RenderFails` | the list decoded and the template executed |
| `SignedIn` | `SetToken` and the redirect of login and register |
| `Acknowledge` | upload, remove, share text |
| `Panic` | a panic before the forwarded request or while its answer is worked on, through the deferred calls and `RecoverMiddleware`: with an `error`, which is written as an error document, or with any other value, which is dropped, so that net/http ends the response with status 200 |
| `PanicEarly` | the same inside `processRequest`, before the handler has deferred the `Close` and before `SetToken` |
| `Hear`, `Abandon`, `Finish`, `Expire` | the browser: header received, page closed, response complete, cookie expired |

`WriteHeader` and `Write` carry the rule of `http.ResponseWriter` that the
header leaves with the first write; `SetToken` carries the rule of
`http.SetCookie` that a name that is not a token is dropped (`CookieSafe` is
the set of storages whose names pass). The multipart loop of an upload is one step,
because nothing is forwarded before it has ended. File contents, passwords and
error texts are left out; whether a form is complete is part of `form`.

### Routes and Navigation

`Routes` is the route table, entry by entry, and `Dispatch`, which says for a
method and a path whether mux redirects, refuses, or calls a handler and with
which parameters. A path is a sequence of members of `Segment`, a constant that
holds the words the table spells out, the names `cleanPath` removes, and any others.
`Navigation` walks a browser through it: paths are typed,
redirects followed (`Serve`), and every link, form and script of `view.html`,
`login.html` and `register.html` is an action whose address is resolved against
the page it is on. `goal` remembers what the user's action was for and `took`
what the service took it for.

Two places write a name into an address without escaping it: the link to a file
(`view.html:50`), of which html/template keeps `#`, `?` and `%xx`, and the redirect to
`"/"+storage` after a login or registration (`login.go:75`, `register.go:64`). What
comes of a name there is given by the constants `Link` and `Location`, which the run sets
for names of each kind: an ordinary name is itself, one with `#` or `?` loses what follows,
an escaped one is another name, one with a slash is two segments. A name that looks like the
scheme of an address becomes `#ZgotmplZ` and requests nothing (`Inert`, `OpenNothing`),
and a stray `%` makes the redirect no address at all (`Malformed`, `SentAstray`). Left
out are names that lead to another host: a file called `http:...` or `mailto:...`, and a
name that begins with a slash or a backslash.

### Dropzone and UploadPool

The upload queue as `view.html` sets it up: one file per request, files queued and
processed by themselves. JavaScript runs one task at a time, so a step is a task,
with every listener it calls, those of the page included. Only a handler that adds a
list of files is cut into one step per file.

| variable | stands for |
|---|---|
| `files`, `status` | `this.files`, `file.status` |
| `wire` | the files whose `XMLHttpRequest` is open |
| `timers` | callbacks of `setTimeout(.., 0)`, in order: `processQueue`, `queuecomplete` |
| `batch`, `reading` | files of the running handler still to be added; files of dropped directories still to be delivered |
| `shown`, `posts` | previews in the document; requests to `remove/` for each file |
| `leaving` | `location.reload()` was called and the document still runs |
| `late` | a history: files queued after the reload was decided |

| action | code |
|---|---|
| `Choose`, `AddNext` | `handleFiles`, the change listener; `addFile` with `accept`, `enqueueFile` |
| `ChooseDirectory`, `EntryRead`, `EntryFails` | `_addFilesFromDirectory`; hidden names are skipped, a file that cannot be read is forgotten |
| `StartQueued`, `ProcessQueue` | the timer of `enqueueFile`, `processQueue` |
| `UploadEnds` | `onload` with any status and `onerror`: `_finished`, `_errorProcessing`, `complete`, `processQueue` |
| `RemoveFile`, `Cancel` | the remove link: `removeFile`; for a running upload `cancelUpload`, `canceled`, the page's `removeFile` inside it, `processQueue`, and the second `removedfile` |
| `QueueComplete`, `Commit` | the page's listener of `queuecomplete`; the new document |

`UploadPool` is the promise without lists, timers and documents: files wait in
order, at most `Slots` are uploaded, and whenever uploads end the free slots are
filled at once, by the files that waited longest. `ImplementsPool` maps the queued files
of the list to those that wait, their order in the list to `before`, and the uploading
ones to `active`.

### ThumbnailQueue and ThumbnailImage

`ThumbnailQueue` has the queue, the flag, the timers, the open `FileReader`s and
`img` elements, and what was added and shown, in order. Neither reader nor image has
an `onerror` handler: a broken one never calls back. `ThumbnailImage` is what
`img.onload` computes for one image: `Resize` (fractions, compared crosswise), the
binary search of `detectVerticalSquash` with a step per probe, and the ratio
`drawImageIOSFix` divides by. The pixels are the set of rows that are not transparent.

### Startup

`contentLoaded` registers with `DOMContentLoaded`, `readystatechange` and `load`, and
polls in old browsers; whichever comes first runs `discover`, which builds a Dropzone
for every box in turn and ends at the first exception. `browser` is the kind of
browser, `off` and `noUrl` the boxes with `options: false` and without an address.

### Modal and Dialog

`m` is the Modal object together with what it changes in the document. `show` and `hide`
bind callbacks to DOM nodes (`pend`) that run at the end of a transition: the
browser's event if the element is displayed (`TransitionEnd`), or the timer of
`emulateTransitionEnd` (`Timeout`, with ticks of 150 ms). A callback that throws keeps the
ones after it bound, for another end (`Dispatch`). The user may open and close the dialog at any
moment. Three fields are a history that no step depends on: `hasty`, the dialog was last
opened before its closing had settled; `left`, the backdrops that earlier hasty openings left in
the page; `cut`, it was last closed before it had appeared. `Dialog` is what a user
sees: opening, open, closing, closed; and `Rush`, what may become of one who opens it while it
is closing, until he finds it closed and opens it again. The callback that waits for
`.modal-dialog` to slide in only moves the focus and is left out.

### Carousel, Collapse, Tooltip, TooltipPlacement

One element, object and timer each (`Collapse`: a set of panels with one parent).
Steps are calls and events of the user, timers, and ends of transitions (`SlideDone`,
`PanelEnd`, `TipEnd`). Three variables are chosen at the start and never change: `slow`, an
interval longer than a slide, as by default; `created`, panels whose objects exist when the
page is loaded and not only after their first click; `calm`, a user who does not come back
while the tooltip fades out. They let one run follow a widget with and without them.
`TooltipPlacement` is the geometry of one `show`: the chosen side (`Place`), then the
move into the viewport and the arrow (`Adjust`); positions are doubled, so that they stay
integers. Element, tip, viewport and container are separate rectangles of the document (the
default container is the element's parent); a container also has its left edge in
the window (`client`), because `pos.right` in `bootstrap.js:1425` is a place in the window,
while `pos.left` and `pos.top` are places in the document.

### Lifecycle

`pc` follows `Run`: load, setup, run, drain, post actions, exit. `http` is the goroutine
that listens beside it, `inflight` the requests it serves, `reason` why Run ends, and
`cut` a history of the requests whose handlers died with the process.

## 3. What the runs check

| run | instance | states | shows |
|---|---|---|---|
| `sessions` | 2 browsers, 2 storages, 2 tokens, 2 requests; login and view, one panic at most | 2.3 million | `TokenIsolation`, `RefreshNeverLost`, `SessionOnlyFromAnswer` |
| `handlers` | every route; 2 browsers, 2 storages (one without a usable cookie name), 2 files, 2 tokens, 1 request, fairness | 396 thousand | `SessionInv`, `AnswerInv`, `SuccessIsConfirmed`, `OneAnswer`, `BodiesClosed`, `LoginEstablishesSession`, `EveryRequestAnswered` |
| `pages` | every path of up to three segments out of seven, `""` and `".."` among them; names of every kind | 71 thousand | `GoalReached`, `AtMostTwoHops`, `ScriptsNotRedirected` |
| `queue` | 4 files, one too big and one hidden; 2 slots; fairness | 125 thousand | `IInv`, `NoStall`, `OneRemoval`, `Completion`, `OnlyLateLost`, `ImplementsPool`, `QueuedLeaves`, `FinishedReloads` |
| `page` | 4 images (one SVG, one broken); pictures up to 6 x 6 with every pattern of rows; 3 boxes in every kind of browser; 6 backdrops | 95 thousand | `QueueInv`, `ResizeInv`, `DrawInv`, `StartInv`, `DialogInv`, `ThumbnailOrBlocked`, `EventuallyOutfitted`, `ImplementsDialog` |
| `widgets` | 3 items and 5 inputs; 3 panels and 5 clicks; 6 events at a tooltip; 37 thousand geometries | 157 thousand | `PlacedInv`, `CarouselInv`, `AccordionInv`, `TooltipInv`, `CallsAreWoken`, `TransitionsEnd`, `ComesAndGoes` |
| `lifecycle` | 3 ports, 3 periods, 2 requests, 2 post actions | 230 | `StopInv`, `StopsAtLast` |

- `TokenIsolation`: no jar holds and no forwarded request presents a token that
  was issued to another browser or for another storage.
- `RefreshNeverLost`: a token in `X-Token` of a 200 answer reaches the jar with
  the header, also when the handler fails or panics after `processRequest`. Only a panic
  inside of `processRequest` loses it.
- `SessionOnlyFromAnswer`: a cookie only ever changes to another token on a
  response of that browser, about that storage, that the gateway answered with 200.
- `LoginEstablishesSession`: when an answer carries two tokens, the one in its
  body wins.
- `SessionInv`, `AnswerInv`: the inductive invariants of section 4.
- `SuccessIsConfirmed`: a redirect of a login or registration, and a 200 of every
  other handler, follow a 200 answer of the gateway to this request. The exception is
  the empty 200 that the browser gets when `RecoverMiddleware` drops a panic whose value is no
  `error`: nothing of it is confirmed. A panic with an `error` never looks like a success.
- `OneAnswer`: an answer is an empty redirect, an error document with status 400,
  or a page, a file or nothing with status 200, unless a body, the browser or
  the handler broke off; a file never has the error status.
- `BodiesClosed`: every way out of a handler closes the body of the answer it was given,
  panics included. Two kinds of body stay open: those of refused answers, because
  `processRequest` returns without closing them, and that of an answer on which
  `processRequest` itself panics, before the handler has it.
- `EveryRequestAnswered`: with a gateway that answers, every request ends in a
  response its browser has received, or its browser has gone.
- `GoalReached`: the link, form or script of a page ends, through every redirect,
  in the handler, storage and folder it stands for, save for the names the table
  itself uses (`Shadowed`) and for names that are not their own address (`Misspelt`): files
  whose links the template changes, and storages whose redirects lead elsewhere.
- `AtMostTwoHops`: no address is redirected more than twice. Together with the
  absence of deadlock every navigation ends.
- `ScriptsNotRedirected`: a script's POST is never redirected, which would turn
  it into a GET without its form.
- `NoStall`: a queued file waits only when every slot is taken or a call of
  `processQueue` is due. Six paths change what is queued or uploading.
- `OneRemoval`: a file that was taken out of the list is reported to `remove/` once,
  although cancelling emits `removedfile` twice: the second one throws at the missing
  preview, before the page's listener.
- `Completion`: when everything listed is finished, the reload is decided.
- `OnlyLateLost`: the reload interrupts only files added after it was decided.
- `IInv` (queue): these and the limit of parallel requests (`ParallelLimit`), and
  that the open requests are those of the listed uploading files (`NoOrphans`).
- `ImplementsPool`: the queue implements `UploadPool`.
- `QueuedLeaves`, `FinishedReloads`: a queued file leaves the queue; a finished list
  is reloaded unless the user adds to it or takes from it.
- `QueueInv`: one image is read or decoded at a time, exactly when the flag is set;
  images keep their order and none is lost; an image never waits for nothing.
- `ThumbnailOrBlocked`: every image gets its thumbnail, unless a broken image is at
  work: that one keeps the flag set for as long as the page lives.
- `ResizeInv`: the part of a picture that is shown is the largest of the box's shape,
  and no picture is enlarged.
- `DrawInv`: the search ends at the foot of the picture, and for a picture squashed to
  its upper rows it finds how many they are; the stretch is between one and the height.
- `StartInv`, `EventuallyOutfitted`: the document is searched once, after the page's
  options were set, in every browser; afterwards each box is what it should be.
- `DialogInv`: however the user mixes opening and closing, a dialog that does not count as
  shown has given the page back when nothing moves (`PageFreed`). From an opening after all
  had settled until one that comes too early, when nothing moves the dialog, its flag, its class
  `in`, the focus it keeps, its backdrop, the scrolling and the padding of the page agree
  (`QuietAgrees`), and a dialog that counts as shown has one backdrop (`OneBackdrop`). A dialog
  closed before it had appeared keeps class and focus: `QuietAgrees` says so.
- `ImplementsDialog`: to its user it is a `Dialog`: what was begun is finished, unless it is
  opened too early, and again when it is opened after all had settled.
- `CarouselInv`: one item is active, the indicator shows it; one timer at most and none
  while paused or under the pointer; a call of `to` that waits has a `slid` to come.
- `CallsAreWoken`: with an interval longer than a slide no call of `to` waits for ever.
- `AccordionInv`: no flag stays set after a transition; at most one panel is open
  and the triggers say which, if the objects were made when the page was loaded.
- `TransitionsEnd`: slides and panels come to rest.
- `TooltipInv`, `ComesAndGoes`: when all is settled after a leave no tooltip is left
  behind, and after an enter it is there; it does come, and it does go.
- `PlacedInv`: the arrow points at the middle of the element, a tip that fits is inside
  the viewport, tip and element share an edge, and `auto` finds the side with room in its container: always
  for a tip wished above, below or on the left, on the right in a container at the left edge of
  the window.
- `StopInv`: requests are served under a valid configuration only; post actions run once,
  on every way out after setup, and after an orderly stop with no handler at work; only
  the deadline or a failed rpc service cuts requests off.
- `StopsAtLast`: once the rpc service has ended the process ends, whatever the gateway does.

Five further runs each show that the code does not do what a comment of it says:

| run | property | the code |
|---|---|---|
| `remove` | `RemoveNamesFile` | checks the form's `fileName` and does not forward it |
| `upload` | `UploadNamesFolder` | forwards the parts, neither storage nor folder |
| `transfer` | `FileArrivesWhole` | a copy that breaks off ends as a complete response with status 200, an error document appended |
| `cookie_name` | `LoginAlwaysSignsIn` | a storage name that cannot name a cookie: redirected without a session |
| `reserved` | `RegisteredIsReachable` | a storage named like a route can be registered and never reached |

**Parts in one run.** The parts of `page` share no state, nor do those of
`widgets`. Each of these runs therefore follows one part in a behaviour, chosen at
its start by `part` or `widget`, and leaves the others where they begin; composing them
would multiply the states and add no interaction. The carousel, the accordion and the
tooltip are followed with and without what `slow`, `created` and `calm` assume.

**Bounds.** Two browsers, two storages and two requests are the least in which a
token can take a wrong turn between two owners; a third of any adds no new kind
of pair, and the theorems below cover every number. Two tokens let one request
be given a header and a body token, and two requests one each. A token is handed
out once, so a run of a browser ends with failed requests when all are used
up, and slots are used again and again. In `handlers` one request is enough, since
its properties speak of a single request; the interleavings are those with its
browser and gateway. `sessions` has one handler that is given a new token and one
that refreshes; the others move tokens in one of these two ways. `OnePanic` bounds its
panics to one in a behaviour; `handlers` has no such bound. Its symmetry
permutes sets whose members the model never tells apart, and it checks no
liveness. In `pages` the segments are two ordinary names, the words the table gives a
meaning, and the two that `cleanPath` removes; to the storages and files come names of each kind that an
address changes.
In `queue` three files of different kinds are more than the two slots, so that a file
waits, another one is cancelled or ends, and one is added late; the fourth is never
queued. A file object is added at most once in the life of a document. `Backdrops`
suffices for openings that come too early, which may leave two each, and for another one after
all has settled. `MaxInputs`, `MaxClicks`
and `MaxEvents` bound what the user does; each lets the
user come, go and come again within one transition. The tooltip fades and both its delays
are set, where the most can happen in between; its theorem covers the other options. `MaxSlids` bounds the `slid` timers that wait when the
interval ticks. The geometries have elements at all four edges, tips that grow and
shrink, viewports that are scrolled, padded and moved to the right, and containers that begin
elsewhere than the viewport, in a page that is scrolled sideways and in one that is not. The ports of
`lifecycle` lie below, in and above what TCP has; its states are few because `Run` is
sequential but for the listener and the requests.

**Deadlock** is checked in `sessions`, `handlers` and `pages`: an idle service can
always be sent a request, so nothing may stop. In the other four runs a behaviour
may end: the user is free to do nothing more, inputs are used up, and the process exits.

**Fairness.** `Fairness` is what the Go runtime and TCP give: a goroutine that can
go on goes on, a browser sends the form it announced or goes away, and a header
that was written arrives unless the browser goes away. `GatewayAnswers` is an
assumption about the gateway and not a promise of this code:
`http.DefaultClient` has no timeout and the forwarded request does not carry the
context of the browser's request, so a silent gateway holds a handler for ever,
also after its browser has left. Panics, the loss of a browser and the expiry of
a cookie are never forced.
On the page the event loop runs what is due (`AddNext`, `StartQueued`, `QueueComplete`,
timers), requests end in an answer or an error, readers and images call back unless
they are broken, and transitions end, because `emulateTransitionEnd` sets a timer
where the browser's event does not come. The user owes nothing. In
`Lifecycle` only the goroutine of `Run` and the passing of the minute are fair: of
handlers and of the rpc service nothing is assumed.

## 4. What is proved

For all values of the constants:

| theorem | module | states |
|---|---|---|
| `Invariance` | `WebServiceProofs` | `Spec => []SessionInv` |
| `TypeCorrect` | | `Spec => []TypeOK` |
| `TokensStayIsolated` | | `Spec => []TokenIsolation` |
| `AnswersInOrder` | `ResponseProofs` | `Spec => []AnswerInv` |
| `OnlyConfirmedSuccess` | | `Spec => []SuccessIsConfirmed` |
| `AlwaysOneAnswer` | | `Spec => []OneAnswer` |
| `AcceptedBodiesClosed` | | `Spec => []BodiesClosed` |
| `RefreshesArrive` | | `Spec => RefreshNeverLost` |
| `LoginsArrive` | | `Spec => LoginEstablishesSession` |
| `SessionsFromAnswers` | | `Spec => SessionOnlyFromAnswer` |
| `TypeCorrect` | `NavigationProofs` | `Spec => []TypeOK` |
| `GoalsAreReached`, `RedirectsEnd` | | `Spec => []GoalReached`, `[]AtMostTwoHops` |
| `ScriptsArrive` | | `Spec => ScriptsNotRedirected` |
| `Invariance` | `DropzoneProofs` | `Spec => []IInv` |
| `NothingStalls`, `NeverTooMany`, `RequestsBelongToFiles` | | `Spec => []NoStall`, `[]ParallelLimit`, `[]NoOrphans` |
| `RemovedOnce`, `EndIsNoticed`, `ReloadLosesOnlyLate` | | `Spec => []OneRemoval`, `[]Completion`, `[]OnlyLateLost` |
| `PoolIsImplemented` | | `Spec => ImplementsPool` |
| `QueueInvariance`, `OneDecoder`, `KeptInOrder`, `QueueNeverRests` | `ThumbnailProofs` | `Spec => []QueueInv` and its parts |
| `SearchSound`, `AlwaysBracketed`, `SearchFindsFoot`, `SearchFindsSquash`, `StretchIsBounded` | | `DrawSpec => []DrawInv` and its parts |
| `SearchNarrows` | | `DrawSpec => Narrows` |
| `ShownAsLargeAsMayBe` | | `DrawSpec => []ResizeInv` |
| `PageStartsOnce` | `PageProofs` | `StartSpec => []StartInv` |
| `DialogAgrees` | | `DialogSpec => []DialogInv` |
| `DialogIsImplemented` | | every step of the dialog is one of `Dialog` or none |
| `AlwaysPlaced`, `ArrowAlwaysPoints`, `AlwaysInside`, `AlwaysTouches`, `AutoIsRight` | `WidgetProofs` | `Spec => []PlacedInv` and its parts |
| `CarouselAgrees` | | `CarouselSpec => []CarouselInv` |
| `AccordionAgrees` | | `PanelSpec => []AccordionInv` |
| `TooltipAgrees` | | `TipSpec => []TooltipInv` |
| `OrderKept`, `ServedOnlyConfigured`, `PostActionsComeLast`, `OrderlyStopCutsNothing`, `EachActionOnce` | `LifecycleProofs` | `Spec => []StopInv` and its parts |

Assumed: `None` is not a name, token or grant (`NoneAssumption`); names that can
name a cookie are names (`CookieAssumption`); every route but `/register/` has a
storage in its path (`ServedAssumption`, which TLC evaluates for the routes of the
table); the names of storages and files are segments other than the empty one
(`NamesAssumption`); the files of the upload queue are finitely many (`FilesAssumption`) and it has at
least one slot (`ParallelAssumption`); pictures have at least one pixel
(`SizesAssumption`); there is an item and a panel, and at most one panel is open at first
(`ItemsAssumption`, `PanelsAssumption`, `OpenAssumption`); the dialog's transition takes
longer than its backdrop's (`ModalAssumption`: 300 and 150 ms); no box occurs twice in the
document (`BoxesAssumption`); the other assumptions only give the constants their types.

`TokenIsolation` is not inductive: it speaks of jars and of tokens being
presented, but a token gets from one to the other through the cookies a request was
sent with, the gateway's answer and the header of the response. `SessionInv` says of each
of these places that the token there belongs to the browser and account of the
request (`SnapshotIsolation`, `AnswerIsolation`, `PendingIsolation`), and adds what
makes "the account of the request" well defined (`RequestOK`: a request that gets as
far as the gateway names one storage). The argument then follows a token
round: `Hear` copies a header into a jar, `Send` a jar into a request,
`MessageOfAccount` and `SubjectIsAccount` show that the token a request presents and the
storage it names are those of its account, so `Accept` issues for that
account, and `SetTokenType` shows that only the cookie of that account is
written. All steps of a handler that touch no token are instances of one lemma, `ServiceStep`.

The properties of responses are not inductive either: that a redirect follows a
200 answer depends on what `processRequest` let pass several steps before.
`AnswerInv` says for each step of a request what its answer, its body and its
response have in common (`WrittenInOrder`): nothing is written while the answer is
out or not yet looked at, only copied data while it is relayed, and what a reply
may be for each kind of answer and of panic. `CookiesInOrder` adds which token of the answer the
header carries. Both are about one request, so a step on another preserves them
(`OneRequest`); the writing steps reduce to `RefusalInOrder` (no 200 answer) and
`RelayedInOrder` (a 200 answer, no redirect), with `SignedInAnswer` and
`PanicAnswer` on their own. The three action properties about jars follow because
only `Hear` copies a header (`HeardByHear`, `JarChanges`), and what it copies is
what `CookiesInOrder` says.

In `Dropzone`, `Completion` is not inductive: when a file is taken out of the list it can
be the last unfinished one, and no `complete` is emitted for a file that was only
queued. `Settled` says more: as soon as *one* listed file is finished and none
is being uploaded, the reload is decided, even when others are queued. A removal of a queued
file cannot disturb it, and the end of an upload either starts another file or finds
the queue empty and emits `queuecomplete` (`CompleteStep`). That it starts one needs
`NextUpFillsSlots`: `processQueue` leaves no slot free while a file waits, by the
cardinality of `UpTo`, the part of the queue up to a file, for which `Arrivals`
keeps the lists free of repetitions. All steps that process the queue are instances
of `ProcessQueueStep`.
That it implements `UploadPool` follows from the same invariant, one lemma per handler
(`AddFilePools`, `UploadEndsPools`, `CancelPools`, `RemoveFilePools`). The queue is
processed as in `ServeStep`: what `processQueue` starts is a beginning of the waiting
line (`NextUpIsFirst`), and together with `NextUpFillsSlots` the slots are then full or
nobody waits.

`Navigation` is about every path a browser can type, so about sequences of any
length. What `cleanPath` makes of one is a fold, and a fold is a recursive function: its
defining equation follows once it is shown that a function obeying it exists (`KeptDef`),
and statements about all its values by taking the least position at which they
fail (`AllNumbers`). `CleanedIsClean` and `CleanIsKept` say that the result has no dots and
no empty names and that cleaning it again changes nothing. `TableRows` evaluates the route
table once; `FolderAnswer`, `FileAnswer`, `ActionAnswer` and `FormAnswer` say what
`Dispatch` answers for the addresses that the pages contain, of which there are four
shapes. `IInv` then says what is shown
at the address of each page (`PageInv`, against which links are resolved: `Resolved`), and
what a request has to do with the goal it is made for (`Sound`: it asks for the goal's
address, with or without the last slash, or posts its form). A redirect leads to a clean
path (`UncleanAnswer`) or toggles the last slash, after which the answer is final
(`ToggleFinal`), so after two the request is answered (`HopInv`).

`QueueInv` is inductive as it stands: the flag, reader and decoder move together, and
`InOrder` says that what was added is what was shown, followed by what is decoded, read
and queued; each step moves an image over one seam of this concatenation (`Shift`,
`AppendAfter`). `ThumbnailImage` needs `Bracket`, the loop invariant of the search; when the search ends the
bracket is closed around the foot (`Closed`). `ResizeInv` compares products of four
numbers, which no prover does by itself: `Factors`, `Scaled` and `Product` cancel one factor
at a time, and `CropWide` and `CropTall` treat the two shapes a picture can have beside its
box.

In `Startup`, `StartIInv` says for every phase of the document which events have come and
for which of them `init` is still registered; the three registrations and the poll
all end in `ReadyKeeps`, and what `discover` builds before it meets an exception is
computed by `DiscoverBuilds`. In `Modal`, `DialogIInv` has a part for every user and one for
a dialog that was not opened too early. `Freeing` says that a dialog that does not count as shown
has given the page back or has a callback bound that will; the end of a transition runs any number
of callbacks, one of which may throw, and `DispatchKeeps` takes `Freeing` from one to the next
(`CallKeeps`), from the least position at which it would fail (`LeastNumber`). `Room` says that
the bound on backdrops never stops a callback. `Phases` lists the phases a dialog goes
through with the callbacks that are bound in each; `ShowPhases`, `HidePhases`,
`PatientPhases` and `TickPhases` say which phase follows. The steps of `Dialog`
come from the same lemmas (`DialogSteps`), and what follows a hasty opening from `Muddle`.

In `TooltipPlacement` nothing but linear arithmetic is left once it is said what holds after
`Place` (`Placed`, `Chosen`). `CarouselIInv` says how one item is active and, during a slide,
which other one comes in (`Turns`), how many timers there are (`Timed`), and for which `slid` a
waiting call of `to` waits; the sequence of waiting calls is run by `Wakes`, position by
position. `PanelsHold` has a statement for one panel, that its classes, flag and callbacks
agree (`AllHonest`), and one for panels with objects, that only one is open or opening
(`Orderly`); a click changes a panel and hides the active ones of its parent
(`ClickIsHonest`, `ClickIsOrderly`), for any number of panels. `TipHolds` says what follows from
having left (`Left`) and having stayed (`Stayed`), in terms of the callbacks bound to the
tip. There may be any number of these, and the end of a transition runs them
all: `Via` says what holds after the first of them, and `Counting` takes it to the last.

In `Lifecycle`, `Stages` says what holds in each part of
`Run`: up to the drain no post action has run, and while it drains the listener is closed.

Only model-checked:

- liveness, which needs fairness and ENABLED: `EveryRequestAnswered`, `QueuedLeaves`,
  `FinishedReloads`, `ThumbnailOrBlocked`, `EventuallyOutfitted`, `CallsAreWoken`,
  `TransitionsEnd`, `ComesAndGoes`, `StopsAtLast`;
- that what `Dialog` began is finished: `DialogIsImplemented` is the part of
  `ImplementsDialog` without fairness.

Every invariant the runs check is a theorem, and so are the action properties
`RefreshNeverLost`, `LoginEstablishesSession`, `SessionOnlyFromAnswer` and
`ScriptsNotRedirected`.

## 5. What the models show beside their properties

These hold of the code as it is written. No document of the repository says otherwise,
so they are no findings; each bounds a property of section 3.

- Upload queue: a file added after the reload was decided is lost with the document
  (`late`). Sharing a text reloads the page as well, and aborts whatever is being
  uploaded. `readEntries` is called once for a directory, which delivers a part of a
  large one. A text can be sent twice with two clicks on Ok. The page's `removedfile` listener calls
  `removeFileRequest` with one of its two arguments.
- Thumbnails: one broken image ends all thumbnails of the page.
- Handlers: a panic with a value that is no `error` is recovered and dropped
  (`handlers.go:156`), and net/http sends an empty 200: an upload, removal or shared text that
  never reached the gateway looks done. A panic in `processRequest` after the answer loses its
  refreshed token and leaves its body open.
- Names: the link of a file called `a#b` or `a?b` opens `a`, that of `%61` opens `a`, that of
  `a:b` nothing; a login to a storage named so is redirected to another page, and a stray `%` to an
  error page (`view.html:50`, `login.go:75`, `register.go:64`).
- Dialog: one who opens it again within the 150 ms in which its backdrop fades loses the new
  backdrop and with it the callback that shows the dialog (`bootstrap.js:1110`): `isShown`
  stays set and the dialog invisible, until the answer to an earlier shared text closes it. A
  dialog closed before it had appeared keeps the class `in` and the listener that holds the focus
  in it, until it is opened and closed again: nothing takes back what the callback of
  `show` sets afterwards.
- Carousel: `wrap: false` is not honoured, since `getItemForDirection` goes round the ends
  in every case. With an interval shorter than a slide a call of `to` can wait for ever.
- Collapse: with objects made by the first click, a panel that hides while its object is
  thrown away can be shown again, beside another one.
- Tooltip: one who comes back while it fades out sees nothing. Without fades
  (`animation: false`) a call of `hide` after a second enter leaves a tip in the document that
  nobody asked for, because `hoverState` is still `in` (`bootstrap.js:1524`). So `TooltipInv`
  says that none is left behind only of tooltips that fade.
- Placement: the overflow on the right is found with the width of the viewport, not
  with its right edge (`bootstrap.js:1605`); a viewport that begins elsewhere moves tips
  that need it not, and one left of the page misses those that do. `InsideViewport` is stated for
  viewports that begin on the page. For `auto`, a tip wished on the right is compared in the
  window with the width of its container (`bootstrap.js:1425`): in one that begins right of the
  window's left edge it may be moved to the left although there is room, and in one that begins
  left of it the tip may stay and stick out.
- Runner: a failed `ListenAndServe` is logged and the process goes on without serving; a port
  above 65535 passes `Validate`; a failed rpc service ends the process without `Shutdown`.

## 6. What is not modelled

- The gateway itself, beyond what the handlers can tell of it; how it stores files
  or checks passwords.
- Contents: file data, passwords, html, log output, content types; templates and logging.
- Order of two concurrent responses to one browser: both orders happen, and the
  later one wins in the jar even when its token is the older one. The code
  promises nothing else. A connection that is lost after the gateway did its work: the
  browser repeats the request, and what becomes of that is up to the gateway.
- The copy loop of `multipartBody` as a step per part: nothing is forwarded before it has
  ended, so its steps meet no other actor.
- Names that begin with a slash or a backslash, and files called like an address of another
  host: their links and redirects leave the service.
- Host, query and header matchers and sub-routers of mux, which the service does
  not use; go-micro's rpc server, which has no handlers here.
- `CookieSession.Remove`: no caller.
- Dropzone's `uploadMultiple`, `maxFiles`, `destroy` and `disable`, which the page does not use;
  progress bars; the checks of the dialog's two fields; the rows of the page's table.
- Modal's data-api, remote content and `keyboard` option; tooltip's click trigger, delegation
  and `enable`/`disable`; listeners of collapse that prevent an event.
- Bootstrap's alert, button, affix, dropdown, scrollspy, tab and popover: they keep next to no
  state, keep it in the classes of the document, or are tooltips with other content. No page
  uses them.
- Third-party code: jquery (what the widgets use of it is part of their models), prometheus,
  go-micro.

## 7. Plan

Done: the modules of section 2, their instances and proofs.

Left, in this order:

1. More action properties of the upload queue and the runner as theorems: which steps may
   take a file out of the queue, and what may end a request.
2. The part of `TooltipInv` that holds of a tooltip without fades.
3. Composition of `WebService` with `Dispatch`, so that one run drives routes,
   handlers and pages together.
