------------------------------ MODULE Startup ------------------------------
(***************************************************************************)
(* How the storage page gets its upload area: dropzone.js, loaded in the   *)
(* head, waits with contentLoaded until the document is ready and then     *)
(* attaches a Dropzone to every element of class "dropzone"; in between    *)
(* the script at the end of view.html sets Dropzone.options.               *)
(*                                                                         *)
(* A step is a task of the browser: a script, an event of the document and *)
(* the listeners it calls, or a timer.                                     *)
(***************************************************************************)
EXTENDS Naturals, Sequences, SequencesExt

CONSTANTS
    Boxes,     \* the elements of class "dropzone", in document order
    Browsers   \* the browsers a user may have, of the kinds below

\* What contentLoaded and the constructor look at in a browser: addEventListener
\* (and with it the DOMContentLoaded event), doScroll in a window without a
\* frame, and the features that isBrowserSupported asks for.
Kinds == [listeners : BOOLEAN, doScroll : BOOLEAN, capable : BOOLEAN]

ASSUME BoxesAssumption == Boxes \in Seq(ToSet(Boxes)) /\ IsInjective(Boxes)
ASSUME BrowsersAssumption == Browsers \subseteq Kinds

Events == {"DOMContentLoaded", "readystatechange", "load"}
Areas == ToSet(Boxes)

VARIABLES
    browser,     \* the kind of browser
    off, noUrl,  \* boxes whose options are false; boxes without a form action
    phase,       \* document.readyState
    scripts,     \* scripts that ran: "library", "inline"
    fired,       \* events of the document that have come
    listening,   \* events for which contentLoaded's init is registered
    polling,     \* the timer of contentLoaded's poll is set
    done,        \* the flag of contentLoaded
    state,       \* box -> "plain", "widget", "fallback" or "failed"
    sawOptions,  \* history: boxes built after the page's script ran
    clashes      \* history: "Dropzone already attached" was thrown

startVars == <<browser, off, noUrl, phase, scripts, fired, listening, polling, done, state,
          sawOptions, clashes>>
pageVars == <<browser, off, noUrl>>

StartTypeOK ==
    /\ browser \in Browsers /\ off \subseteq Areas /\ noUrl \subseteq Areas
    /\ phase \in {"loading", "interactive", "complete"}
    /\ scripts \subseteq {"library", "inline"} /\ ("inline" \in scripts => "library" \in scripts)
    /\ fired \subseteq Events /\ listening \subseteq Events \ fired
    /\ polling \in BOOLEAN /\ done \in BOOLEAN /\ clashes \in BOOLEAN
    /\ state \in [Areas -> {"plain", "widget", "fallback", "failed"}]
    /\ sawOptions \subseteq Areas

StartInit ==
    /\ browser \in Browsers /\ off \in SUBSET Areas /\ noUrl \in SUBSET Areas
    /\ phase = "loading" /\ scripts = {} /\ fired = {}
    /\ listening = {} /\ polling = FALSE /\ done = FALSE
    /\ state = [b \in Areas |-> "plain"] /\ sawOptions = {} /\ clashes = FALSE

-----------------------------------------------------------------------------
\* The constructor throws: the element has a Dropzone, or there is no address to
\* send to; a browser that is not supported gets its fallback form first.
BoxFails(b) == b \notin off /\ (state[b] # "plain" \/ (browser.capable /\ b \in noUrl))

\* Mutant of Reached: every box is tried, whatever happens to the others.
ReachedAll(b) == TRUE

\* discover builds the boxes in document order, and an exception ends its loop.
Reached(b) ==
    \A i, j \in DOMAIN Boxes : Boxes[i] = b /\ j < i => ~BoxFails(Boxes[j])

\* discover(): the options of a box are those the page has set by now.
Discover ==
    LET tried == {b \in Areas : Reached(b) /\ ~(b \in off /\ "inline" \in scripts)}
    IN  /\ state' = [b \in Areas |->
                        IF b \notin tried THEN state[b]
                        ELSE IF BoxFails(b) THEN "failed"
                        ELSE IF browser.capable THEN "widget" ELSE "fallback"]
        /\ clashes' = (clashes \/ \E b \in tried : state[b] # "plain")
        /\ sawOptions' = IF "inline" \in scripts THEN sawOptions \cup tried ELSE sawOptions

Rest == UNCHANGED <<state, sawOptions, clashes>>

\* Mutant of ReadyOnce: the flag is not looked at.
ReadyAgain == done' = TRUE /\ Discover

\* The end of init in contentLoaded: the first call runs _autoDiscoverFunction.
ReadyOnce ==
    /\ done' = TRUE
    /\ IF done THEN Rest ELSE Discover

\* Mutant of Notify: the listener stays.
NotifyKeeps(event, last) ==
    /\ fired' = IF last THEN fired \cup {event} ELSE fired
    /\ IF event \in listening /\ last THEN ReadyOnce ELSE Rest /\ UNCHANGED done
    /\ UNCHANGED listening

\* An event reaches init if that is registered.  A change of readyState before
\* the last one is ignored and leaves the listener where it is.
Notify(event, last) ==
    /\ fired' = IF last THEN fired \cup {event} ELSE fired
    /\ IF event \in listening /\ last
       THEN listening' = listening \ {event} /\ ReadyOnce
       ELSE Rest /\ UNCHANGED <<listening, done>>

-----------------------------------------------------------------------------
\* Mutant of LoadLibrary: nobody waits for the document.
LoadLibraryAtOnce ==
    /\ scripts = {} /\ phase = "loading"
    /\ scripts' = {"library"}
    /\ ReadyOnce
    /\ UNCHANGED <<pageVars, phase, fired, listening, polling>>

\* Mutant of LoadLibrary: only the standard event is registered.
LoadLibraryStandard ==
    /\ scripts = {} /\ phase = "loading"
    /\ scripts' = {"library"}
    /\ listening' = {"DOMContentLoaded"}
    /\ Rest /\ UNCHANGED <<pageVars, phase, fired, polling, done>>

\* Mutant of LoadLibrary: DOMContentLoaded is not registered.
LoadLibraryLate ==
    /\ scripts = {} /\ phase = "loading"
    /\ scripts' = {"library"}
    /\ listening' = Events \ {"DOMContentLoaded"}
    /\ polling' = browser.doScroll
    /\ Rest /\ UNCHANGED <<pageVars, phase, fired, done>>

\* dropzone.js runs in the head.  The first poll comes at once and fails.
LoadLibrary ==
    /\ scripts = {} /\ phase = "loading"
    /\ scripts' = {"library"}
    /\ listening' = Events
    /\ polling' = browser.doScroll
    /\ Rest /\ UNCHANGED <<pageVars, phase, fired, done>>

\* The script at the end of the body sets Dropzone.options.
RunInline ==
    /\ scripts = {"library"} /\ phase = "loading"
    /\ scripts' = {"library", "inline"}
    /\ Rest /\ UNCHANGED <<pageVars, phase, fired, listening, polling, done>>

\* The parser reaches the end: readyState becomes "interactive".
EndParsing ==
    /\ "inline" \in scripts /\ phase = "loading"
    /\ phase' = "interactive"
    /\ Notify("readystatechange", FALSE)
    /\ UNCHANGED <<pageVars, scripts, polling>>

\* DOMContentLoaded; a browser without addEventListener does not know it.
ContentLoaded ==
    /\ phase = "interactive" /\ browser.listeners /\ "DOMContentLoaded" \notin fired
    /\ Notify("DOMContentLoaded", TRUE)
    /\ UNCHANGED <<pageVars, phase, scripts, polling>>

\* readyState becomes "complete".
Complete ==
    /\ phase = "interactive" /\ (browser.listeners => "DOMContentLoaded" \in fired)
    /\ phase' = "complete"
    /\ Notify("readystatechange", TRUE)
    /\ UNCHANGED <<pageVars, scripts, polling>>

Load ==
    /\ phase = "complete" /\ "load" \notin fired
    /\ Notify("load", TRUE)
    /\ UNCHANGED <<pageVars, phase, scripts, polling>>

\* The timer of poll: doScroll throws, and sets the timer anew, until the
\* document is parsed.
Poll ==
    /\ polling /\ phase # "loading"
    /\ polling' = FALSE
    /\ ReadyOnce
    /\ UNCHANGED <<pageVars, phase, scripts, fired, listening>>

StartNext ==
    \/ LoadLibrary \/ RunInline \/ EndParsing
    \/ ContentLoaded \/ Complete \/ Load \/ Poll

StartSpec == StartInit /\ [][StartNext]_startVars

(* The browser reads the document to its end and runs its timers. *)
StartFairSpec == StartSpec /\ WF_startVars(StartNext)

-----------------------------------------------------------------------------
\* However many of the events come, the document is searched once: no
\* constructor meets an element that has its Dropzone already.
AttachedOnce == ~clashes

\* No box is built before the page has set its options (view.html would get
\* another name for its file, and no reload when the queue is complete).
OptionsFirst == \A b \in Areas : state[b] # "plain" => b \in sawOptions

\* What the page is to look like: boxes whose options are false stay plain, an
\* exception leaves the boxes after it plain.
Outcome(b) ==
    LET broken(c) == c \notin off /\ browser.capable /\ c \in noUrl
        i == CHOOSE k \in DOMAIN Boxes : Boxes[k] = b
    IN  IF b \in off \/ \E j \in 1 .. i - 1 : broken(Boxes[j]) THEN "plain"
        ELSE IF broken(b) THEN "failed"
        ELSE IF browser.capable THEN "widget" ELSE "fallback"

\* When the last event has come the page looks as it should, in every browser,
\* and it does so all at once (discover).
Outfitted ==
    /\ "load" \in fired => state = [b \in Areas |-> Outcome(b)]
    /\ state \in {[b \in Areas |-> "plain"], [b \in Areas |-> Outcome(b)]}

\* A browser with addEventListener shows the boxes before its images are loaded:
\* at DOMContentLoaded, or earlier from poll.
ReadyEarly == "DOMContentLoaded" \in fired => done

\* Until init runs it is registered for exactly the events still to come, so that
\* the first of them, or the poll, finds it (contentLoaded).
Waits ==
    /\ scripts = {} => phase = "loading" /\ ~polling
    /\ phase # "loading" => "inline" \in scripts
    /\ phase = "loading" => fired = {} /\ ~done
    /\ "library" \in scripts => listening = Events \ fired
    /\ fired # {} => done

\* Nothing is built until init has run, and then everything is built right (discover).
Attached ==
    /\ state = [b \in Areas |-> IF done THEN Outcome(b) ELSE "plain"]
    /\ ~clashes
    /\ \A b \in Areas : state[b] # "plain" => b \in sawOptions

StartIInv == StartTypeOK /\ Waits /\ Attached

\* However the document's events come, it is searched once and after its options were
\* set, and afterwards every box is what it should be.
StartInv == StartIInv /\ AttachedOnce /\ OptionsFirst /\ Outfitted /\ ReadyEarly

\* Every page is outfitted some day, in every browser (contentLoaded).
EventuallyOutfitted == "library" \in scripts ~> [](state = [b \in Areas |-> Outcome(b)])
=============================================================================
