----------------------------- MODULE PageProofs -----------------------------
(***************************************************************************)
(* The scripts of the storage page beside its upload queue and thumbnails: *)
(* the start of the page, for every number of boxes and every browser, and *)
(* the text sharing dialog, for all durations of its transitions and every *)
(* order of opening and closing it.                                        *)
(***************************************************************************)
EXTENDS Startup, Modal, FiniteSetTheorems, SequenceTheorems, WellFoundedInduction, TLAPS

-----------------------------------------------------------------------------
(* The start of the page. *)

\* A box has one place in the document.
LEMMA Place ==
    ASSUME NEW b \in Areas
    PROVE  LET i == CHOOSE k \in DOMAIN Boxes : Boxes[k] = b
           IN  /\ i \in DOMAIN Boxes /\ Boxes[i] = b
               /\ \A k \in DOMAIN Boxes : Boxes[k] = b => k = i
  <1>1. \E k \in DOMAIN Boxes : Boxes[k] = b
    BY DEF Areas, ToSet
  <1> QED
    BY <1>1, BoxesAssumption DEF IsInjective

\* On a page of which nothing is built yet, discover builds everything as it
\* should be, if the page has set its options.
LEMMA DiscoverBuilds ==
    ASSUME Discover, "inline" \in scripts, ~clashes, state = [b \in Areas |-> "plain"]
    PROVE  /\ state' = [b \in Areas |-> Outcome(b)] /\ ~clashes'
           /\ \A b \in Areas : state'[b] # "plain" => b \in sawOptions'
  <1> DEFINE broken(b) == b \notin off /\ browser.capable /\ b \in noUrl
             tried == {b \in Areas : Reached(b) /\ ~(b \in off /\ "inline" \in scripts)}
  <1>1. \A b \in Areas : BoxFails(b) <=> broken(b)
    BY DEF BoxFails
  <1>2. ASSUME NEW b \in Areas
        PROVE  /\ Outcome(b) = IF b \notin tried THEN "plain"
                               ELSE IF BoxFails(b) THEN "failed"
                               ELSE IF browser.capable THEN "widget" ELSE "fallback"
    <2> DEFINE i == CHOOSE k \in DOMAIN Boxes : Boxes[k] = b
    <2>1. /\ i \in DOMAIN Boxes /\ Boxes[i] = b
          /\ \A k \in DOMAIN Boxes : Boxes[k] = b => k = i
      BY Place
    <2>2. Outcome(b) = IF b \in off \/ \E j \in 1 .. i - 1 : broken(Boxes[j]) THEN "plain"
                       ELSE IF broken(b) THEN "failed"
                       ELSE IF browser.capable THEN "widget" ELSE "fallback"
      BY DEF Outcome
    <2> HIDE DEF i
    <2>3. DOMAIN Boxes = 1 .. Len(Boxes) /\ Len(Boxes) \in Nat
      BY BoxesAssumption
    <2>4. \A j \in DOMAIN Boxes : Boxes[j] \in Areas
      BY DEF Areas, ToSet
    <2>5. \A j : j \in 1 .. i - 1 <=> j \in DOMAIN Boxes /\ j < i
      BY <2>1, <2>3
    <2>6. Reached(b) <=> ~ \E j \in 1 .. i - 1 : broken(Boxes[j])
      BY <1>1, <2>1, <2>4, <2>5 DEF Reached
    <2> QED
      BY <1>1, <2>2, <2>6
  <1>3. /\ state' = [b \in Areas |-> IF b \notin tried THEN state[b]
                                   ELSE IF BoxFails(b) THEN "failed"
                                   ELSE IF browser.capable THEN "widget" ELSE "fallback"]
        /\ clashes' = (clashes \/ \E b \in tried : state[b] # "plain")
        /\ sawOptions' = sawOptions \cup tried
    BY DEF Discover
  <1> HIDE DEF tried
  <1>4. \A b \in Areas : state[b] = "plain"
    OBVIOUS
  <1>5. state' = [b \in Areas |-> Outcome(b)]
    <2>1. \A b \in Areas : state'[b] = Outcome(b)
      BY <1>2, <1>3, <1>4
    <2> QED
      BY <1>3, <2>1
  <1>6. ~clashes'
    BY <1>3, <1>4 DEF tried
  <1>7. \A b \in Areas : state'[b] # "plain" => b \in sawOptions'
    BY <1>3, <1>4
  <1> QED
    BY <1>5, <1>6, <1>7

\* A box is of one of the kinds that a box may become.
LEMMA OutcomeKinds ==
    ASSUME NEW b
    PROVE  Outcome(b) \in {"plain", "widget", "fallback", "failed"}
  BY DEF Outcome

\* init, called once or again, leaves the page as it should be.
LEMMA ReadyKeeps ==
    ASSUME StartTypeOK, Attached, ReadyOnce, UNCHANGED pageVars, "inline" \in scripts
    PROVE  /\ done' = TRUE /\ Attached'
           /\ state' \in [Areas -> {"plain", "widget", "fallback", "failed"}]
           /\ sawOptions' \subseteq Areas /\ clashes' \in BOOLEAN
  <1>1. done' = TRUE /\ UNCHANGED <<browser, off, noUrl>>
    BY DEF ReadyOnce, pageVars
  <1>2. \A b \in Areas : Outcome(b)' = Outcome(b)
    BY <1>1 DEF Outcome
  <1>3. CASE done
    <2>1. UNCHANGED <<state, sawOptions, clashes>>
      BY <1>3 DEF ReadyOnce, Rest
    <2> QED
      BY <1>1, <1>2, <1>3, <2>1 DEF Attached, StartTypeOK
  <1>4. CASE ~done
    <2>1. Discover
      BY <1>4 DEF ReadyOnce
    <2>2. state = [b \in Areas |-> "plain"] /\ ~clashes
      BY <1>4 DEF Attached
    <2>3. /\ state' = [b \in Areas |-> Outcome(b)] /\ ~clashes'
          /\ \A b \in Areas : state'[b] # "plain" => b \in sawOptions'
      BY <2>1, <2>2, DiscoverBuilds
    <2>4. state' \in [Areas -> {"plain", "widget", "fallback", "failed"}]
      BY <2>3, OutcomeKinds
    <2>5. sawOptions' \subseteq Areas /\ clashes' \in BOOLEAN
      BY <2>1 DEF Discover, StartTypeOK
    <2>6. Attached'
      BY <1>1, <1>2, <2>3 DEF Attached
    <2> QED
      BY <1>1, <2>4, <2>5, <2>6
  <1> QED
    BY <1>3, <1>4

\* An event of the document finds init, or init has run.
LEMMA EventArrives ==
    ASSUME StartIInv, NEW event \in Events, Notify(event, TRUE), phase # "loading",
           UNCHANGED <<pageVars, scripts, polling>>,
           phase' \in {"interactive", "complete"}
    PROVE  StartIInv'
  <1>1. /\ StartTypeOK /\ Attached /\ "inline" \in scripts /\ "library" \in scripts
        /\ listening = Events \ fired
        /\ fired # {} => done
    BY DEF StartIInv, Waits, StartTypeOK
  <1>2. fired' = fired \cup {event}
    BY DEF Notify
  <1>3. CASE event \in listening
    <2>1. listening' = listening \ {event} /\ ReadyOnce
      BY <1>3 DEF Notify
    <2>2. /\ done' = TRUE /\ Attached'
          /\ state' \in [Areas -> {"plain", "widget", "fallback", "failed"}]
          /\ sawOptions' \subseteq Areas /\ clashes' \in BOOLEAN
      BY <1>1, <2>1, ReadyKeeps
    <2>3. StartTypeOK'
      BY <1>1, <1>2, <2>1, <2>2 DEF StartTypeOK, pageVars
    <2>4. Waits'
      BY <1>1, <1>2, <2>1, <2>2 DEF Waits, pageVars
    <2> QED
      BY <2>2, <2>3, <2>4 DEF StartIInv
  <1>4. CASE event \notin listening
    <2>1. UNCHANGED <<listening, done, state, sawOptions, clashes, browser, off, noUrl>>
      BY <1>4 DEF Notify, Rest, pageVars
    <2>2. event \in fired /\ done
      BY <1>1, <1>4
    <2>3. StartTypeOK'
      BY <1>1, <1>2, <2>1, <2>2 DEF StartTypeOK
    <2>4. Waits'
      BY <1>1, <1>2, <2>1, <2>2 DEF Waits, pageVars
    <2>5. Attached'
      BY <1>1, <2>1 DEF Attached, Outcome
    <2> QED
      BY <2>3, <2>4, <2>5 DEF StartIInv
  <1> QED
    BY <1>3, <1>4

\* The inductive invariant of the start, for every page and every browser.
THEOREM StartInvariance ==
    StartSpec => []StartIInv
  <1>1. StartInit => StartIInv
    <2> SUFFICES ASSUME StartInit PROVE StartIInv
      OBVIOUS
    <2>1. state = [b \in Areas |-> "plain"] /\ done = FALSE
      BY DEF StartInit
    <2>2. StartTypeOK
      BY <2>1 DEF StartInit, StartTypeOK
    <2>3. Waits /\ Attached
      BY <2>1 DEF StartInit, Waits, Attached
    <2> QED
      BY <2>2, <2>3 DEF StartIInv
  <1>2. StartIInv /\ [StartNext]_startVars => StartIInv'
    <2> SUFFICES ASSUME StartIInv, [StartNext]_startVars PROVE StartIInv'
      OBVIOUS
    <2>1. StartTypeOK /\ Waits /\ Attached
      BY DEF StartIInv
    <2>2. CASE LoadLibrary \/ RunInline
      <3>1. /\ UNCHANGED <<browser, off, noUrl, phase, fired, done, state, sawOptions, clashes>>
            /\ phase = "loading" /\ fired = {} /\ ~done
        BY <2>1, <2>2 DEF LoadLibrary, RunInline, Rest, pageVars, Waits
      <3>2. Attached'
        BY <2>1, <3>1 DEF Attached, Outcome
      <3>3. browser.doScroll \in BOOLEAN
        BY <2>1, BrowsersAssumption DEF StartTypeOK, Kinds
      <3>4. StartTypeOK'
        BY <2>1, <2>2, <3>1, <3>3 DEF LoadLibrary, RunInline, StartTypeOK
      <3>5. Waits'
        BY <2>1, <2>2, <3>1 DEF LoadLibrary, RunInline, Waits
      <3> QED
        BY <3>2, <3>4, <3>5 DEF StartIInv
    <2>3. CASE EndParsing
      <3>1. /\ UNCHANGED <<browser, off, noUrl, scripts, polling, fired, listening, done, state,
                           sawOptions, clashes>>
            /\ phase = "loading" /\ phase' = "interactive" /\ "inline" \in scripts
        BY <2>3 DEF EndParsing, Notify, Rest, pageVars
      <3>2. Attached'
        BY <2>1, <3>1 DEF Attached, Outcome
      <3>3. StartTypeOK' /\ Waits'
        BY <2>1, <3>1 DEF StartTypeOK, Waits
      <3> QED
        BY <3>2, <3>3 DEF StartIInv
    <2>4. CASE ContentLoaded
      BY <2>1, <2>4, EventArrives DEF ContentLoaded, Events, StartTypeOK
    <2>5. CASE Complete
      BY <2>1, <2>5, EventArrives DEF Complete, Events, StartTypeOK
    <2>6. CASE Load
      BY <2>1, <2>6, EventArrives DEF Load, Events, StartTypeOK
    <2>7. CASE Poll
      <3>1. /\ phase # "loading" /\ ReadyOnce /\ polling' = FALSE
            /\ UNCHANGED <<pageVars, phase, scripts, fired, listening>>
            /\ "inline" \in scripts
        BY <2>1, <2>7 DEF Poll, Waits
      <3>2. /\ done' = TRUE /\ Attached'
            /\ state' \in [Areas -> {"plain", "widget", "fallback", "failed"}]
            /\ sawOptions' \subseteq Areas /\ clashes' \in BOOLEAN
        BY <2>1, <3>1, ReadyKeeps
      <3>3. StartTypeOK'
        BY <2>1, <3>1, <3>2 DEF StartTypeOK, pageVars
      <3>4. Waits'
        BY <2>1, <3>1, <3>2 DEF Waits
      <3> QED
        BY <3>2, <3>3, <3>4 DEF StartIInv
    <2>8. CASE UNCHANGED startVars
      BY <2>1, <2>8 DEF startVars, StartIInv, StartTypeOK, Waits, Attached, Outcome
    <2> QED
      BY <2>2, <2>3, <2>4, <2>5, <2>6, <2>7, <2>8 DEF StartNext
  <1> QED
    BY <1>1, <1>2, PTL DEF StartSpec

\* StartInv for every page and every browser: contentLoaded searches the document
\* once, when the options are set, and leaves every box as it should be.
THEOREM PageStartsOnce ==
    StartSpec => []StartInv
  <1>1. StartIInv => StartInv
    <2> SUFFICES ASSUME StartIInv PROVE StartInv
      OBVIOUS
    <2>1. StartTypeOK /\ AttachedOnce /\ OptionsFirst
      BY DEF StartIInv, Attached, AttachedOnce, OptionsFirst
    <2>2. Outfitted
      BY DEF StartIInv, Attached, Waits, Outfitted
    <2>3. ReadyEarly
      BY DEF StartIInv, Waits, ReadyEarly
    <2> QED
      BY <2>1, <2>2, <2>3 DEF StartInv
  <1> QED
    BY <1>1, StartInvariance, PTL

-----------------------------------------------------------------------------
(* The text sharing dialog.                                                  *)

\* A set of natural numbers that is not empty has a least element; what the proofs by
\* induction below rest on.
LEMMA LeastNumber ==
    ASSUME NEW T, T \subseteq Nat, T # {}
    PROVE  \E x \in T : \A y \in T : x <= y
  <1> DEFINE Below == {p \in Nat \X Nat : p[1] < p[2]}
  <1>1. IsWellFoundedOn(Below, Nat)
    <2>1. ~ \E f \in [Nat -> Nat] : \A n \in Nat : f[n + 1] < f[n]
      BY NatLessThanWellFounded DEF IsWellFoundedOn, OpToRel
    <2> QED
      BY <2>1 DEF IsWellFoundedOn
  <1>2. \A x, y \in T : <<y, x>> \in Below <=> y < x
    OBVIOUS
  <1> HIDE DEF Below
  <1>3. \E x \in T : \A y \in T : <<y, x>> \notin Below
    BY <1>1, WFMin
  <1>4. \A x \in T : x \in Nat
    OBVIOUS
  <1>5. PICK x \in T : \A y \in T : ~ (y < x)
    BY <1>2, <1>3
  <1>6. \A y \in T : x <= y
    BY <1>4, <1>5
  <1> QED
    BY <1>6

\* The states a dispatch goes through.
Runs(g, s, node, calls, last) ==
    g = [k \in 0 .. last |-> IF k = 0 THEN s ELSE Call(Unbind(g[k - 1], node), calls[k])]

\* There is a function of them.
LEMMA RunExists ==
    ASSUME NEW s, NEW node, NEW calls, NEW last \in Nat
    PROVE  \E g : Runs(g, s, node, calls, last)
  <1> DEFINE Has(n) == \E g : Runs(g, s, node, calls, n)
             T == {n \in Nat : ~Has(n)}
  <1>1. Has(0)
    <2>1. [k \in 0 .. 0 |-> s] = [k \in 0 .. 0 |->
            IF k = 0 THEN s ELSE Call(Unbind([j \in 0 .. 0 |-> s][k - 1], node), calls[k])]
      OBVIOUS
    <2> QED
      BY <2>1 DEF Runs
  <1>2. ASSUME NEW n \in Nat, n # 0, Has(n - 1) PROVE Has(n)
    <2>1. PICK g : g = [k \in 0 .. n - 1 |->
                          IF k = 0 THEN s ELSE Call(Unbind(g[k - 1], node), calls[k])]
      BY <1>2 DEF Runs
    <2> DEFINE h == [k \in 0 .. n |-> IF k = n THEN Call(Unbind(g[n - 1], node), calls[n])
                                      ELSE g[k]]
    <2>2. \A k \in 0 .. n :
            h[k] = IF k = 0 THEN s ELSE Call(Unbind(h[k - 1], node), calls[k])
      <3> SUFFICES ASSUME NEW k \in 0 .. n
                   PROVE  h[k] = IF k = 0 THEN s ELSE Call(Unbind(h[k - 1], node), calls[k])
        OBVIOUS
      <3>1. CASE k = n
        BY <1>2, <3>1
      <3>2. CASE k # n
        <4>1. k \in 0 .. n - 1 /\ h[k] = g[k]
          BY <3>2
        <4>2. k # 0 => k - 1 \in 0 .. n /\ k - 1 # n /\ h[k - 1] = g[k - 1]
          BY <3>2
        <4>3. g[k] = IF k = 0 THEN s ELSE Call(Unbind(g[k - 1], node), calls[k])
          BY <2>1, <4>1
        <4> QED
          BY <4>1, <4>2, <4>3
      <3> QED
        BY <3>1, <3>2
    <2>3. h = [k \in 0 .. n |-> IF k = 0 THEN s ELSE Call(Unbind(h[k - 1], node), calls[k])]
      BY <2>2
    <2> QED
      BY <2>3 DEF Runs
  <1> HIDE DEF Has
  <1>3. T = {}
    <2> SUFFICES ASSUME T # {} PROVE FALSE
      OBVIOUS
    <2>1. PICK n \in T : \A k \in T : n <= k
      BY LeastNumber
    <2>2. n \in Nat /\ ~Has(n)
      OBVIOUS
    <2>3. n # 0 => n - 1 \in Nat /\ n - 1 \notin T
      BY <2>1, <2>2
    <2> QED
      BY <1>1, <1>2, <2>2, <2>3
  <1>4. Has(last)
    BY <1>3
  <1> QED
    BY <1>4 DEF Has

\* What a dispatch ends in: the state after all the calls or after one that throws.
RunOf(run, s, node, timer) ==
    LET calls == s.pend[node]
        Throws(k) == calls[k] = "opened" /\ run[k - 1].backdrop = None
    IN  /\ run[0] = s
        /\ \A k \in 1 .. Len(calls) : run[k] = Call(Unbind(run[k - 1], node), calls[k])
        /\ \/ /\ ~ \E k \in 1 .. Len(calls) : Throws(k)
              /\ Dispatch(s, node, timer) = run[Len(calls)]
           \/ \E k \in 1 .. Len(calls) :
                Throws(k) /\ Dispatch(s, node, timer) = [run[k] EXCEPT !.due[node] = timer]

LEMMA DispatchRuns ==
    ASSUME NEW s, NEW node, NEW timer, s.pend[node] \in Seq(Callbacks)
    PROVE  \E run : RunOf(run, s, node, timer)
  <1> DEFINE calls == s.pend[node]
             F(g) == [k \in 0 .. Len(calls) |->
                        IF k = 0 THEN s ELSE Call(Unbind(g[k - 1], node), calls[k])]
             after == CHOOSE g : g = F(g)
             thrown == {k \in 1 .. Len(calls) : calls[k] = "opened" /\ after[k - 1].backdrop = None}
             first == CHOOSE k \in thrown : \A j \in thrown : k <= j
  <1>1. Dispatch(s, node, timer) = IF thrown = {} THEN after[Len(calls)]
                                   ELSE [after[first] EXCEPT !.due[node] = timer]
    BY DEF Dispatch
  <1>2. Len(calls) \in Nat
    OBVIOUS
  <1>3. after = F(after)
    <2> HIDE DEF calls
    <2>1. \E g : Runs(g, s, node, calls, Len(calls))
      BY <1>2, RunExists
    <2> QED
      BY <2>1 DEF Runs
  <1> HIDE DEF after, calls
  <1>4. /\ after[0] = s
        /\ \A k \in 1 .. Len(calls) : after[k] = Call(Unbind(after[k - 1], node), calls[k])
    BY <1>2, <1>3
  <1>5. thrown # {} => first \in thrown
    <2> SUFFICES ASSUME thrown # {} PROVE \E k \in thrown : \A j \in thrown : k <= j
      OBVIOUS
    <2>1. thrown \subseteq Nat
      BY <1>2
    <2> QED
      BY <2>1, LeastNumber
  <1> HIDE DEF first
  <1>6. \/ /\ ~ \E k \in 1 .. Len(calls) : calls[k] = "opened" /\ after[k - 1].backdrop = None
           /\ Dispatch(s, node, timer) = after[Len(calls)]
        \/ \E k \in 1 .. Len(calls) :
             /\ calls[k] = "opened" /\ after[k - 1].backdrop = None
             /\ Dispatch(s, node, timer) = [after[k] EXCEPT !.due[node] = timer]
    BY <1>1, <1>5
  <1>7. RunOf(after, s, node, timer)
    BY <1>4, <1>6 DEF RunOf, calls
  <1> QED
    BY <1>7

\* one(...).emulateTransitionEnd(...) changes the callbacks and the timer of one node.
LEMMA Ended ==
    ASSUME NEW s \in State, NEW node \in Nodes, NEW c \in Callbacks, NEW ticks \in Nat
    PROVE  LET t == WhenEnded(s, node, c, ticks)
           IN  /\ t \in State
               /\ \A n \in Nodes :
                    t.pend[n] = IF n = node THEN Append(s.pend[n], c) ELSE s.pend[n]
               /\ \A n \in Nodes :
                    t.due[n] = IF n = node /\ s.pend[n] = <<>> THEN ticks ELSE s.due[n]
               /\ t.isShown = s.isShown /\ t.visible = s.visible /\ t.open = s.open
               /\ t.padding = s.padding /\ t.backdrop = s.backdrop /\ t.dom = s.dom
               /\ t.in = s.in /\ t.trap = s.trap
               /\ t.hasty = s.hasty /\ t.left = s.left /\ t.cut = s.cut
  <1> DEFINE t == WhenEnded(s, node, c, ticks)
  <1>1. /\ s.pend \in [Nodes -> Seq(Callbacks)] /\ s.due \in [Nodes -> Nat]
    BY DEF State
  <1>2. t.pend = [s.pend EXCEPT ![node] = Append(@, c)]
    BY DEF WhenEnded, State
  <1>3. t.due = [s.due EXCEPT ![node] = IF s.pend[node] = <<>> THEN ticks ELSE @]
    BY DEF WhenEnded, State
  <1>4. t \in State
    <2>1. t.pend \in [Nodes -> Seq(Callbacks)] /\ t.due \in [Nodes -> Nat]
      BY <1>1, <1>2, <1>3
    <2>2. t = [s EXCEPT !.pend = t.pend, !.due = t.due]
      BY <1>2, <1>3 DEF WhenEnded, State
    <2> QED
      BY <2>1, <2>2 DEF State
  <1>5. /\ t.isShown = s.isShown /\ t.visible = s.visible /\ t.open = s.open
        /\ t.padding = s.padding /\ t.backdrop = s.backdrop /\ t.dom = s.dom
        /\ t.in = s.in /\ t.trap = s.trap
        /\ t.hasty = s.hasty /\ t.left = s.left /\ t.cut = s.cut
    BY DEF WhenEnded, State
  <1> HIDE DEF t
  <1> QED
    BY <1>1, <1>2, <1>3, <1>4, <1>5 DEF t

\* Giving the page back changes nothing else.
LEMMA ClosedResult ==
    ASSUME NEW s \in State, NEW t, t = Closed(s)
    PROVE  /\ t \in State /\ t.open = FALSE /\ t.padding = 0
           /\ t.pend = s.pend /\ t.due = s.due /\ t.dom = s.dom /\ t.backdrop = s.backdrop
           /\ t.isShown = s.isShown /\ t.visible = s.visible /\ t.in = s.in /\ t.trap = s.trap
           /\ t.hasty = s.hasty /\ t.left = s.left /\ t.cut = s.cut
  <1>1. t = [[s EXCEPT !.open = FALSE] EXCEPT !.padding = 0]
    BY DEF Closed, State
  <1>2. [s EXCEPT !.open = FALSE] \in State /\ 0 \in Nat
    BY DEF State
  <1>3. t \in State
    BY <1>1, <1>2 DEF State
  <1> QED
    BY <1>3 DEF Closed, State

\* A backdrop that is taken out of the page loses its callbacks.
LEMMA RemovedResult ==
    ASSUME NEW s \in State, NEW t, t = RemoveBackdrop(s)
    PROVE  /\ t \in State /\ t.dom \subseteq s.dom
           /\ \A n \in Nodes : t.pend[n] = IF n = s.backdrop /\ n \in Backdrops THEN <<>>
                                           ELSE s.pend[n]
           /\ s.backdrop # None => t.dom = s.dom \ {s.backdrop}
           /\ t.due = s.due /\ t.open = s.open /\ t.padding = s.padding
           /\ t.isShown = s.isShown /\ t.visible = s.visible /\ t.in = s.in /\ t.trap = s.trap
           /\ t.hasty = s.hasty /\ t.left = s.left /\ t.cut = s.cut
  <1>1. s.backdrop \in Backdrops \cup {None} /\ None \notin Backdrops
    BY ModalAssumption DEF State
  <1>2. CASE s.backdrop = None
    BY <1>1, <1>2 DEF RemoveBackdrop
  <1>3. CASE s.backdrop # None
    <2> DEFINE b == s.backdrop
               p == [s.pend EXCEPT ![b] = <<>>]
               d == s.dom \ {b}
    <2>1. t = [s EXCEPT !.dom = d, !.pend = p, !.backdrop = None]
      BY <1>3 DEF RemoveBackdrop, State
    <2>2. b \in Backdrops /\ b \in Nodes /\ s.pend \in [Nodes -> Seq(Callbacks)]
      BY <1>1, <1>3 DEF State, Nodes
    <2>3. /\ p \in [Nodes -> Seq(Callbacks)]
          /\ \A n \in Nodes : p[n] = IF n = b THEN <<>> ELSE s.pend[n]
      BY <2>2
    <2>4. d \in SUBSET Backdrops /\ d = s.dom \ {b}
      BY DEF State
    <2> HIDE DEF p, d
    <2>5. /\ t.pend = p /\ t.dom = d /\ t.due = s.due /\ t.open = s.open
          /\ t.padding = s.padding /\ t.isShown = s.isShown /\ t.visible = s.visible
          /\ t.in = s.in /\ t.trap = s.trap
          /\ t.hasty = s.hasty /\ t.left = s.left /\ t.cut = s.cut
      BY <2>1 DEF State
    <2>6. t \in State
      <3>1. t = [[[s EXCEPT !.dom = d] EXCEPT !.pend = p] EXCEPT !.backdrop = None]
        BY <2>1 DEF State
      <3>2. [s EXCEPT !.dom = d] \in State
        BY <2>4 DEF State
      <3>3. [[s EXCEPT !.dom = d] EXCEPT !.pend = p] \in State
        BY <2>3, <3>2 DEF State
      <3> QED
        BY <3>1, <3>3 DEF State
    <2> QED
      BY <1>3, <2>2, <2>3, <2>4, <2>5, <2>6
  <1> QED
    BY <1>2, <1>3

\* Unbinding the callback that is to run.
LEMMA UnbindResult ==
    ASSUME NEW s \in State, NEW node \in Nodes, NEW t, t = Unbind(s, node)
    PROVE  /\ t \in State
           /\ \A n \in Nodes \ {node} : t.pend[n] = s.pend[n]
           /\ t.pend[node] = IF s.pend[node] = <<>> THEN <<>> ELSE Tail(s.pend[node])
           /\ t.dom = s.dom /\ t.backdrop = s.backdrop /\ t.due = s.due
           /\ t.open = s.open /\ t.padding = s.padding
           /\ t.isShown = s.isShown /\ t.visible = s.visible /\ t.in = s.in /\ t.trap = s.trap
           /\ t.hasty = s.hasty /\ t.left = s.left /\ t.cut = s.cut
  <1> DEFINE q == IF s.pend[node] = <<>> THEN <<>> ELSE Tail(s.pend[node])
             p == [s.pend EXCEPT ![node] = q]
  <1>1. s.pend \in [Nodes -> Seq(Callbacks)] /\ s.pend[node] \in Seq(Callbacks)
    BY DEF State
  <1>2. t = [s EXCEPT !.pend = p]
    BY <1>1 DEF Unbind, State
  <1>3. q \in Seq(Callbacks)
    BY <1>1
  <1> HIDE DEF q
  <1>4. /\ p \in [Nodes -> Seq(Callbacks)] /\ p[node] = q
        /\ \A n \in Nodes \ {node} : p[n] = s.pend[n]
    BY <1>1, <1>3
  <1> HIDE DEF p
  <1>5. t \in State /\ t.pend = p
    BY <1>2, <1>4 DEF State
  <1> QED
    BY <1>2, <1>4, <1>5 DEF State, q

\* As long as not all backdrops are in the page there is a fresh one.
LEMMA FreshBackdrop ==
    ASSUME NEW d \in SUBSET Backdrops, Cardinality(d) < Cardinality(Backdrops)
    PROVE  LET b == CHOOSE x \in Backdrops : x \notin d
           IN  /\ b \in Backdrops \ d
               /\ Cardinality(d \cup {b}) = Cardinality(d) + 1
  <1>1. IsFiniteSet(d) /\ Cardinality(d) \in Nat /\ Cardinality(Backdrops) \in Nat
    BY ModalAssumption, FS_Subset, FS_CardinalityType
  <1>2. d # Backdrops
    BY <1>1
  <1>3. \E x \in Backdrops : x \notin d
    BY <1>2
  <1> QED
    BY <1>1, <1>3, FS_AddElement

\* A fresh backdrop takes the place of the last, and a callback waits for it.
LEMMA AddBackdropResult ==
    ASSUME NEW s \in State, NEW c \in Callbacks,
           Cardinality(s.dom) < Cardinality(Backdrops)
    PROVE  LET t == AddBackdrop(s, c)
           IN  \E b \in Backdrops \ s.dom :
                /\ t \in State /\ t.backdrop = b /\ t.dom = s.dom \cup {b}
                /\ Cardinality(t.dom) = Cardinality(s.dom) + 1
                /\ \A n \in Nodes :
                     t.pend[n] = IF n = b THEN Append(s.pend[n], c) ELSE s.pend[n]
                /\ \A n \in Nodes :
                     t.due[n] = IF n = b /\ s.pend[n] = <<>> THEN BackdropTicks ELSE s.due[n]
                /\ t.isShown = s.isShown /\ t.visible = s.visible /\ t.open = s.open
                /\ t.padding = s.padding /\ t.in = s.in /\ t.trap = s.trap
                /\ t.hasty = s.hasty /\ t.left = s.left /\ t.cut = s.cut
  <1> DEFINE b == CHOOSE x \in Backdrops : x \notin s.dom
             d == s.dom \cup {b}
             w == [s EXCEPT !.backdrop = b, !.dom = d]
             t == WhenEnded(w, b, c, BackdropTicks)
  <1>1. AddBackdrop(s, c) = t
    BY DEF AddBackdrop
  <1>2. s.dom \in SUBSET Backdrops
    BY DEF State
  <1>3. b \in Backdrops \ s.dom /\ Cardinality(d) = Cardinality(s.dom) + 1
    BY <1>2, FreshBackdrop
  <1> HIDE DEF b
  <1>4. d \in SUBSET Backdrops /\ b \in Nodes /\ BackdropTicks \in Nat
    BY <1>2, <1>3, ModalAssumption DEF Nodes
  <1>5. /\ w \in State /\ w.pend = s.pend /\ w.due = s.due /\ w.dom = d /\ w.backdrop = b
        /\ w.isShown = s.isShown /\ w.visible = s.visible /\ w.open = s.open
        /\ w.padding = s.padding /\ w.in = s.in /\ w.trap = s.trap
        /\ w.hasty = s.hasty /\ w.left = s.left /\ w.cut = s.cut
    <2> HIDE DEF d
    <2> QED
      BY <1>3, <1>4 DEF State
  <1> HIDE DEF w
  <1>6. /\ t \in State
        /\ \A n \in Nodes : t.pend[n] = IF n = b THEN Append(w.pend[n], c) ELSE w.pend[n]
        /\ \A n \in Nodes :
             t.due[n] = IF n = b /\ w.pend[n] = <<>> THEN BackdropTicks ELSE w.due[n]
        /\ t.isShown = w.isShown /\ t.visible = w.visible /\ t.open = w.open
        /\ t.padding = w.padding /\ t.backdrop = w.backdrop /\ t.dom = w.dom
        /\ t.in = w.in /\ t.trap = w.trap
        /\ t.hasty = w.hasty /\ t.left = w.left /\ t.cut = w.cut
    BY <1>4, <1>5, Ended
  <1> HIDE DEF t
  <1>7. /\ t.dom = d /\ t.backdrop = b
        /\ \A n \in Nodes : t.pend[n] = IF n = b THEN Append(s.pend[n], c) ELSE s.pend[n]
        /\ \A n \in Nodes :
             t.due[n] = IF n = b /\ s.pend[n] = <<>> THEN BackdropTicks ELSE s.due[n]
    BY <1>5, <1>6
  <1> QED
    BY <1>1, <1>3, <1>5, <1>6, <1>7

\* A callback that is due leaves the page freed or to be freed, and needs no more
\* backdrops than there are.
LEMMA CallKeeps ==
    ASSUME NEW s \in State, Freeing(s), Room(s), NEW node \in Nodes, NEW c \in Callbacks,
           c = "hideModal" <=> node = "element",
           s.pend[node] # <<>> => Head(s.pend[node]) = c,
           node = "element" => s.pend[node] # <<>>,
           NEW t, t = Call(Unbind(s, node), c)
    PROVE  /\ t \in State /\ Freeing(t) /\ Room(t)
           /\ t.isShown = s.isShown /\ t.hasty = s.hasty
           /\ \/ t.pend[node] = IF s.pend[node] = <<>> THEN <<>> ELSE Tail(s.pend[node])
              \/ node # "element" /\ t.pend[node] = <<>>
  <1> DEFINE u == Unbind(s, node)
  <1>1. /\ u \in State
        /\ \A n \in Nodes \ {node} : u.pend[n] = s.pend[n]
        /\ u.pend[node] = IF s.pend[node] = <<>> THEN <<>> ELSE Tail(s.pend[node])
        /\ u.dom = s.dom /\ u.backdrop = s.backdrop
        /\ u.open = s.open /\ u.padding = s.padding
        /\ u.isShown = s.isShown /\ u.hasty = s.hasty
    BY UnbindResult
  <1>2. t = Call(u, c)
    OBVIOUS
  <1> HIDE DEF u
  <1>3. /\ "element" \in Nodes /\ "element" \notin Backdrops /\ None \notin Backdrops
        /\ \A b \in Backdrops : b \in Nodes /\ b # "element"
        /\ \A n \in Nodes : n = "element" \/ n \in Backdrops
        /\ BackdropTicks \in Nat
        /\ "closed" \in Callbacks /\ "callbackRemove" \in Callbacks
    BY ModalAssumption DEF Nodes, Callbacks
  <1>4. /\ s.pend \in [Nodes -> Seq(Callbacks)] /\ s.dom \in SUBSET Backdrops
        /\ s.isShown \in BOOLEAN
    BY DEF State
  <1>5. /\ \A n \in Nodes : s.pend[n] \in Seq(Kind(n))
        /\ Cardinality(s.dom) + Len(s.pend["element"]) + (IF s.isShown THEN 1 ELSE 0)
              <= Cardinality(Backdrops)
    BY DEF Room
  <1>6. \A n \in Nodes : u.pend[n] \in Seq(Kind(n))
    <2>1. s.pend[node] # <<>> => Tail(s.pend[node]) \in Seq(Kind(node))
      BY <1>5
    <2>2. <<>> \in Seq(Kind(node))
      OBVIOUS
    <2> QED
      BY <1>1, <1>5, <2>1, <2>2
  <1>7. /\ IsFiniteSet(s.dom) /\ Cardinality(s.dom) \in Nat /\ Cardinality(Backdrops) \in Nat
        /\ \A d \in SUBSET s.dom : Cardinality(d) \in Nat /\ Cardinality(d) <= Cardinality(s.dom)
    <2>1. IsFiniteSet(s.dom)
      BY <1>4, ModalAssumption, FS_Subset
    <2> QED
      BY <2>1, ModalAssumption, FS_Subset, FS_CardinalityType
  <1>8. CASE c = "opened"
    <2>1. /\ t \in State /\ t.pend = u.pend /\ t.dom = u.dom
          /\ t.open = u.open /\ t.padding = u.padding
          /\ t.isShown = u.isShown /\ t.hasty = u.hasty
      <3>1. t = Opened(u)
        BY <1>2, <1>8 DEF Call
      <3> QED
        BY <1>1, <3>1 DEF Opened, State
    <2>2. node # "element" /\ t.pend["element"] = s.pend["element"]
      BY <1>1, <1>3, <1>8, <2>1
    <2>3. Room(t)
      BY <1>1, <1>5, <1>6, <2>1, <2>2 DEF Room
    <2>4. Freeing(t)
      <3>1. ASSUME ToClose(s) PROVE ToClose(t)
        <4>1. PICK n \in Nodes : Closes(s.pend[n])
          BY <3>1 DEF ToClose
        <4>2. CASE n # node
          BY <1>1, <2>1, <4>1, <4>2 DEF ToClose
        <4>3. CASE n = node
          <5>1. PICK k \in 1 .. Len(s.pend[n]) : s.pend[n][k] \in Closers
            BY <4>1 DEF Closes
          <5>2. s.pend[node] \in Seq(Callbacks) /\ s.pend[node] # <<>>
            BY <1>4, <4>3, <5>1
          <5>3. s.pend[node][1] = "opened" /\ k # 1
            BY <1>8, <4>3, <5>1, <5>2 DEF Closers
          <5>4. /\ t.pend[node] = Tail(s.pend[node])
                /\ k - 1 \in 1 .. Len(Tail(s.pend[node]))
                /\ Tail(s.pend[node])[k - 1] = s.pend[node][k]
            BY <1>1, <2>1, <4>3, <5>1, <5>2, <5>3
          <5> QED
            BY <4>3, <5>1, <5>4 DEF ToClose, Closes
        <4> QED
          BY <4>2, <4>3
      <3> QED
        BY <1>1, <2>1, <3>1 DEF Freeing
    <2> QED
      BY <1>1, <2>1, <2>3, <2>4
  <1>9. CASE c = "closed"
    <2>1. /\ t \in State /\ t.open = FALSE /\ t.padding = 0 /\ t.pend = u.pend /\ t.dom = u.dom
          /\ t.isShown = u.isShown /\ t.hasty = u.hasty
      <3>1. t = Closed(u)
        BY <1>2, <1>9 DEF Call
      <3> QED
        BY <1>1, <3>1, ClosedResult
    <2>2. node # "element" /\ t.pend["element"] = s.pend["element"]
      BY <1>1, <1>3, <1>9, <2>1
    <2>3. Room(t)
      BY <1>1, <1>5, <1>6, <2>1, <2>2 DEF Room
    <2> QED
      BY <1>1, <2>1, <2>3 DEF Freeing
  <1>10. CASE c = "callbackRemove"
    <2> DEFINE v == RemoveBackdrop(u)
    <2>1. /\ v \in State /\ v.dom \subseteq u.dom
          /\ \A n \in Nodes : v.pend[n] = IF n = u.backdrop /\ n \in Backdrops THEN <<>>
                                          ELSE u.pend[n]
          /\ v.isShown = u.isShown /\ v.hasty = u.hasty
      BY <1>1, RemovedResult
    <2>2. t = Closed(v)
      BY <1>2, <1>10 DEF Call
    <2> HIDE DEF v
    <2>3. /\ t \in State /\ t.open = FALSE /\ t.padding = 0 /\ t.pend = v.pend /\ t.dom = v.dom
          /\ t.isShown = v.isShown /\ t.hasty = v.hasty
      BY <2>1, <2>2, ClosedResult
    <2>4. node # "element" /\ t.pend["element"] = s.pend["element"]
      BY <1>1, <1>3, <1>10, <2>1, <2>3
    <2>5. \A n \in Nodes : t.pend[n] \in Seq(Kind(n))
      <3>1. \A n \in Nodes : <<>> \in Seq(Kind(n))
        OBVIOUS
      <3> QED
        BY <1>6, <2>1, <2>3, <3>1
    <2>6. Cardinality(t.dom) \in Nat /\ Cardinality(t.dom) <= Cardinality(s.dom)
      BY <1>1, <1>7, <2>1, <2>3
    <2>7. Room(t)
      <3>1. Len(s.pend["element"]) \in Nat
        BY <1>3, <1>4
      <3> QED
        BY <1>1, <1>3, <1>5, <1>7, <2>1, <2>3, <2>4, <2>5, <2>6, <3>1 DEF Room
    <2>8. t.pend[node] = u.pend[node] \/ t.pend[node] = <<>>
      BY <2>1, <2>3
    <2> QED
      BY <1>1, <2>1, <2>3, <2>4, <2>7, <2>8 DEF Freeing
  <1>11. CASE c = "hideModal"
    <2> DEFINE v == [u EXCEPT !.visible = FALSE]
    <2>1. /\ v \in State /\ v.pend = u.pend /\ v.dom = u.dom /\ v.backdrop = u.backdrop
          /\ v.open = u.open /\ v.padding = u.padding
          /\ v.isShown = u.isShown /\ v.hasty = u.hasty
      BY <1>1 DEF State
    <2>2. t = DropBackdrop(v)
      BY <1>2, <1>11 DEF Call, HideModal
    <2> HIDE DEF v
    <2>3. /\ node = "element" /\ v.pend["element"] = Tail(s.pend["element"])
          /\ Len(s.pend["element"]) \in Nat /\ Len(s.pend["element"]) # 0
          /\ Len(v.pend["element"]) = Len(s.pend["element"]) - 1
      <3>1. node = "element"
        BY <1>11
      <3>2. s.pend["element"] \in Seq(Callbacks) /\ s.pend["element"] # <<>>
        BY <1>3, <1>4, <3>1
      <3>3. v.pend["element"] = Tail(s.pend["element"])
        BY <1>1, <2>1, <3>1, <3>2
      <3> QED
        BY <3>1, <3>2, <3>3
    <2>4. CASE v.isShown
      <3>1. t = AddBackdrop(v, "closed")
        BY <2>1, <2>2, <2>4 DEF DropBackdrop, State
      <3>2. Cardinality(v.dom) < Cardinality(Backdrops)
        BY <1>1, <1>4, <1>5, <1>7, <2>1, <2>3, <2>4
      <3>3. PICK b \in Backdrops \ v.dom :
              /\ t \in State /\ Cardinality(t.dom) = Cardinality(v.dom) + 1
              /\ \A n \in Nodes : t.pend[n] = IF n = b THEN Append(v.pend[n], "closed")
                                              ELSE v.pend[n]
              /\ t.isShown = v.isShown /\ t.hasty = v.hasty
        <4>1. v \in State /\ "closed" \in Callbacks
          BY <1>3, <2>1
        <4> QED
          BY <3>1, <3>2, <4>1, AddBackdropResult
      <3>6. t.pend["element"] = v.pend["element"]
        BY <1>3, <3>3
      <3>7. \A n \in Nodes : t.pend[n] \in Seq(Kind(n))
        <4>1. b \in Nodes /\ v.pend[b] \in Seq(Kind(b)) /\ "closed" \in Kind(b)
          BY <1>3, <1>6, <2>1, <3>3 DEF Kind
        <4>2. Append(v.pend[b], "closed") \in Seq(Kind(b))
          BY <4>1
        <4> QED
          BY <1>6, <2>1, <3>3, <4>2
      <3>8. Room(t)
        <4>2. Cardinality(t.dom) + Len(t.pend["element"]) + 1 <= Cardinality(Backdrops)
          <5>1. /\ Cardinality(t.dom) = Cardinality(s.dom) + 1
                /\ Len(t.pend["element"]) = Len(s.pend["element"]) - 1
            BY <1>1, <2>1, <2>3, <3>3, <3>6
          <5>2. s.isShown
            BY <1>1, <2>1, <2>4
          <5> QED
            BY <1>5, <1>7, <2>3, <5>1, <5>2
        <4> QED
          BY <2>4, <3>3, <3>7, <4>2 DEF Room
      <3> QED
        BY <1>1, <2>1, <2>3, <2>4, <3>3, <3>6, <3>8 DEF Freeing
    <2>5. CASE ~v.isShown /\ v.backdrop # None
      <3> DEFINE b == v.backdrop
      <3>1. t = WhenEnded(v, b, "callbackRemove", BackdropTicks)
        BY <2>2, <2>5 DEF DropBackdrop
      <3>2. b \in Backdrops /\ b \in Nodes
        <4>1. v.backdrop \in Backdrops \cup {None}
          BY <2>1 DEF State
        <4> QED
          BY <1>3, <2>5, <4>1
      <3> HIDE DEF b
      <3>3. /\ t \in State
            /\ \A n \in Nodes : t.pend[n] = IF n = b THEN Append(v.pend[n], "callbackRemove")
                                            ELSE v.pend[n]
            /\ t.isShown = v.isShown /\ t.hasty = v.hasty /\ t.dom = v.dom
        <4>1. /\ v \in State /\ b \in Nodes /\ "callbackRemove" \in Callbacks
              /\ BackdropTicks \in Nat
          BY <1>3, <2>1, <3>2
        <4>2. LET x == WhenEnded(v, b, "callbackRemove", BackdropTicks)
              IN  /\ x \in State
                  /\ \A n \in Nodes : x.pend[n] = IF n = b THEN Append(v.pend[n], "callbackRemove")
                                                  ELSE v.pend[n]
                  /\ x.isShown = v.isShown /\ x.hasty = v.hasty /\ x.dom = v.dom
          BY <4>1, Ended
        <4> QED
          BY <3>1, <4>2
      <3>4. t.pend["element"] = v.pend["element"]
        BY <1>3, <3>2, <3>3
      <3>6. \A n \in Nodes : t.pend[n] \in Seq(Kind(n))
        <4>1. v.pend[b] \in Seq(Kind(b)) /\ "callbackRemove" \in Kind(b)
          BY <1>3, <1>6, <2>1, <3>2 DEF Kind
        <4>2. Append(v.pend[b], "callbackRemove") \in Seq(Kind(b))
          BY <4>1
        <4> QED
          BY <1>6, <2>1, <3>3, <4>2
      <3>7. Room(t)
        <4>2. Cardinality(t.dom) + Len(t.pend["element"]) + 0 <= Cardinality(Backdrops)
          <5>1. t.dom = s.dom /\ Len(t.pend["element"]) = Len(s.pend["element"]) - 1
            BY <1>1, <2>1, <2>3, <3>3, <3>4
          <5>2. ~s.isShown
            BY <1>1, <2>1, <2>5
          <5> QED
            BY <1>5, <1>7, <2>3, <5>1, <5>2
        <4> QED
          BY <2>5, <3>3, <3>6, <4>2 DEF Room
      <3>8. ToClose(t)
        <4>1. v.pend[b] \in Seq(Callbacks) /\ t.pend[b] = Append(v.pend[b], "callbackRemove")
          BY <2>1, <3>2, <3>3 DEF State
        <4>2. /\ Len(t.pend[b]) \in 1 .. Len(t.pend[b])
              /\ t.pend[b][Len(t.pend[b])] = "callbackRemove"
          BY <4>1
        <4>3. "callbackRemove" \in Closers
          BY DEF Closers
        <4> QED
          BY <3>2, <4>2, <4>3 DEF ToClose, Closes
      <3> QED
        BY <1>1, <2>1, <2>3, <3>3, <3>4, <3>7, <3>8 DEF Freeing
    <2>6. CASE ~v.isShown /\ v.backdrop = None
      <3>1. t = Closed(v)
        BY <2>2, <2>6 DEF DropBackdrop
      <3>2. /\ t \in State /\ t.open = FALSE /\ t.padding = 0 /\ t.pend = v.pend
            /\ t.dom = v.dom /\ t.isShown = v.isShown /\ t.hasty = v.hasty
        BY <2>1, <3>1, ClosedResult
      <3>3. Room(t)
        <4>2. \A n \in Nodes : t.pend[n] \in Seq(Kind(n))
          BY <1>6, <2>1, <3>2
        <4>3. Cardinality(t.dom) + Len(t.pend["element"]) + 0 <= Cardinality(Backdrops)
          <5>1. t.dom = s.dom /\ Len(t.pend["element"]) = Len(s.pend["element"]) - 1
            BY <1>1, <2>1, <2>3, <3>2
          <5>2. ~s.isShown
            BY <1>1, <2>1, <2>6
          <5> QED
            BY <1>5, <1>7, <2>3, <5>1, <5>2
        <4> QED
          BY <2>6, <3>2, <4>2, <4>3 DEF Room
      <3> QED
        BY <1>1, <2>1, <2>3, <3>2, <3>3 DEF Freeing
    <2> QED
      BY <2>4, <2>5, <2>6
  <1> QED
    BY <1>8, <1>9, <1>10, <1>11 DEF Callbacks

\* The end of a transition leaves the page freed or to be freed, however many callbacks
\* wait for it and whichever of them throws.
LEMMA DispatchKeeps ==
    ASSUME NEW s \in State, Freeing(s), Room(s), NEW node \in Nodes, s.pend[node] # <<>>,
           NEW timer \in Nat
    PROVE  LET t == Dispatch(s, node, timer)
           IN  /\ t \in State /\ Freeing(t) /\ Room(t)
               /\ t.isShown = s.isShown /\ t.hasty = s.hasty
  <1> DEFINE calls == s.pend[node]
             t == Dispatch(s, node, timer)
  <1>1. calls \in Seq(Callbacks) /\ Len(calls) \in Nat /\ calls \in Seq(Kind(node))
    BY DEF State, Room
  <1>2. PICK run : RunOf(run, s, node, timer)
    BY <1>1, DispatchRuns
  <1>9. /\ run[0] = s
        /\ \A k \in 1 .. Len(calls) : run[k] = Call(Unbind(run[k - 1], node), calls[k])
        /\ \/ t = run[Len(calls)]
           \/ \E k \in 1 .. Len(calls) : t = [run[k] EXCEPT !.due[node] = timer]
    BY <1>2 DEF RunOf
  <1> HIDE DEF calls, t
  <1> DEFINE Kept(k) == /\ run[k] \in State /\ Freeing(run[k]) /\ Room(run[k])
                        /\ run[k].isShown = s.isShown /\ run[k].hasty = s.hasty
                        /\ \/ run[k].pend[node] = SubSeq(calls, k + 1, Len(calls))
                           \/ node # "element" /\ run[k].pend[node] = <<>>
             T == {k \in 0 .. Len(calls) : ~Kept(k)}
  <1>3. Kept(0)
    <2>1. SubSeq(calls, 1, Len(calls)) = calls
      BY <1>1
    <2> QED
      BY <1>9, <2>1 DEF calls
  <1>4. ASSUME NEW k \in 1 .. Len(calls), Kept(k - 1) PROVE Kept(k)
    <2> DEFINE a == run[k - 1]
               rest == SubSeq(calls, k, Len(calls))
    <2>1. /\ a \in State /\ Freeing(a) /\ Room(a)
          /\ a.isShown = s.isShown /\ a.hasty = s.hasty
          /\ a.pend[node] = rest \/ (node # "element" /\ a.pend[node] = <<>>)
      <3>1. (k - 1) + 1 = k
        OBVIOUS
      <3> QED
        BY <1>4, <3>1
    <2>2. run[k] = Call(Unbind(a, node), calls[k])
      BY <1>9
    <2>3. /\ rest # <<>> /\ Head(rest) = calls[k] /\ calls[k] \in Callbacks
          /\ Tail(rest) = SubSeq(calls, k + 1, Len(calls))
      <3>1. calls[k] \in Callbacks
        BY <1>1
      <3>2. calls \in Seq(Callbacks) /\ Len(calls) \in k .. Len(calls)
        BY <1>1
      <3>3. Head(rest) = calls[k] /\ Tail(rest) = SubSeq(calls, k + 1, Len(calls))
        BY <3>2, HeadTailOfSubSeq
      <3>4. Len(rest) = Len(calls) - k + 1
        BY <3>2
      <3>5. rest # <<>>
        <4>1. Len(rest) # 0 /\ Len(<<>>) = 0
          BY <3>2, <3>4
        <4> HIDE DEF rest
        <4> QED
          BY <4>1
      <3> QED
        BY <3>1, <3>3, <3>5
    <2>4. calls[k] = "hideModal" <=> node = "element"
      <3>1. calls[k] \in Kind(node)
        BY <1>1
      <3> QED
        BY <3>1 DEF Kind
    <2> HIDE DEF a, rest
    <2>5. /\ a.pend[node] # <<>> => Head(a.pend[node]) = calls[k]
          /\ node = "element" => a.pend[node] # <<>>
      BY <2>1, <2>3
    <2>6. /\ run[k] \in State /\ Freeing(run[k]) /\ Room(run[k])
          /\ run[k].isShown = a.isShown /\ run[k].hasty = a.hasty
          /\ \/ run[k].pend[node] = IF a.pend[node] = <<>> THEN <<>> ELSE Tail(a.pend[node])
             \/ node # "element" /\ run[k].pend[node] = <<>>
      BY <2>1, <2>2, <2>3, <2>4, <2>5, CallKeeps
    <2> QED
      BY <2>1, <2>3, <2>6
  <1> HIDE DEF Kept
  <1>5. T = {}
    <2> SUFFICES ASSUME T # {} PROVE FALSE
      OBVIOUS
    <2>1. T \subseteq Nat
      BY <1>1
    <2>2. PICK k \in T : \A j \in T : k <= j
      BY <2>1, LeastNumber
    <2>3. k \in 0 .. Len(calls) /\ ~Kept(k)
      OBVIOUS
    <2>4. k # 0
      BY <1>3, <2>3
    <2>5. k \in 1 .. Len(calls) /\ k - 1 \in 0 .. Len(calls) /\ k - 1 \notin T
      BY <1>1, <2>2, <2>3, <2>4
    <2>6. Kept(k - 1)
      BY <2>5
    <2> QED
      BY <1>4, <2>3, <2>5, <2>6
  <1>6. \A k \in 0 .. Len(calls) :
          /\ run[k] \in State /\ Freeing(run[k]) /\ Room(run[k])
          /\ run[k].isShown = s.isShown /\ run[k].hasty = s.hasty
    BY <1>5 DEF Kept
  <1>7. CASE t = run[Len(calls)]
    BY <1>1, <1>6, <1>7 DEF t
  <1>8. ASSUME NEW k \in 1 .. Len(calls), t = [run[k] EXCEPT !.due[node] = timer]
        PROVE  /\ t \in State /\ Freeing(t) /\ Room(t)
               /\ t.isShown = s.isShown /\ t.hasty = s.hasty
    <2> DEFINE a == run[k]
               d == [a.due EXCEPT ![node] = timer]
    <2>1. /\ a \in State /\ Freeing(a) /\ Room(a)
          /\ a.isShown = s.isShown /\ a.hasty = s.hasty
      BY <1>1, <1>6
    <2>2. t = [a EXCEPT !.due = d] /\ d \in [Nodes -> Nat]
      BY <1>8, <2>1 DEF State
    <2> HIDE DEF a, d
    <2>3. /\ t \in State /\ t.pend = a.pend /\ t.open = a.open /\ t.padding = a.padding
          /\ t.dom = a.dom /\ t.isShown = a.isShown /\ t.hasty = a.hasty
      BY <2>1, <2>2 DEF State
    <2>4. Freeing(t)
      BY <2>1, <2>3 DEF Freeing, ToClose
    <2>5. Room(t)
      BY <2>1, <2>3 DEF Room
    <2> QED
      BY <2>1, <2>3, <2>4, <2>5
  <1> QED
    BY <1>7, <1>8, <1>9 DEF t

\* An end of a transition that one callback waits for calls that callback.
LEMMA OneCall ==
    ASSUME NEW s \in State, NEW node \in Nodes, NEW c \in Callbacks, NEW timer,
           s.pend[node] = <<c>>, c = "opened" => s.backdrop # None
    PROVE  Dispatch(s, node, timer) = Call([s EXCEPT !.pend[node] = <<>>], c)
  <1> DEFINE calls == s.pend[node]
  <1>1. calls \in Seq(Callbacks) /\ Len(calls) = 1 /\ calls[1] = c
    BY DEF State
  <1>2. PICK run : RunOf(run, s, node, timer)
    BY <1>1, DispatchRuns
  <1>6. /\ run[0] = s
        /\ \A k \in 1 .. Len(calls) : run[k] = Call(Unbind(run[k - 1], node), calls[k])
        /\ \/ Dispatch(s, node, timer) = run[Len(calls)]
           \/ \E k \in 1 .. Len(calls) : calls[k] = "opened" /\ run[k - 1].backdrop = None
    BY <1>2 DEF RunOf
  <1> HIDE DEF calls
  <1>3. run[1] = Call(Unbind(s, node), c)
    <2>1. 1 \in 1 .. Len(calls) /\ 1 - 1 = 0
      BY <1>1
    <2> QED
      BY <1>1, <1>6, <2>1
  <1>4. Dispatch(s, node, timer) = run[1]
    <2>1. \A k \in 1 .. Len(calls) : k = 1
      BY <1>1
    <2> QED
      BY <1>1, <1>6, <2>1
  <1>5. Unbind(s, node) = [s EXCEPT !.pend[node] = <<>>]
    <2>1. s.pend[node] # <<>> /\ Tail(s.pend[node]) = <<>>
      OBVIOUS
    <2> QED
      BY <2>1 DEF Unbind
  <1> QED
    BY <1>3, <1>4, <1>5

-----------------------------------------------------------------------------
\* A step of the dialog is one of Dialog's, or one its user does not see.
SeenStep == Seen!Next \/ UNCHANGED <<SeenAs, m.visible, m.hasty>>

\* A step that changes nothing the user sees.
LEMMA Unseen ==
    ASSUME m'.isShown = m.isShown, m'.visible = m.visible, m'.open = m.open,
           m'.hasty = m.hasty
    PROVE  SeenStep
  BY DEF SeenStep, SeenAs

\* Whatever comes of a hasty opening is allowed.
LEMMA Muddle ==
    ASSUME m' \in State, m'.hasty, m.hasty \/ SeenAs = "closing"
    PROVE  SeenStep
  <1>1. SeenAs' \in Seen!Phases
    <2>1. m'.isShown \in BOOLEAN /\ m'.visible \in BOOLEAN /\ m'.open \in BOOLEAN
      BY DEF State
    <2> QED
      BY <2>1 DEF SeenAs, Seen!Phases
  <1>2. m'.visible \in BOOLEAN /\ m'.hasty = TRUE
    BY DEF State
  <1>3. Seen!Rush
    BY <1>1, <1>2 DEF Seen!Rush
  <1> QED
    BY <1>3 DEF SeenStep, Seen!Next

\* Nothing is to come where no callback waits.
LEMMA NoneToClose == (\A n \in Nodes : m.pend[n] = <<>>) => ~ToClose(m)
  <1>1. Len(<<>>) = 0
    OBVIOUS
  <1> QED
    BY <1>1 DEF ToClose, Closes

\* A callback that waits is no empty sequence.
LEMMA OneWaits == ASSUME NEW c PROVE <<c>> # <<>>
  OBVIOUS

\* Nodes are told apart, and durations are numbers.
LEMMA NodeFacts ==
    /\ "element" \in Nodes /\ None \notin Backdrops
    /\ \A b \in Backdrops : b # "element" /\ b # None /\ b \in Nodes
    /\ \A n \in Nodes : n = "element" \/ n \in Backdrops
    /\ BackdropTicks \in Nat /\ ModalTicks \in Nat /\ BackdropTicks < ModalTicks
    /\ Callbacks = {"opened", "hideModal", "closed", "callbackRemove"}
  BY ModalAssumption DEF Nodes, Callbacks

\* Closing the dialog at any time keeps the invariant.
LEMMA HidePhases ==
    ASSUME DialogIInv, m' = Hide(m)
    PROVE  DialogIInv' /\ SeenStep
  <1>1. m \in State /\ Freeing(m) /\ Room(m)
    BY DEF DialogIInv, DialogTypeOK
  <1>2. CASE ~m.isShown
    <2>1. m' = m
      BY <1>2 DEF Hide
    <2> QED
      BY <2>1, Unseen DEF DialogIInv, DialogTypeOK, Phases, Gone, Present, Opening, Open,
                          CutShort, Closing, Fading
  <1>3. CASE m.isShown
    <2> DEFINE cut == ~ m.visible
               t == [m EXCEPT !.isShown = FALSE, !.in = FALSE, !.trap = FALSE, !.cut = cut]
    <2>1. m' = WhenEnded(t, "element", "hideModal", ModalTicks)
      BY <1>3 DEF Hide
    <2>2. cut \in BOOLEAN /\ (cut <=> ~m.visible)
      OBVIOUS
    <2> HIDE DEF cut
    <2>3. /\ t \in State
          /\ t.pend = m.pend /\ t.due = m.due /\ t.isShown = FALSE /\ t.visible = m.visible
          /\ t.open = m.open /\ t.padding = m.padding /\ t.backdrop = m.backdrop /\ t.dom = m.dom
          /\ t.in = FALSE /\ t.trap = FALSE /\ t.cut = cut
          /\ t.hasty = m.hasty /\ t.left = m.left
      BY <1>1, <2>2 DEF State
    <2> HIDE DEF t
    <2>4. "element" \in Nodes /\ "hideModal" \in Callbacks /\ ModalTicks \in Nat
      BY NodeFacts
    <2>5. /\ m' \in State
          /\ \A n \in Nodes : m'.pend[n] = IF n = "element" THEN Append(m.pend[n], "hideModal")
                                           ELSE m.pend[n]
          /\ \A n \in Nodes : m'.due[n] = IF n = "element" /\ m.pend[n] = <<>> THEN ModalTicks
                                          ELSE m.due[n]
          /\ m'.isShown = FALSE /\ m'.visible = m.visible /\ m'.open = m.open
          /\ m'.padding = m.padding /\ m'.backdrop = m.backdrop /\ m'.dom = m.dom
          /\ m'.in = FALSE /\ m'.trap = FALSE /\ m'.cut = cut
          /\ m'.hasty = m.hasty /\ m'.left = m.left
      <3>1. LET u == WhenEnded(t, "element", "hideModal", ModalTicks)
            IN  /\ u \in State
                /\ \A n \in Nodes :
                     u.pend[n] = IF n = "element" THEN Append(t.pend[n], "hideModal") ELSE t.pend[n]
                /\ \A n \in Nodes :
                     u.due[n] = IF n = "element" /\ t.pend[n] = <<>> THEN ModalTicks ELSE t.due[n]
                /\ u.isShown = t.isShown /\ u.visible = t.visible /\ u.open = t.open
                /\ u.padding = t.padding /\ u.backdrop = t.backdrop /\ u.dom = t.dom
                /\ u.in = t.in /\ u.trap = t.trap
                /\ u.hasty = t.hasty /\ u.left = t.left /\ u.cut = t.cut
        BY <2>3, <2>4, Ended
      <3> QED
        BY <2>1, <2>3, <3>1
    <2>6. m.pend["element"] \in Seq(Kind("element")) /\ "hideModal" \in Kind("element")
      BY <1>1, <2>4 DEF Room, Kind
    <2>7. /\ m'.pend["element"] = Append(m.pend["element"], "hideModal")
          /\ Len(m'.pend["element"]) = Len(m.pend["element"]) + 1
          /\ m'.pend["element"][Len(m'.pend["element"])] = "hideModal"
          /\ m'.pend["element"] \in Seq(Kind("element"))
      <3> DEFINE calls == m.pend["element"]
      <3>1. m'.pend["element"] = Append(calls, "hideModal") /\ calls \in Seq(Kind("element"))
        BY <2>4, <2>5, <2>6
      <3> HIDE DEF calls
      <3>2. /\ Len(Append(calls, "hideModal")) = Len(calls) + 1
            /\ Append(calls, "hideModal")[Len(Append(calls, "hideModal"))] = "hideModal"
            /\ Append(calls, "hideModal") \in Seq(Kind("element"))
        BY <2>6, <3>1
      <3> QED
        BY <3>1, <3>2 DEF calls
    <2>8. Freeing(m')
      <3>1. Len(m'.pend["element"]) \in 1 .. Len(m'.pend["element"]) /\ "hideModal" \in Closers
        BY <2>6, <2>7 DEF Closers
      <3>2. ToClose(m')
        BY <2>4, <2>7, <3>1 DEF ToClose, Closes
      <3> QED
        BY <3>2 DEF Freeing
    <2>9. Room(m')
      <3>1. \A n \in Nodes : m'.pend[n] \in Seq(Kind(n))
        BY <1>1, <2>5, <2>7 DEF Room
      <3>2. Cardinality(m.dom) + Len(m.pend["element"]) + 1 <= Cardinality(Backdrops)
        BY <1>1, <1>3 DEF Room
      <3>3. /\ Cardinality(m.dom) \in Nat /\ Cardinality(Backdrops) \in Nat
            /\ Len(m.pend["element"]) \in Nat
        <4>1. m.dom \in SUBSET Backdrops
          BY <1>1 DEF State
        <4> QED
          BY <2>6, <4>1, ModalAssumption, FS_Subset, FS_CardinalityType
      <3> QED
        BY <2>5, <2>7, <3>1, <3>2, <3>3 DEF Room
    <2>10. CASE m.hasty
      <3>1. m'.hasty = TRUE
        BY <1>1, <2>5, <2>10 DEF State
      <3>2. SeenStep
        BY <2>5, <2>10, <3>1, Muddle
      <3> QED
        BY <2>5, <2>8, <2>9, <3>1, <3>2 DEF DialogIInv, DialogTypeOK
    <2>11. CASE ~m.hasty
      <3>1. PICK b \in Backdrops : Present(b)
        BY <1>3, <2>11 DEF DialogIInv, Phases, Gone
      <3>2. /\ m.pend["element"] = <<>>
            /\ Opening(b) \/ Open(b)
        BY <1>3, <3>1 DEF Present, Opening, Open, CutShort, Closing, Fading
      <3>3. /\ b # "element" /\ b \in Nodes
            /\ \A n \in Backdrops : n # "element" /\ n \in Nodes
        BY NodeFacts
      <3>4. m'.pend["element"] = <<"hideModal">>
        <4>1. Append(<<>>, "hideModal") = <<"hideModal">>
          OBVIOUS
        <4> QED
          BY <2>7, <3>2, <4>1
      <3>5. CutShort(b)' \/ Closing(b)'
        <4>1. /\ m.due[b] \in Nat /\ BackdropTicks \in Nat /\ ModalTicks \in Nat
              /\ BackdropTicks < ModalTicks
          BY <1>1, <3>3, NodeFacts DEF State
        <4>2. /\ m'.pend[b] = m.pend[b] /\ m'.due[b] = m.due[b] /\ m'.due["element"] = ModalTicks
          BY <2>4, <2>5, <3>2, <3>3
        <4>3. CASE Opening(b)
          <5>1. m'.due[b] < m'.due["element"]
            BY <4>1, <4>2, <4>3 DEF Opening
          <5> QED
            BY <2>2, <2>5, <3>4, <4>2, <4>3, <5>1 DEF Opening, CutShort
        <4>4. CASE Open(b)
          BY <2>2, <2>5, <3>4, <4>2, <4>4 DEF Open, Closing
        <4> QED
          BY <3>2, <4>3, <4>4
      <3>6. Present(b)'
        BY <2>5, <3>1, <3>3, <3>5 DEF Present
      <3>7. Seen!Hide
        <4>1. SeenAs \in {"opening", "open"}
          BY <1>3 DEF SeenAs
        <4>2. SeenAs' = "closing"
          BY <2>5, <3>1 DEF Present, SeenAs
        <4> QED
          BY <2>5, <2>11, <4>1, <4>2 DEF Seen!Hide
      <3> QED
        BY <2>5, <2>8, <2>9, <3>6, <3>7 DEF DialogIInv, DialogTypeOK, Phases, SeenStep, Seen!Next
    <2> QED
      BY <2>10, <2>11
  <1> QED
    BY <1>2, <1>3

\* Time takes the timers of a phase down together.
LEMMA TickPhases ==
    ASSUME DialogIInv, Tick
    PROVE  DialogIInv' /\ SeenStep
  <1>1. m \in State /\ m.due \in [Nodes -> Nat] /\ Freeing(m) /\ Room(m)
    BY DEF DialogIInv, DialogTypeOK, State
  <1> DEFINE d == [n \in Nodes |-> IF n \in Moving THEN m.due[n] - 1 ELSE m.due[n]]
  <1>2. m' = [m EXCEPT !.due = d]
    BY DEF Tick
  <1>3. d \in [Nodes -> Nat]
    <2>1. \A n \in Moving : n \in Nodes /\ m.due[n] > 0
      BY DEF Tick, Moving
    <2>2. \A n \in Nodes : m.due[n] \in Nat
      BY <1>1
    <2>3. \A n \in Nodes : d[n] \in Nat
      BY <2>1, <2>2
    <2> QED
      BY <2>3
  <1>4. \A n \in Nodes : m.pend[n] # <<>> => d[n] = m.due[n] - 1
    BY DEF Moving
  <1> HIDE DEF d
  <1>5. m' \in State /\ m'.due = d
    BY <1>1, <1>2, <1>3 DEF State
  <1>6. /\ m'.pend = m.pend /\ m'.isShown = m.isShown /\ m'.visible = m.visible
        /\ m'.open = m.open /\ m'.padding = m.padding /\ m'.backdrop = m.backdrop
        /\ m'.dom = m.dom /\ m'.in = m.in /\ m'.trap = m.trap
        /\ m'.hasty = m.hasty /\ m'.left = m.left /\ m'.cut = m.cut
    BY <1>1, <1>2 DEF State
  <1>7. Gone => Gone'
    BY <1>6 DEF Gone
  <1>8. ASSUME NEW b \in Backdrops, Present(b) PROVE Present(b)'
    <2>1. /\ b \in Nodes /\ "element" \in Nodes
          /\ m.due[b] \in Nat /\ m.due["element"] \in Nat /\ BackdropTicks \in Nat
      BY <1>1, NodeFacts
    <2>2. m.pend[b] = <<"opened">> => m'.due[b] = m.due[b] - 1
      BY <1>4, <1>5, <2>1, OneWaits
    <2>3. m.pend["element"] = <<"hideModal">> => m'.due["element"] = m.due["element"] - 1
      BY <1>4, <1>5, <2>1, OneWaits
    <2>4. Opening(b) => Opening(b)'
      BY <1>6, <2>1, <2>2 DEF Opening
    <2>5. CutShort(b) => CutShort(b)'
      BY <1>6, <2>1, <2>2, <2>3 DEF CutShort
    <2>6. (Open(b) => Open(b)') /\ (Closing(b) => Closing(b)') /\ (Fading(b) => Fading(b)')
      BY <1>6 DEF Open, Closing, Fading
    <2> QED
      BY <1>6, <1>8, <2>4, <2>5, <2>6 DEF Present
  <1>9. Freeing(m') /\ Room(m')
    BY <1>1, <1>6 DEF Freeing, Room, ToClose
  <1> QED
    BY <1>5, <1>6, <1>7, <1>8, <1>9, Unseen DEF DialogIInv, DialogTypeOK, Phases

\* The end of a transition, where the browser or the timer may report one, takes the
\* dialog of a patient user from one phase to the next.
LEMMA PatientPhases ==
    ASSUME DialogIInv, ~m.hasty, NEW n \in Moving, m.visible \/ m.due[n] = 0,
           NEW timer, m' = Dispatch(m, n, timer)
    PROVE  Phases' /\ ~m'.hasty /\ SeenStep
  <1>1. /\ m \in State /\ m.due \in [Nodes -> Nat] /\ n \in Nodes /\ m.pend[n] # <<>>
        /\ Phases
    BY DEF DialogIInv, DialogTypeOK, State, Moving
  <1>2. PICK b \in Backdrops : Present(b)
    BY <1>1 DEF Phases, Gone
  <1>3. /\ n = "element" \/ n \in Backdrops
        /\ b \in Nodes /\ b # "element" /\ b # None /\ "element" \in Nodes
        /\ BackdropTicks \in Nat
        /\ Callbacks = {"opened", "hideModal", "closed", "callbackRemove"}
    BY <1>1, NodeFacts
  <1>4. n \in {b, "element"}
    BY <1>1, <1>2, <1>3 DEF Present
  <1> DEFINE t == [m EXCEPT !.pend[n] = <<>>]
  <1>5. /\ t \in State
        /\ \A k \in Nodes : t.pend[k] = IF k = n THEN <<>> ELSE m.pend[k]
        /\ t.due = m.due
        /\ t.isShown = m.isShown /\ t.visible = m.visible /\ t.open = m.open
        /\ t.padding = m.padding /\ t.backdrop = m.backdrop /\ t.dom = m.dom
        /\ t.in = m.in /\ t.trap = m.trap
        /\ t.hasty = m.hasty /\ t.left = m.left /\ t.cut = m.cut
    <2>1. t.pend = [m.pend EXCEPT ![n] = <<>>] /\ m.pend \in [Nodes -> Seq(Callbacks)]
      BY <1>1 DEF State
    <2>2. t = [m EXCEPT !.pend = t.pend] /\ t.pend \in [Nodes -> Seq(Callbacks)]
      BY <1>1, <2>1 DEF State
    <2>3. t \in State
      BY <1>1, <2>2 DEF State
    <2> QED
      BY <1>1, <2>1, <2>3 DEF State
  <1>6. ASSUME NEW c \in Callbacks, m.pend[n] = <<c>> PROVE m' = Call(t, c)
    <2>1. m.backdrop # None
      BY <1>2, <1>3 DEF Present
    <2> QED
      BY <1>1, <1>6, <2>1, OneCall
  <1> HIDE DEF t
  <1>7. \A k \in Backdrops \ {b} : m.pend[k] = <<>> /\ k \in Nodes /\ k # "element"
    BY <1>2, NodeFacts DEF Present
  <1>8. b \notin m.left /\ m.dom = m.left \cup {b} /\ m.backdrop = b /\ m.open /\ m.padding = 1
    BY <1>2 DEF Present
  <1>9. CASE n = b /\ m.pend[b] = <<"opened">>
    <2>1. m' = Opened(t)
      BY <1>3, <1>6, <1>9 DEF Call
    <2>2. m' = [t EXCEPT !.visible = TRUE, !.in = TRUE, !.trap = TRUE]
      BY <1>3, <1>5, <1>8, <2>1 DEF Opened
    <2>3. /\ m'.pend = t.pend /\ m'.visible = TRUE /\ m'.in = TRUE /\ m'.trap = TRUE
          /\ m'.isShown = t.isShown /\ m'.open = t.open /\ m'.padding = t.padding
          /\ m'.backdrop = t.backdrop /\ m'.dom = t.dom
          /\ m'.hasty = t.hasty /\ m'.left = t.left /\ m'.cut = t.cut
      BY <1>5, <2>2 DEF State
    <2>4. Opening(b) \/ CutShort(b)
      BY <1>2, <1>9, OneWaits DEF Present, Opening, Open, CutShort, Closing, Fading
    <2>5. m'.pend[b] = <<>> /\ m'.pend["element"] = m.pend["element"]
      BY <1>3, <1>5, <1>9, <2>3
    <2>6. Open(b)' \/ Closing(b)'
      BY <1>5, <2>3, <2>4, <2>5 DEF Opening, Open, CutShort, Closing
    <2>7. Present(b)'
      <3>1. \A k \in Backdrops \ {b} : m'.pend[k] = <<>>
        BY <1>5, <1>7, <1>9, <2>3
      <3>2. /\ b \notin m'.left /\ m'.dom = m'.left \cup {b} /\ m'.backdrop = b
            /\ m'.open /\ m'.padding = 1
        BY <1>5, <1>8, <2>3
      <3> QED
        BY <2>6, <3>1, <3>2 DEF Present
    <2>8. Seen!Appear \/ Seen!Flash
      <3>1. ~m.hasty /\ m'.hasty = FALSE /\ m'.hasty = m.hasty /\ m'.visible = TRUE
        BY <1>1, <1>5, <2>3 DEF State
      <3>2. CASE Opening(b)
        <4>1. SeenAs = "opening" /\ SeenAs' = "open"
          BY <1>5, <2>3, <3>2 DEF Opening, SeenAs
        <4> QED
          BY <3>1, <4>1 DEF Seen!Appear
      <3>3. CASE CutShort(b)
        <4>1. SeenAs = "closing" /\ SeenAs' = "closing" /\ ~m.visible
          BY <1>5, <1>8, <2>3, <3>3 DEF CutShort, SeenAs
        <4> QED
          BY <3>1, <4>1 DEF Seen!Flash
      <3> QED
        BY <2>4, <3>2, <3>3
    <2> QED
      BY <1>5, <2>3, <2>7, <2>8 DEF Phases, SeenStep, Seen!Next
  <1>10. CASE n = b /\ m.pend[b] # <<"opened">>
    <2>1. Fading(b)
      BY <1>1, <1>2, <1>10 DEF Present, Opening, Open, CutShort, Closing
    <2>2. m' = Closed(RemoveBackdrop(t))
      BY <1>3, <1>6, <1>10, <2>1 DEF Call, Fading
    <2> DEFINE u == RemoveBackdrop(t)
    <2>3. /\ u \in State
          /\ \A k \in Nodes : u.pend[k] = IF k = b THEN <<>> ELSE t.pend[k]
          /\ u.dom = t.dom \ {b}
          /\ u.isShown = t.isShown /\ u.visible = t.visible /\ u.in = t.in /\ u.trap = t.trap
          /\ u.hasty = t.hasty /\ u.left = t.left /\ u.cut = t.cut
      BY <1>3, <1>5, <1>8, RemovedResult
    <2> HIDE DEF u
    <2>4. m' = Closed(u)
      BY <2>2 DEF u
    <2>5. /\ m'.open = FALSE /\ m'.padding = 0 /\ m'.pend = u.pend /\ m'.dom = u.dom
          /\ m'.isShown = u.isShown /\ m'.visible = u.visible /\ m'.in = u.in
          /\ m'.trap = u.trap /\ m'.hasty = u.hasty /\ m'.left = u.left /\ m'.cut = u.cut
      BY <2>3, <2>4, ClosedResult
    <2>6. \A k \in Nodes : m'.pend[k] = <<>>
      <3>1. m'.pend[b] = <<>> /\ m'.pend["element"] = <<>>
        BY <1>3, <1>5, <1>10, <2>1, <2>3, <2>5 DEF Fading
      <3>2. \A k \in Backdrops \ {b} : m'.pend[k] = <<>>
        BY <1>5, <1>7, <1>10, <2>3, <2>5
      <3> QED
        BY <3>1, <3>2, NodeFacts
    <2>7. Gone'
      <3>1. m'.dom = m'.left
        BY <1>5, <1>8, <2>3, <2>5
      <3> QED
        BY <1>5, <2>1, <2>3, <2>5, <2>6, <3>1 DEF Gone, Fading
    <2>8. Seen!Finish
      <3>1. m'.hasty = FALSE /\ m'.visible = FALSE
        BY <1>1, <1>5, <2>1, <2>3, <2>5 DEF Fading, State
      <3>2. SeenAs = "closing" /\ SeenAs' = "closed"
        BY <1>5, <1>8, <2>1, <2>3, <2>5 DEF Fading, SeenAs
      <3> QED
        BY <3>1, <3>2 DEF Seen!Finish
    <2> QED
      BY <1>5, <2>3, <2>5, <2>7, <2>8 DEF Phases, SeenStep, Seen!Next
  <1>11. CASE n = "element"
    <2>1. Closing(b)
      <3>1. b \in Nodes /\ m.due[b] \in Nat
        BY <1>1, <1>3
      <3> QED
        BY <1>1, <1>2, <1>11, <3>1 DEF Present, Opening, Open, CutShort, Fading
    <2>2. m' = HideModal(t) /\ ~t.isShown /\ t.backdrop = b
      BY <1>3, <1>5, <1>6, <1>8, <1>11, <2>1 DEF Call, Closing
    <2> DEFINE u == [t EXCEPT !.visible = FALSE]
    <2>3. /\ u \in State /\ u.pend = t.pend /\ u.due = t.due /\ u.visible = FALSE
          /\ u.isShown = t.isShown /\ u.open = t.open
          /\ u.padding = t.padding /\ u.backdrop = t.backdrop /\ u.dom = t.dom
          /\ u.in = t.in /\ u.trap = t.trap
          /\ u.hasty = t.hasty /\ u.left = t.left /\ u.cut = t.cut
      BY <1>5 DEF State
    <2> HIDE DEF u
    <2>4. m' = WhenEnded(u, b, "callbackRemove", BackdropTicks)
      BY <1>3, <2>2, <2>3 DEF HideModal, DropBackdrop, u
    <2>5. /\ \A k \in Nodes : m'.pend[k] = IF k = b THEN Append(u.pend[k], "callbackRemove")
                                           ELSE u.pend[k]
          /\ m'.visible = u.visible /\ m'.isShown = u.isShown /\ m'.open = u.open
          /\ m'.padding = u.padding /\ m'.backdrop = u.backdrop /\ m'.dom = u.dom
          /\ m'.in = u.in /\ m'.trap = u.trap
          /\ m'.hasty = u.hasty /\ m'.left = u.left /\ m'.cut = u.cut
      <3>1. u \in State /\ b \in Nodes /\ "callbackRemove" \in Callbacks /\ BackdropTicks \in Nat
        BY <1>3, <2>3
      <3> QED
        BY <2>4, <3>1, Ended
    <2>6. m'.pend[b] = <<"callbackRemove">> /\ m'.pend["element"] = <<>>
      <3>1. t.pend[b] = <<>> /\ t.pend["element"] = <<>>
        BY <1>3, <1>5, <1>11, <2>1 DEF Closing
      <3>2. Append(<<>>, "callbackRemove") = <<"callbackRemove">>
        OBVIOUS
      <3> QED
        BY <1>3, <2>3, <2>5, <3>1, <3>2
    <2>7. Fading(b)'
      BY <1>5, <2>1, <2>3, <2>5, <2>6 DEF Closing, Fading
    <2>8. Present(b)'
      <3>1. /\ b \notin m'.left /\ m'.dom = m'.left \cup {b} /\ m'.backdrop = b
            /\ m'.open /\ m'.padding = 1
        BY <1>5, <1>8, <2>3, <2>5
      <3>2. \A k \in Backdrops \ {b} : m'.pend[k] = <<>>
        BY <1>5, <1>7, <1>11, <2>3, <2>5
      <3> QED
        BY <2>7, <3>1, <3>2 DEF Present
    <2>9. Seen!Vanish
      <3>1. m'.hasty = m.hasty /\ m'.visible = FALSE /\ m.visible
        BY <1>5, <2>1, <2>3, <2>5 DEF Closing
      <3>2. SeenAs = "closing" /\ SeenAs' = "closing"
        BY <1>5, <1>8, <2>1, <2>3, <2>5 DEF Closing, SeenAs
      <3> QED
        BY <3>1, <3>2 DEF Seen!Vanish
    <2> QED
      BY <1>5, <2>3, <2>5, <2>8, <2>9 DEF Phases, SeenStep, Seen!Next
  <1> QED
    BY <1>4, <1>9, <1>10, <1>11

\* The end of a transition keeps the invariant, whoever opened the dialog and when.
LEMMA DispatchPhases ==
    ASSUME DialogIInv, NEW n \in Moving, m.visible \/ m.due[n] = 0,
           NEW timer \in Nat, m' = Dispatch(m, n, timer)
    PROVE  DialogIInv' /\ SeenStep
  <1>1. m \in State /\ Freeing(m) /\ Room(m) /\ n \in Nodes /\ m.pend[n] # <<>>
    BY DEF DialogIInv, DialogTypeOK, Moving
  <1>2. m' \in State /\ Freeing(m') /\ Room(m') /\ m'.hasty = m.hasty
    BY <1>1, DispatchKeeps
  <1>3. CASE m.hasty
    <2>1. SeenStep
      BY <1>2, <1>3, Muddle
    <2> QED
      BY <1>2, <1>3, <2>1 DEF DialogIInv, DialogTypeOK
  <1>4. CASE ~m.hasty
    <2>1. Phases' /\ SeenStep
      BY <1>4, PatientPhases
    <2> QED
      BY <1>2, <2>1 DEF DialogIInv, DialogTypeOK
  <1> QED
    BY <1>3, <1>4

\* An opening begins the phases anew if all had settled, and is hasty if not.
LEMMA ShowPhases ==
    ASSUME DialogIInv, ClickShow
    PROVE  DialogIInv' /\ SeenStep
  <1>1. m \in State /\ Freeing(m) /\ Room(m)
    BY DEF DialogIInv, DialogTypeOK
  <1>2. CASE m.isShown
    <2>1. m' = m
      BY <1>2 DEF ClickShow, Noted, Show
    <2> QED
      BY <2>1, Unseen DEF DialogIInv, DialogTypeOK, Phases, Gone, Present, Opening, Open,
                          CutShort, Closing, Fading
  <1>3. CASE ~m.isShown
    <2> DEFINE hurry == ~ Settled
               old == IF Settled THEN m.dom ELSE m.left
               s == [m EXCEPT !.hasty = hurry, !.left = old, !.cut = FALSE]
               w == [s EXCEPT !.isShown = TRUE, !.open = TRUE, !.padding = @ + 1]
    <2>1. m' = AddBackdrop(w, "opened")
      <3>1. Noted = s
        BY <1>1, <1>3 DEF Noted, State
      <3>2. s.isShown = FALSE
        BY <1>1, <1>3 DEF State
      <3> QED
        BY <3>1, <3>2 DEF ClickShow, Show, ShowAnyway
    <2>2. /\ hurry \in BOOLEAN /\ (hurry <=> ~Settled) /\ old \in SUBSET Backdrops
          /\ Settled => old = m.dom
      BY <1>1 DEF State
    <2> HIDE DEF hurry, old
    <2>3. /\ w \in State
          /\ w.pend = m.pend /\ w.due = m.due /\ w.dom = m.dom
          /\ w.isShown = TRUE /\ w.open = TRUE /\ w.padding = m.padding + 1
          /\ w.visible = m.visible /\ w.hasty = hurry /\ w.left = old /\ w.cut = FALSE
      <3>1. /\ s \in State /\ s.pend = m.pend /\ s.due = m.due /\ s.dom = m.dom
            /\ s.padding = m.padding /\ s.visible = m.visible
            /\ s.hasty = hurry /\ s.left = old /\ s.cut = FALSE
        BY <1>1, <2>2 DEF State
      <3> HIDE DEF s
      <3> DEFINE p == s.padding + 1
      <3>2. p \in Nat /\ p = m.padding + 1
        BY <3>1 DEF State
      <3>3. w = [s EXCEPT !.isShown = TRUE, !.open = TRUE, !.padding = p]
        OBVIOUS
      <3> HIDE DEF w, p
      <3>4. /\ w \in State /\ w.pend = s.pend /\ w.due = s.due /\ w.dom = s.dom
            /\ w.isShown = TRUE /\ w.open = TRUE /\ w.padding = p /\ w.visible = s.visible
            /\ w.hasty = s.hasty /\ w.left = s.left /\ w.cut = s.cut
        BY <3>1, <3>2, <3>3 DEF State
      <3> QED
        BY <3>1, <3>2, <3>4
    <2> HIDE DEF s, w
    <2>4. /\ Cardinality(m.dom) + Len(m.pend["element"]) + 2 <= Cardinality(Backdrops)
          /\ Cardinality(m.dom) \in Nat /\ Cardinality(Backdrops) \in Nat
          /\ Len(m.pend["element"]) \in Nat
      <3>1. m.dom \in SUBSET Backdrops
        BY <1>1 DEF State
      <3>2. m.pend["element"] \in Seq(Kind("element"))
        BY <1>1, NodeFacts DEF Room
      <3> QED
        BY <1>3, <3>1, <3>2, ModalAssumption, FS_Subset, FS_CardinalityType DEF ClickShow
    <2>5. PICK b \in Backdrops \ w.dom :
            /\ m' \in State /\ m'.backdrop = b /\ m'.dom = w.dom \cup {b}
            /\ Cardinality(m'.dom) = Cardinality(w.dom) + 1
            /\ \A n \in Nodes :
                 m'.pend[n] = IF n = b THEN Append(w.pend[n], "opened") ELSE w.pend[n]
            /\ \A n \in Nodes :
                 m'.due[n] = IF n = b /\ w.pend[n] = <<>> THEN BackdropTicks ELSE w.due[n]
            /\ m'.isShown = w.isShown /\ m'.visible = w.visible /\ m'.open = w.open
            /\ m'.padding = w.padding
            /\ m'.hasty = w.hasty /\ m'.left = w.left /\ m'.cut = w.cut
      <3>1. "opened" \in Callbacks /\ Cardinality(w.dom) < Cardinality(Backdrops)
        BY <2>3, <2>4, NodeFacts
      <3> QED
        BY <2>1, <2>3, <3>1, AddBackdropResult
    <2>6. Freeing(m')
      BY <2>3, <2>5 DEF Freeing
    <2>7. b \in Nodes /\ b # "element" /\ "element" \in Nodes /\ BackdropTicks \in Nat
      BY NodeFacts
    <2>8. Room(m')
      <3>1. m.pend[b] \in Seq(Kind(b)) /\ "opened" \in Kind(b)
        BY <1>1, <2>7 DEF Room, Kind, Callbacks
      <3>2. Append(m.pend[b], "opened") \in Seq(Kind(b))
        BY <3>1
      <3>3. \A n \in Nodes : m'.pend[n] \in Seq(Kind(n))
        <4>1. \A n \in Nodes : m.pend[n] \in Seq(Kind(n)) /\ w.pend[n] = m.pend[n]
          BY <1>1, <2>3 DEF Room
        <4>2. m'.pend[b] = Append(m.pend[b], "opened")
          BY <2>3, <2>5, <2>7
        <4>3. \A n \in Nodes \ {b} : m'.pend[n] = m.pend[n]
          BY <2>5, <4>1
        <4> QED
          BY <3>2, <4>1, <4>2, <4>3
      <3>4. m'.pend["element"] = m.pend["element"]
        BY <2>3, <2>5, <2>7
      <3> QED
        BY <2>3, <2>4, <2>5, <3>3, <3>4 DEF Room
    <2>9. CASE Settled
      <3>1. (\A n \in Nodes : m.pend[n] = <<>>) /\ ~m.visible
        BY <2>9 DEF Settled, Quiet, Moving
      <3>2. ~m.open /\ m.padding = 0
        BY <1>1, <1>3, <3>1, NoneToClose DEF Freeing
      <3>3. m'.hasty = FALSE /\ m'.left = m.dom
        BY <2>2, <2>3, <2>5, <2>9
      <3>4. Opening(b)'
        <4>1. Append(<<>>, "opened") = <<"opened">>
          OBVIOUS
        <4>2. m'.pend[b] = <<"opened">> /\ m'.pend["element"] = <<>> /\ m'.due[b] = BackdropTicks
          <5>1. w.pend[b] = <<>> /\ w.pend["element"] = <<>>
            BY <2>3, <2>7, <3>1
          <5>2. m'.pend[b] = Append(<<>>, "opened")
            BY <2>5, <2>7, <5>1
          <5> QED
            BY <2>5, <2>7, <4>1, <5>1, <5>2
        <4> QED
          BY <2>3, <2>5, <2>7, <3>1, <4>2 DEF Opening
      <3>5. Present(b)'
        <4>1. \A n \in Backdrops \ {b} : m'.pend[n] = <<>>
          BY <2>3, <2>5, <3>1, NodeFacts
        <4> QED
          BY <2>3, <2>5, <3>2, <3>3, <3>4, <4>1 DEF Present
      <3>6. Seen!Show
        <4>1. SeenAs = "closed" /\ SeenAs' = "opening"
          BY <1>3, <2>3, <2>5, <3>1, <3>2 DEF SeenAs
        <4>2. m'.visible = FALSE
          BY <1>1, <2>3, <2>5, <3>1 DEF State
        <4> QED
          BY <3>1, <3>3, <4>1, <4>2 DEF Seen!Show
      <3> QED
        BY <2>5, <2>6, <2>8, <3>5, <3>6 DEF DialogIInv, DialogTypeOK, Phases, SeenStep, Seen!Next
    <2>10. CASE ~Settled
      <3>1. m'.hasty = TRUE
        BY <2>2, <2>3, <2>5, <2>10
      <3>2. ASSUME ~m.hasty PROVE SeenAs = "closing"
        <4>1. ~Gone
          BY <2>10 DEF Gone, Settled, Quiet, Moving
        <4>2. m.open
          BY <3>2, <4>1 DEF DialogIInv, Phases, Present
        <4> QED
          BY <1>3, <4>2 DEF SeenAs
      <3>3. SeenStep
        BY <2>5, <3>1, <3>2, Muddle
      <3> QED
        BY <2>5, <2>6, <2>8, <3>1, <3>3 DEF DialogIInv, DialogTypeOK
    <2> QED
      BY <2>9, <2>10
  <1> QED
    BY <1>2, <1>3

LEMMA DialogBegins == DialogInit => DialogIInv /\ Seen!Init
  <1> SUFFICES ASSUME DialogInit PROVE DialogIInv /\ Seen!Init
    OBVIOUS
  <1>1. /\ m \in State
        /\ m.isShown = FALSE /\ m.visible = FALSE /\ m.in = FALSE /\ m.open = FALSE
        /\ m.padding = 0 /\ m.dom = {} /\ m.trap = FALSE /\ m.hasty = FALSE /\ m.left = {}
        /\ m.cut = FALSE /\ \A n \in Nodes : m.pend[n] = <<>>
    BY DEF DialogInit, State
  <1>2. Gone
    BY <1>1 DEF Gone
  <1>3. Freeing(m)
    BY <1>1 DEF Freeing
  <1>4. Room(m)
    <2>1. Cardinality({}) = 0 /\ Cardinality(Backdrops) \in Nat
      BY ModalAssumption, FS_EmptySet, FS_CardinalityType
    <2>2. "element" \in Nodes /\ Len(<<>>) = 0
      BY NodeFacts
    <2>3. \A n \in Nodes : <<>> \in Seq(Kind(n))
      OBVIOUS
    <2>4. \A n \in Nodes : m.pend[n] \in Seq(Kind(n))
      BY <1>1, <2>3
    <2> QED
      BY <1>1, <2>1, <2>2, <2>4 DEF Room
  <1>5. Seen!Init
    BY <1>1 DEF SeenAs, Seen!Init
  <1> QED
    BY <1>1, <1>2, <1>3, <1>4, <1>5 DEF DialogIInv, DialogTypeOK, Phases

\* Every step keeps the invariant and is one of Dialog's or one that is not seen.
LEMMA DialogSteps ==
    ASSUME DialogIInv, [DialogNext]_m
    PROVE  DialogIInv' /\ SeenStep
  <1>1. CASE ClickShow
    BY <1>1, ShowPhases
  <1>2. CASE ClickClose \/ Shared
    BY <1>2, HidePhases DEF ClickClose, Shared
  <1>3. CASE Tick
    BY <1>3, TickPhases
  <1>4. ASSUME NEW n \in Nodes, TransitionEnd(n) PROVE DialogIInv' /\ SeenStep
    <2>1. m.due[n] \in Nat
      BY DEF DialogIInv, DialogTypeOK, State
    <2> QED
      BY <1>4, <2>1, DispatchPhases DEF TransitionEnd
  <1>5. ASSUME NEW n \in Nodes, Timeout(n) PROVE DialogIInv' /\ SeenStep
    <2>1. PICK timer \in 0 .. BackdropTicks : m' = Dispatch(m, n, timer)
      BY <1>5 DEF Timeout
    <2>2. timer \in Nat
      BY NodeFacts
    <2> QED
      BY <1>5, <2>1, <2>2, DispatchPhases DEF Timeout
  <1>6. CASE UNCHANGED m
    BY <1>6, Unseen DEF DialogIInv, DialogTypeOK, Phases, Gone, Present, Opening, Open,
                        CutShort, Closing, Fading
  <1> QED
    BY <1>1, <1>2, <1>3, <1>4, <1>5, <1>6 DEF DialogNext

\* However the user mixes opening and closing, a dialog that does not count as shown has
\* given the page back when nothing moves any more, and from an opening after all had
\* settled to the next hasty one the dialog, its flag, its class, its focus, its backdrop
\* and what it does to the page agree (show, hide, hideModal, backdrop of bootstrap.js).
THEOREM DialogAgrees == DialogSpec => []DialogInv
  <1>1. DialogIInv => DialogInv
    <2> SUFFICES ASSUME DialogIInv
                 PROVE  PageFreed /\ (~m.hasty => QuietAgrees /\ OneBackdrop)
      BY DEF DialogInv
    <2>1. "element" \in Nodes /\ \A b \in Backdrops : b \in Nodes
      BY NodeFacts
    <2>2. Quiet => \A n \in Nodes : m.pend[n] = <<>>
      BY DEF Quiet, Moving
    <2>3. PageFreed
      BY <2>2, NoneToClose DEF PageFreed, DialogIInv, Freeing
    <2>4. CASE Gone
      <3>1. m.dom \ m.left = {} /\ Cardinality({}) = 0
        BY <2>4, FS_EmptySet DEF Gone
      <3> QED
        BY <2>3, <2>4, <3>1 DEF Gone, QuietAgrees, OneBackdrop
    <2>5. ASSUME NEW b \in Backdrops, Present(b) PROVE QuietAgrees /\ OneBackdrop
      <3>1. m.dom \ m.left = {b} /\ m.backdrop = b
        BY <2>5 DEF Present
      <3>2. OneBackdrop
        BY <3>1, FS_Singleton DEF OneBackdrop
      <3>3. ASSUME Quiet PROVE Open(b)
        <4>1. m.pend[b] = <<>> /\ m.pend["element"] = <<>>
          BY <2>1, <2>2, <3>3
        <4> QED
          BY <2>5, <4>1, OneWaits DEF Present, Opening, CutShort, Closing, Fading
      <3>4. QuietAgrees
        BY <2>5, <3>1, <3>3 DEF Present, Open, QuietAgrees
      <3> QED
        BY <3>2, <3>4
    <2> QED
      BY <2>3, <2>4, <2>5 DEF DialogIInv, Phases
  <1>2. DialogIInv /\ [DialogNext]_m => DialogIInv'
    BY DialogSteps
  <1> QED
    BY <1>1, <1>2, DialogBegins, PTL DEF DialogSpec

\* The dialog of the page is one that opens, is open, closes and is closed, and that a
\* hasty opening takes out of its course until it is found closed and opened again
\* (Dialog without its fairness).
THEOREM DialogIsImplemented ==
    DialogSpec => Seen!Init /\ [][Seen!Next]_<<SeenAs, m.visible, m.hasty>>
  <1>1. DialogIInv /\ [DialogNext]_m => DialogIInv' /\ [Seen!Next]_<<SeenAs, m.visible, m.hasty>>
    BY DialogSteps DEF SeenStep
  <1> QED
    BY <1>1, DialogBegins, PTL DEF DialogSpec
=============================================================================
