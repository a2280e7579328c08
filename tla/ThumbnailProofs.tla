-------------------------- MODULE ThumbnailProofs --------------------------
(***************************************************************************)
(* Thumbnails, for any number of images of every size.  Of the queue,      *)
(* QueueInv is inductive: InOrder needs OneAtATime, because a reader may   *)
(* overtake a decoder, and OneAtATime needs the flag.  Of one drawing,     *)
(* Bracket is inductive with the types, and what the search finds follows  *)
(* from it when the loop has ended; what options.resize chooses is right   *)
(* by multiplying its fractions out.                                       *)
(***************************************************************************)
EXTENDS ThumbnailQueue, ThumbnailImage, SequenceTheorems, TLAPS

-----------------------------------------------------------------------------
(* The queue of dropzone.js.                                               *)

\* Appending after a prefix is appending to the whole (the queues of dropzone.js).
LEMMA AppendAfter ==
    ASSUME NEW S, NEW s \in Seq(S), NEW t \in Seq(S), NEW e \in S
    PROVE  s \o Append(t, e) = Append(s \o t, e)
  <1>1. Append(t, e) = t \o <<e>>
    BY AppendIsConcat
  <1>2. Append(s \o t, e) = (s \o t) \o <<e>>
    BY ConcatProperties, AppendIsConcat
  <1>3. <<e>> \in Seq(S)
    OBVIOUS
  <1> QED
    BY <1>1, <1>2, <1>3, ConcatAssociative

\* Taking the first element of a sequence behind a prefix moves it to the prefix.
LEMMA Shift ==
    ASSUME NEW S, NEW s \in Seq(S), NEW t \in Seq(S), t # <<>>
    PROVE  /\ Append(s, Head(t)) \o Tail(t) = s \o t
           /\ Head(t) \in S /\ Tail(t) \in Seq(S) /\ Len(Tail(t)) = Len(t) - 1
  <1>1. Head(t) \in S /\ Tail(t) \in Seq(S) /\ Len(Tail(t)) = Len(t) - 1
    BY HeadTailProperties
  <1>2. <<Head(t)>> \in Seq(S)
    BY <1>1
  <1>3. <<Head(t)>> \o Tail(t) = t
    <2>1. Len(t) \in Nat \ {0}
      BY EmptySeq
    <2>2. /\ <<Head(t)>> \o Tail(t) \in Seq(S)
          /\ Len(<<Head(t)>> \o Tail(t)) = 1 + Len(Tail(t))
          /\ \A i \in 1 .. 1 + Len(Tail(t)) :
                (<<Head(t)>> \o Tail(t))[i] = IF i <= 1 THEN <<Head(t)>>[i] ELSE Tail(t)[i - 1]
      BY <1>1, <1>2, ConcatProperties
    <2>3. \A i \in 1 .. Len(Tail(t)) : Tail(t)[i] = t[i + 1]
      BY HeadTailProperties
    <2>4. Head(t) = t[1]
      BY <2>1
    <2>5. \A i \in 1 .. Len(t) : (<<Head(t)>> \o Tail(t))[i] = t[i]
      BY <1>1, <2>1, <2>2, <2>3, <2>4
    <2> QED
      BY <1>1, <2>1, <2>2, <2>5, SeqEqual
  <1>4. Append(s, Head(t)) = s \o <<Head(t)>>
    BY <1>1, AppendIsConcat
  <1>5. (s \o <<Head(t)>>) \o Tail(t) = s \o (<<Head(t)>> \o Tail(t))
    BY <1>1, <1>2, ConcatAssociative
  <1> QED
    BY <1>1, <1>3, <1>4, <1>5

\* Appending makes a sequence one longer and never empty.
LEMMA Longer ==
    ASSUME NEW S, NEW s \in Seq(S), NEW e \in S
    PROVE  /\ Append(s, e) \in Seq(S)
           /\ Len(Append(s, e)) = Len(s) + 1 /\ Len(s) \in Nat
  BY AppendProperties, LenProperties

\* Only the empty sequence has no elements.
LEMMA NoElements ==
    ASSUME NEW S, NEW s \in Seq(S)
    PROVE  Len(s) = 0 <=> s = <<>>
  BY EmptySeq

-----------------------------------------------------------------------------
\* _processThumbnailQueue takes the next image when the slot is free: with open
\* readers it leaves the line of images as it was, one at a time.
LEMMA ProcessKeeps ==
    ASSUME NEW busy \in BOOLEAN, NEW open \in Seq(Images), NEW pre \in Seq(Images),
           queue \in Seq(Images),
           busy \/ open = <<>>,
           Process(busy, open)
    PROVE  /\ processing' \in BOOLEAN /\ reading' \in Seq(Images) /\ queue' \in Seq(Images)
           /\ (pre \o reading') \o queue' = (pre \o open) \o queue
           /\ busy => processing' = TRUE /\ reading' = open
           /\ ~busy => Len(reading') = IF processing' THEN 1 ELSE 0
           /\ queue' # <<>> => processing'
  <1>1. CASE busy \/ queue = <<>>
    <2>1. processing' = busy /\ reading' = open /\ queue' = queue
      BY <1>1 DEF Process
    <2>2. ~busy => Len(reading') = 0
      BY <2>1, NoElements
    <2> QED
      BY <1>1, <2>1, <2>2
  <1>2. CASE ~busy /\ queue # <<>>
    <2>1. processing' = TRUE /\ reading' = Append(open, Head(queue)) /\ queue' = Tail(queue)
      BY <1>2 DEF Process
    <2>2. /\ Append(pre \o open, Head(queue)) \o Tail(queue) = (pre \o open) \o queue
          /\ Head(queue) \in Images /\ Tail(queue) \in Seq(Images)
      <3>1. pre \o open \in Seq(Images)
        BY ConcatProperties
      <3>2. queue # <<>>
        BY <1>2
      <3> QED
        BY <3>1, <3>2, Shift, Zenon
    <2>3. pre \o Append(open, Head(queue)) = Append(pre \o open, Head(queue))
      BY <2>2, AppendAfter
    <2>4. reading' \in Seq(Images) /\ Len(reading') = Len(open) + 1
      BY <2>1, <2>2, Longer
    <2>5. Len(open) = 0
      BY <1>2, NoElements
    <2> QED
      BY <1>2, <2>1, <2>2, <2>3, <2>4, <2>5
  <1> QED
    BY <1>1, <1>2

\* A thumbnail appears (emit and callback) after the image left reader and
\* decoder: the next image takes the slot.
LEMMA ShownKeeps ==
    ASSUME TypeOK, NeverRests, NEW f \in Images, NEW open \in Seq(Images),
           open = <<>>, decoding' = <<>>,
           added = (Append(thumbs, f) \o open) \o queue,
           Shown(f, open)
    PROVE  QueueInv'
  <1>1. /\ thumbs \in Seq(Images) /\ queue \in Seq(Images) /\ added \in Seq(Images)
        /\ timers \in Nat
    BY DEF TypeOK
  <1>2. thumbs' = Append(thumbs, f) /\ timers' = timers /\ added' = added
    BY DEF Shown
  <1>3. thumbs' \in Seq(Images)
    BY <1>1, <1>2, Longer
  <1>4. Process(FALSE, open)
    BY DEF Shown
  <1>5. /\ processing' \in BOOLEAN /\ reading' \in Seq(Images) /\ queue' \in Seq(Images)
        /\ (thumbs' \o reading') \o queue' = (thumbs' \o open) \o queue
        /\ Len(reading') = IF processing' THEN 1 ELSE 0
        /\ queue' # <<>> => processing'
    BY <1>1, <1>3, <1>4, ProcessKeeps
  <1>6. thumbs' \o decoding' = thumbs'
    BY <1>3, ConcatEmptySeq
  <1>7. Len(decoding') = 0 /\ decoding' \in Seq(Images)
    BY EmptySeq
  <1>8. TypeOK'
    BY <1>1, <1>2, <1>3, <1>5, <1>7 DEF TypeOK
  <1>9. OneAtATime'
    BY <1>5, <1>7 DEF OneAtATime
  <1>10. InOrder'
    BY <1>2, <1>5, <1>6 DEF InOrder
  <1>11. NeverRests'
    BY <1>5 DEF NeverRests
  <1> QED
    BY <1>8, <1>9, <1>10, <1>11 DEF QueueInv

\* An image joins the queue with a timer of its own (_enqueueThumbnail).
LEMMA EnqueueKeeps ==
    ASSUME QueueInv, NEW f \in Images, Enqueue(f)
    PROVE  QueueInv'
  <1>1. /\ queue \in Seq(Images) /\ added \in Seq(Images) /\ thumbs \in Seq(Images)
        /\ reading \in Seq(Images) /\ decoding \in Seq(Images) /\ timers \in Nat
        /\ processing \in BOOLEAN
    BY DEF QueueInv, TypeOK
  <1>2. /\ queue' = Append(queue, f) /\ added' = Append(added, f) /\ timers' = timers + 1
        /\ processing' = processing /\ reading' = reading /\ decoding' = decoding
        /\ thumbs' = thumbs
    BY DEF Enqueue
  <1>3. queue' \in Seq(Images) /\ added' \in Seq(Images)
    BY <1>1, <1>2, Longer
  <1>4. (thumbs \o decoding) \o reading \in Seq(Images)
    BY <1>1, ConcatProperties
  <1>5. InOrder'
    <2>1. added = ((thumbs \o decoding) \o reading) \o queue
      BY DEF QueueInv, InOrder
    <2>2. ((thumbs \o decoding) \o reading) \o Append(queue, f)
             = Append(((thumbs \o decoding) \o reading) \o queue, f)
      BY <1>1, <1>4, AppendAfter, SMTT(40)
    <2>3. added' = ((thumbs' \o decoding') \o reading') \o queue'
      BY <1>2, <2>1, <2>2, Zenon
    <2> QED
      BY <2>3 DEF InOrder
  <1>6. TypeOK'
    BY <1>1, <1>2, <1>3 DEF TypeOK
  <1>7. OneAtATime' /\ NeverRests'
    BY <1>1, <1>2 DEF QueueInv, OneAtATime, NeverRests
  <1> QED
    BY <1>5, <1>6, <1>7 DEF QueueInv

\* What OneAtATime says of the reader and the decoder.
LEMMA OneOfTwo ==
    ASSUME TypeOK, OneAtATime
    PROVE  /\ reading # <<>> => processing /\ decoding = <<>> /\ Tail(reading) = <<>>
           /\ decoding # <<>> => processing /\ reading = <<>> /\ Tail(decoding) = <<>>
           /\ ~processing => reading = <<>> /\ decoding = <<>>
  <1>1. reading \in Seq(Images) /\ decoding \in Seq(Images) /\ processing \in BOOLEAN
    BY DEF TypeOK
  <1>2. Len(reading) \in Nat /\ Len(decoding) \in Nat
    BY <1>1, LenProperties
  <1>3. Len(reading) + Len(decoding) = IF processing THEN 1 ELSE 0
    BY DEF OneAtATime
  <1>4. (Len(reading) = 0 <=> reading = <<>>) /\ (Len(decoding) = 0 <=> decoding = <<>>)
    BY <1>1, NoElements
  <1>5. ASSUME reading # <<>> PROVE Tail(reading) = <<>>
    BY <1>1, <1>2, <1>3, <1>4, <1>5, HeadTailProperties, NoElements
  <1>6. ASSUME decoding # <<>> PROVE Tail(decoding) = <<>>
    BY <1>1, <1>2, <1>3, <1>4, <1>6, HeadTailProperties, NoElements
  <1> QED
    BY <1>1, <1>2, <1>3, <1>4, <1>5, <1>6

\* A timer looks at the queue (_processThumbnailQueue).
LEMMA TimerKeeps ==
    ASSUME QueueInv, Timer
    PROVE  QueueInv'
  <1>1. /\ queue \in Seq(Images) /\ added \in Seq(Images) /\ thumbs \in Seq(Images)
        /\ reading \in Seq(Images) /\ decoding \in Seq(Images) /\ timers \in Nat
        /\ processing \in BOOLEAN
    BY DEF QueueInv, TypeOK
  <1>2. /\ timers' = timers - 1 /\ timers > 0
        /\ decoding' = decoding /\ thumbs' = thumbs /\ added' = added
        /\ Process(processing, reading)
    BY DEF Timer
  <1>3. /\ reading # <<>> => processing
        /\ ~processing => reading = <<>> /\ decoding = <<>>
    BY OneOfTwo DEF QueueInv
  <1>4. thumbs \o decoding \in Seq(Images)
    BY <1>1, ConcatProperties
  <1>5. /\ processing' \in BOOLEAN /\ reading' \in Seq(Images) /\ queue' \in Seq(Images)
        /\ ((thumbs \o decoding) \o reading') \o queue' = ((thumbs \o decoding) \o reading) \o queue
        /\ processing => processing' = TRUE /\ reading' = reading
        /\ ~processing => Len(reading') = IF processing' THEN 1 ELSE 0
        /\ queue' # <<>> => processing'
    BY <1>1, <1>2, <1>3, <1>4, ProcessKeeps, ZenonT(60)
  <1>6. TypeOK'
    BY <1>1, <1>2, <1>5 DEF TypeOK
  <1>7. OneAtATime'
    <2>1. CASE processing
      BY <1>2, <1>5, <2>1 DEF QueueInv, OneAtATime
    <2>2. CASE ~processing
      <3>1. Len(decoding') = 0
        BY <1>2, <1>3, <2>2, EmptySeq
      <3> QED
        BY <1>5, <2>2, <3>1 DEF OneAtATime
    <2> QED
      BY <2>1, <2>2
  <1>8. InOrder'
    BY <1>2, <1>5 DEF QueueInv, InOrder
  <1>9. NeverRests'
    BY <1>5 DEF NeverRests
  <1> QED
    BY <1>6, <1>7, <1>8, <1>9 DEF QueueInv

\* A file was read: an SVG is shown, another image goes to the decoder.
LEMMA ReaderKeeps ==
    ASSUME QueueInv, ReaderLoads
    PROVE  QueueInv'
  <1>1. /\ queue \in Seq(Images) /\ added \in Seq(Images) /\ thumbs \in Seq(Images)
        /\ reading \in Seq(Images) /\ decoding \in Seq(Images) /\ timers \in Nat
    BY DEF QueueInv, TypeOK
  <1>2. reading # <<>> /\ processing /\ decoding = <<>> /\ Tail(reading) = <<>>
    BY OneOfTwo DEF QueueInv, ReaderLoads
  <1>3. /\ Head(reading) \in Images /\ Len(Tail(reading)) = Len(reading) - 1
        /\ Append(thumbs, Head(reading)) \o Tail(reading) = thumbs \o reading
    BY <1>1, <1>2, Shift
  <1>4. thumbs \o decoding = thumbs
    BY <1>1, <1>2, ConcatEmptySeq
  <1>5. CASE Head(reading) \in Svg
    <2>1. Shown(Head(reading), Tail(reading)) /\ decoding' = <<>>
      BY <1>2, <1>5 DEF ReaderLoads
    <2>2. added = (Append(thumbs, Head(reading)) \o Tail(reading)) \o queue
      BY <1>3, <1>4 DEF QueueInv, InOrder
    <2>3. Tail(reading) \in Seq(Images)
      BY <1>1, <1>2, Shift
    <2> QED
      BY <1>2, <1>3, <2>1, <2>2, <2>3, ShownKeeps DEF QueueInv
  <1>6. CASE Head(reading) \notin Svg
    <2>1. /\ reading' = Tail(reading) /\ decoding' = Append(decoding, Head(reading))
          /\ queue' = queue /\ processing' = processing /\ timers' = timers
          /\ thumbs' = thumbs /\ added' = added
      BY <1>6 DEF ReaderLoads
    <2>2. /\ decoding' \in Seq(Images) /\ Len(decoding') = Len(decoding) + 1
          /\ reading' \in Seq(Images) /\ Len(reading') = Len(reading) - 1
      BY <1>1, <1>2, <1>3, <2>1, Longer, Shift
    <2>3. Len(reading) \in Nat /\ Len(decoding) \in Nat
      BY <1>1, LenProperties
    <2>4. thumbs \o Append(decoding, Head(reading)) = Append(thumbs, Head(reading))
      BY <1>1, <1>3, <1>4, AppendAfter
    <2>5. InOrder'
      BY <1>3, <1>4, <2>1, <2>4 DEF QueueInv, InOrder
    <2>6. TypeOK'
      BY <2>1, <2>2 DEF QueueInv, TypeOK
    <2>7. OneAtATime' /\ NeverRests'
      BY <2>1, <2>2, <2>3 DEF QueueInv, OneAtATime, NeverRests
    <2> QED
      BY <2>5, <2>6, <2>7 DEF QueueInv
  <1> QED
    BY <1>5, <1>6

\* An image was decoded: its thumbnail appears.
LEMMA ImageKeeps ==
    ASSUME QueueInv, ImageLoads
    PROVE  QueueInv'
  <1>1. /\ queue \in Seq(Images) /\ added \in Seq(Images) /\ thumbs \in Seq(Images)
        /\ reading \in Seq(Images) /\ decoding \in Seq(Images)
    BY DEF QueueInv, TypeOK
  <1>2. decoding # <<>> /\ reading = <<>> /\ Tail(decoding) = <<>>
    BY OneOfTwo DEF QueueInv, ImageLoads
  <1>3. /\ Head(decoding) \in Images
        /\ Append(thumbs, Head(decoding)) \o Tail(decoding) = thumbs \o decoding
    BY <1>1, <1>2, Shift
  <1>4. Append(thumbs, Head(decoding)) \in Seq(Images)
    BY <1>1, <1>3, Longer
  <1>5. Append(thumbs, Head(decoding)) = thumbs \o decoding
    BY <1>2, <1>3, <1>4, ConcatEmptySeq
  <1>6. added = (Append(thumbs, Head(decoding)) \o reading) \o queue
    BY <1>5 DEF QueueInv, InOrder
  <1>7. Shown(Head(decoding), reading) /\ decoding' = <<>>
    BY <1>2 DEF ImageLoads
  <1> QED
    BY <1>1, <1>2, <1>3, <1>6, <1>7, ShownKeeps DEF QueueInv

-----------------------------------------------------------------------------
\* The page starts without images (the fields of the Dropzone prototype).
LEMMA InitIInv == Init => QueueInv
  <1> SUFFICES ASSUME Init PROVE QueueInv
    OBVIOUS
  <1>1. <<>> \in Seq(Images) /\ Len(<<>>) = 0
    BY EmptySeq
  <1>2. <<>> \o <<>> \o <<>> \o <<>> = <<>>
    BY <1>1, ConcatEmptySeq
  <1>3. TypeOK
    BY <1>1 DEF Init, TypeOK
  <1>4. OneAtATime
    BY <1>1 DEF Init, OneAtATime
  <1>5. InOrder
    BY <1>2, Zenon DEF Init, InOrder
  <1>6. NeverRests
    BY DEF Init, NeverRests
  <1> QED
    BY <1>3, <1>4, <1>5, <1>6 DEF QueueInv

\* The four invariants hold together in every state of the thumbnail queue.
THEOREM QueueInvariance == Spec => []QueueInv
  <1>1. QueueInv /\ [Next]_vars => QueueInv'
    <2> SUFFICES ASSUME QueueInv, [Next]_vars PROVE QueueInv'
      OBVIOUS
    <2>1. ASSUME NEW f \in Images, Enqueue(f) PROVE QueueInv'
      BY <2>1, EnqueueKeeps
    <2>2. CASE Timer
      BY <2>2, TimerKeeps
    <2>3. CASE ReaderLoads
      BY <2>3, ReaderKeeps
    <2>4. CASE ImageLoads
      BY <2>4, ImageKeeps
    <2>5. CASE UNCHANGED vars
      BY <2>5 DEF vars, QueueInv, TypeOK, OneAtATime, InOrder, NeverRests
    <2> QED
      BY <2>1, <2>2, <2>3, <2>4, <2>5 DEF Next
  <1> QED
    BY <1>1, InitIInv, PTL DEF Spec

\* The queue and its flag keep their types.
THEOREM QueueTypeCorrect == Spec => []TypeOK
  <1>1. QueueInv => TypeOK
    BY DEF QueueInv
  <1> QED
    BY <1>1, QueueInvariance, PTL

\* OneAtATime for any number of images: never two readers or decoders.
THEOREM OneDecoder == Spec => []OneAtATime
  <1>1. QueueInv => OneAtATime
    BY DEF QueueInv
  <1> QED
    BY <1>1, QueueInvariance, PTL

\* InOrder for any number of images: first added, first shown, none lost.
THEOREM KeptInOrder == Spec => []InOrder
  <1>1. QueueInv => InOrder
    BY DEF QueueInv
  <1> QED
    BY <1>1, QueueInvariance, PTL

\* NeverRests for any number of images: a waiting image is always about to be
\* looked at.
THEOREM QueueNeverRests == Spec => []NeverRests
  <1>1. QueueInv => NeverRests
    BY DEF QueueInv
  <1> QED
    BY <1>1, QueueInvariance, PTL

-----------------------------------------------------------------------------
(* The search of detectVerticalSquash.                                     *)

DrawIInv == DrawTypeOK /\ Bracket /\ (pc = "drawn" => py <= sy)

\* Halving the sum of two numbers lands between them, below the larger one
\* (the shift in detectVerticalSquash).
LEMMA Halves ==
    ASSUME NEW a \in Nat, NEW b \in Nat, a <= b
    PROVE  /\ (b + a) \div 2 \in Nat
           /\ a <= (b + a) \div 2
           /\ (b + a) \div 2 <= b
           /\ a < b => (b + a) \div 2 < b
  BY SMT

\* The loop starts from a bracket and each pass keeps one (detectVerticalSquash).
LEMMA DrawInitIInv == DrawInit => DrawIInv
  <1> SUFFICES ASSUME DrawInit PROVE DrawIInv
    OBVIOUS
  <1>1. width \in Nat \ {0} /\ height \in Nat \ {0} /\ boxWidth \in Nat /\ boxHeight \in Nat
    BY SizesAssumption, BoxAssumption DEF DrawInit
  <1>2. opaque \subseteq 1 .. height
    BY DEF DrawInit
  <1> QED
    BY <1>1, <1>2 DEF DrawInit, DrawIInv, DrawTypeOK, Bracket

\* A pass of the loop keeps the bracket, whichever row it looks at.
LEMMA ProbeKeeps == DrawIInv /\ Probe => DrawIInv'
  <1> SUFFICES ASSUME DrawIInv, Probe PROVE DrawIInv'
    OBVIOUS
  <1>1. /\ height \in Nat \ {0} /\ sy \in Nat /\ ey \in Nat /\ py \in Nat
        /\ sy < py /\ py <= ey /\ ey <= height
    BY DEF DrawIInv, DrawTypeOK, Bracket, Probe
  <1>2. UNCHANGED <<width, height, boxWidth, boxHeight, opaque, info, pc>> /\ pc = "probing"
    BY DEF Probe, inputs
  <1>3. py' = (ey' + sy') \div 2
    BY DEF Probe
  <1>4. CASE py \in opaque
    <2>1. sy' = py /\ ey' = ey
      BY <1>4 DEF Probe
    <2>2. py' \in Nat /\ sy' <= py' /\ py' <= ey' /\ (sy' < ey' => py' < ey')
      BY <2>1, <1>1, <1>3, Halves
    <2>3. py' = ey' => ey' = height' /\ sy' = ey'
      BY <2>1, <2>2, <1>1, <1>2 DEF DrawIInv, Bracket
    <2>4. py' # ey' => ey' \notin opaque'
      BY <2>1, <2>2, <1>1, <1>2, <1>4 DEF DrawIInv, Bracket
    <2>5. DrawTypeOK'
      BY <2>1, <2>2, <1>1, <1>2 DEF DrawIInv, DrawTypeOK
    <2> QED
      BY <2>1, <2>2, <2>3, <2>4, <2>5, <1>2, <1>3, <1>4 DEF DrawIInv, Bracket
  <1>5. CASE py \notin opaque
    <2>1. sy' = sy /\ ey' = py
      BY <1>5 DEF Probe
    <2>2. py' \in Nat /\ sy' <= py' /\ py' < ey'
      BY <2>1, <1>1, <1>3, Halves
    <2>3. ey' \notin opaque' /\ (sy' = 0 \/ sy' \in opaque')
      BY <2>1, <1>2, <1>5 DEF DrawIInv, Bracket
    <2>4. DrawTypeOK'
      BY <2>1, <2>2, <1>1, <1>2 DEF DrawIInv, DrawTypeOK
    <2> QED
      BY <2>1, <2>2, <2>3, <2>4, <1>1, <1>2, <1>3 DEF DrawIInv, Bracket
  <1> QED
    BY <1>4, <1>5

\* The bracket is an invariant of the thumbnail code for pictures of any size.
THEOREM DrawInvariance == DrawSpec => []DrawIInv
  <1>1. DrawIInv /\ [DrawNext]_drawVars => DrawIInv'
    <2> SUFFICES ASSUME DrawIInv, [DrawNext]_drawVars PROVE DrawIInv'
      OBVIOUS
    <2>1. CASE Loaded
      <3>1. height \in Nat \ {0}
        BY DEF DrawIInv, DrawTypeOK
      <3> QED
        BY <2>1, <3>1 DEF Loaded, inputs, DrawIInv, DrawTypeOK, Bracket
    <2>2. CASE Probe
      BY <2>2, ProbeKeeps
    <2>3. CASE Draw
      BY <2>3 DEF Draw, inputs, DrawIInv, DrawTypeOK, Bracket
    <2>4. CASE UNCHANGED drawVars
      BY <2>4 DEF drawVars, inputs, DrawIInv, DrawTypeOK, Bracket
    <2> QED
      BY <2>1, <2>2, <2>3, <2>4 DEF DrawNext
  <1> QED
    BY <1>1, DrawInitIInv, PTL DEF DrawSpec

\* The variables of the search stay within the picture.
THEOREM DrawTypeCorrect == DrawSpec => []DrawTypeOK
  <1>1. DrawIInv => DrawTypeOK
    BY DEF DrawIInv
  <1> QED
    BY <1>1, DrawInvariance, PTL

\* Bracket holds in every state: the loop invariant of detectVerticalSquash.
THEOREM AlwaysBracketed == DrawSpec => []Bracket
  <1>1. DrawIInv => Bracket
    BY DEF DrawIInv
  <1> QED
    BY <1>1, DrawInvariance, PTL

\* When the loop has ended the bracket is closed around one row.
LEMMA Closed ==
    ASSUME DrawIInv, pc = "drawn"
    PROVE  /\ py \in 0 .. height
           /\ py = 0 \/ py \in opaque
           /\ py # height => py + 1 \notin opaque
  <1>1. /\ height \in Nat \ {0} /\ sy \in Nat /\ ey \in Nat /\ py \in 0 .. height
        /\ sy = py /\ py <= ey
    BY DEF DrawIInv, DrawTypeOK, Bracket
  <1>2. sy = 0 \/ sy \in opaque
    BY DEF DrawIInv, Bracket
  <1>3. ASSUME py # height PROVE py + 1 \notin opaque
    <2>1. py # ey
      BY <1>3 DEF DrawIInv, Bracket
    <2>2. ey \notin opaque /\ py = (ey + sy) \div 2
      BY <2>1 DEF DrawIInv, Bracket
    <2>3. ey = py + 1
      BY <1>1, <2>1, <2>2
    <2> QED
      BY <2>2, <2>3
  <1> QED
    BY <1>1, <1>2, <1>3

\* FootFound for every picture: the search ends where an opaque row lies above
\* a transparent one.
THEOREM SearchFindsFoot == DrawSpec => []FootFound
  <1>1. DrawIInv => FootFound
    BY Closed DEF FootFound
  <1> QED
    BY <1>1, DrawInvariance, PTL

\* SquashFound for every picture: of a drawing that iOS squashed, the search
\* finds the number of rows.
THEOREM SearchFindsSquash == DrawSpec => []SquashFound
  <1>1. DrawIInv => SquashFound
    <2> SUFFICES ASSUME DrawIInv, pc = "drawn", NEW k \in 0 .. height, opaque = 1 .. k
                 PROVE  py = k
      BY DEF SquashFound
    <2>1. height \in Nat
      BY DEF DrawIInv, DrawTypeOK
    <2>2. py \in 0 .. height /\ (py = 0 \/ py \in 1 .. k) /\ (py # height => py + 1 \notin 1 .. k)
      BY Closed
    <2> QED
      BY <2>1, <2>2
  <1> QED
    BY <1>1, DrawInvariance, PTL

\* StretchBounded for every picture: the height that is drawn is neither shrunk
\* nor, by a search that finds nothing, divided by zero.
THEOREM StretchIsBounded == DrawSpec => []StretchBounded
  <1>1. DrawIInv => StretchBounded
    <2> SUFFICES ASSUME DrawIInv, pc = "drawn"
                 PROVE  ~Less(<<1, 1>>, SquashRatio) /\ ~Less(SquashRatio, <<1, height>>)
      BY DEF StretchBounded
    <2>1. height \in Nat \ {0} /\ py \in 0 .. height
      BY DEF DrawIInv, DrawTypeOK
    <2>2. CASE py = 0
      BY <2>1, <2>2 DEF Less, SquashRatio
    <2>3. CASE py # 0
      <3>1. ~(height < py) /\ py >= 1
        BY <2>1, <2>3
      <3>2. SquashRatio = <<py, height>>
        BY <2>3 DEF SquashRatio
      <3>3. ~Less(<<1, 1>>, <<py, height>>)
        BY <2>1, <3>1 DEF Less
      <3>4. py * height >= height
        BY <2>1, <3>1
      <3>5. ~Less(<<py, height>>, <<1, height>>)
        BY <2>1, <3>4 DEF Less
      <3> QED
        BY <3>2, <3>3, <3>5
    <2> QED
      BY <2>2, <2>3
  <1> QED
    BY <1>1, DrawInvariance, PTL

\* DrawInv for every picture, in boxes of every size.
THEOREM SearchSound == DrawSpec => []DrawInv
  <1>1. DrawTypeOK /\ Bracket /\ FootFound /\ SquashFound /\ StretchBounded => DrawInv
    BY DEF DrawInv
  <1> QED
    BY <1>1, DrawTypeCorrect, AlwaysBracketed, SearchFindsFoot, SearchFindsSquash,
       StretchIsBounded, PTL

\* Narrows for every picture: after the first probe each one leaves fewer rows.
THEOREM SearchNarrows == DrawSpec => Narrows
  <1>1. ASSUME DrawIInv, [DrawNext]_drawVars
        PROVE  [Probe /\ ~(py = height /\ ey = height /\ sy = 0) => ey' - sy' < ey - sy]_drawVars
    <2> SUFFICES ASSUME Probe, ~(py = height /\ ey = height /\ sy = 0)
                 PROVE  ey' - sy' < ey - sy
      OBVIOUS
    <2>1. /\ height \in Nat \ {0} /\ sy \in Nat /\ ey \in Nat /\ py \in Nat
          /\ sy < py /\ py <= ey
      BY <1>1 DEF DrawIInv, DrawTypeOK, Bracket, Probe
    <2>2. CASE py \in opaque
      <3>1. sy' = py /\ ey' = ey
        BY <2>2 DEF Probe
      <3> QED
        BY <2>1, <3>1
    <2>3. CASE py \notin opaque
      <3>1. sy' = sy /\ ey' = py
        BY <2>3 DEF Probe
      <3>2. py # ey
        BY <1>1, <2>1 DEF DrawIInv, Bracket, Probe
      <3> QED
        BY <2>1, <3>1, <3>2
    <2> QED
      BY <2>2, <2>3
  <1> QED
    BY <1>1, DrawInvariance, PTL DEF DrawSpec, Narrows

-----------------------------------------------------------------------------
(* The part of a picture that is shown, by cross-multiplied fractions.     *)

\* A product of positive numbers is positive.
LEMMA Product ==
    ASSUME NEW a \in Nat \ {0}, NEW b \in Nat \ {0}
    PROVE  a * b \in Nat \ {0}
  BY SMT

\* Multiplication keeps an order.
LEMMA Scaled ==
    ASSUME NEW k \in Nat, NEW x \in Nat, NEW y \in Nat, x <= y
    PROVE  k * x <= k * y
  BY SMT

\* Factors may be taken in any order.
LEMMA Factors ==
    ASSUME NEW a \in Nat, NEW b \in Nat, NEW c \in Nat
    PROVE  /\ a * b \in Nat /\ a * b = b * a
           /\ (a * b) * c = a * (b * c)
           /\ (a * b) * c = b * (a * c)
  BY SMT

Positive == Nat \ {0}

\* The sides of the box are positive, whichever of them are given.
LEMMA BoxIsPositive ==
    ASSUME NEW w \in Positive, NEW h \in Positive, NEW bw \in Nat, NEW bh \in Nat
    PROVE  \E a, b, c, d \in Positive : Box(w, h, bw, bh) = [w |-> <<a, b>>, h |-> <<c, d>>]
  <1>1. 1 \in Positive
    BY DEF Positive
  <1>2. CASE bw = 0 /\ bh = 0
    BY <1>1, <1>2 DEF Box
  <1>3. CASE bw = 0 /\ bh # 0
    <2>1. bh \in Positive /\ w * bh \in Positive
      BY <1>3, Product DEF Positive
    <2> QED
      BY <1>1, <1>3, <2>1 DEF Box
  <1>4. CASE bw # 0 /\ bh = 0
    <2>1. bw \in Positive /\ h * bw \in Positive
      BY <1>4, Product DEF Positive
    <2> QED
      BY <1>1, <1>4, <2>1 DEF Box
  <1>5. CASE bw # 0 /\ bh # 0
    BY <1>1, <1>5 DEF Box, Positive
  <1> QED
    BY <1>2, <1>3, <1>4, <1>5

\* What the part src of a w by h picture shown as trg has to be.
LargestFor(w, h, src, trg) ==
    /\ ~Less(<<w, 1>>, src.w) /\ ~Less(<<h, 1>>, src.h)
    /\ Equal(src.w, <<w, 1>>) \/ Equal(src.h, <<h, 1>>)
    /\ Equal(Ratio(src), Ratio(trg))
    /\ ~Less(src.w, trg.w) /\ ~Less(src.h, trg.h)

\* A picture that is wider than the box keeps its height.
LEMMA CropWide ==
    ASSUME NEW w \in Positive, NEW h \in Positive,
           NEW a \in Positive, NEW b \in Positive, NEW c \in Positive, NEW d \in Positive,
           c <= h * d, (a * d) * h < w * (b * c)
    PROVE  LargestFor(w, h, [w |-> <<h * (a * d), b * c>>, h |-> <<h, 1>>],
                            [w |-> <<a, b>>, h |-> <<c, d>>])
  <1> DEFINE p == a * d
             q == b * c
  <1>1. p \in Nat /\ q \in Nat /\ w \in Nat /\ h \in Nat /\ a \in Nat /\ b \in Nat
        /\ c \in Nat /\ d \in Nat
    BY Product DEF Positive
  <1>2. h * p <= w * q
    BY <1>1, Factors
  <1>3. a * q <= (h * p) * b
    <2>1. (a * b) * c <= (a * b) * (h * d)
      BY <1>1, Factors, Scaled
    <2>2. (a * b) * c = a * q
      BY <1>1, Factors
    <2>3. (a * b) * (h * d) = (h * p) * b
      <3>1. (h * p) * b = h * (p * b) /\ p * b = (a * b) * d
        BY <1>1, SMT
      <3>2. a * b \in Nat
        BY <1>1, Factors
      <3>3. (a * b) * (h * d) = h * ((a * b) * d)
        BY <1>1, <3>2, SMT
      <3> QED
        BY <3>1, <3>3
    <2> QED
      BY <2>1, <2>2, <2>3
  <1>4. (h * p) * q = p * (q * h)
    BY <1>1, SMT
  <1> HIDE DEF p, q
  <1>5. h * p \in Nat /\ w * q \in Nat /\ a * q \in Nat /\ (h * p) * b \in Nat /\ h * d \in Nat
        /\ q * h \in Nat
    BY <1>1, Factors
  <1>6. (h * p) * 1 = h * p /\ w * q = w * q /\ h * 1 = h /\ c * 1 = c /\ q * 1 = q
    BY <1>1, <1>5
  <1>7. LargestFor(w, h, [w |-> <<h * p, q>>, h |-> <<h, 1>>], [w |-> <<a, b>>, h |-> <<c, d>>])
    <2> DEFINE src == [w |-> <<h * p, q>>, h |-> <<h, 1>>]
               trg == [w |-> <<a, b>>, h |-> <<c, d>>]
    <2>1. ~Less(<<w, 1>>, src.w)
      BY <1>2, <1>5, <1>6 DEF Less
    <2>2. ~Less(<<h, 1>>, src.h) /\ Equal(src.h, <<h, 1>>)
      BY <1>1, <1>6 DEF Less, Equal
    <2>3. Equal(Ratio(src), Ratio(trg))
      BY <1>4, <1>6 DEF Equal, Ratio, p, q
    <2>4. ~Less(src.w, trg.w)
      BY <1>3, <1>5 DEF Less
    <2>5. ~Less(src.h, trg.h)
      BY <1>1, <1>5, <1>6 DEF Less
    <2> QED
      BY <2>1, <2>2, <2>3, <2>4, <2>5 DEF LargestFor
  <1> QED
    BY <1>7 DEF p, q

\* A picture that is no wider than the box keeps its width.
LEMMA CropTall ==
    ASSUME NEW w \in Positive, NEW h \in Positive,
           NEW a \in Positive, NEW b \in Positive, NEW c \in Positive, NEW d \in Positive,
           a <= w * b, ~((a * d) * h < w * (b * c))
    PROVE  LargestFor(w, h, [w |-> <<w, 1>>, h |-> <<w * (b * c), a * d>>],
                            [w |-> <<a, b>>, h |-> <<c, d>>])
  <1> DEFINE p == a * d
             q == b * c
  <1>1. p \in Nat /\ q \in Nat /\ w \in Nat /\ h \in Nat /\ a \in Nat /\ b \in Nat
        /\ c \in Nat /\ d \in Nat
    BY Product DEF Positive
  <1>2. w * q <= h * p
    BY <1>1, Factors
  <1>3. c * p <= (w * q) * d
    <2>1. (c * d) * a <= (c * d) * (w * b)
      BY <1>1, Factors, Scaled
    <2>2. (c * d) * a = c * p
      BY <1>1, SMT
    <2>3. (c * d) * (w * b) = (w * q) * d
      <3>1. (w * q) * d = w * (q * d) /\ q * d = (c * d) * b
        BY <1>1, SMT
      <3>2. c * d \in Nat
        BY <1>1, Factors
      <3>3. (c * d) * (w * b) = w * ((c * d) * b)
        BY <1>1, <3>2, SMT
      <3> QED
        BY <3>1, <3>3
    <2> QED
      BY <2>1, <2>2, <2>3
  <1>4. (w * p) * q = p * (w * q)
    BY <1>1, SMT
  <1> HIDE DEF p, q
  <1>5. h * p \in Nat /\ w * q \in Nat /\ c * p \in Nat /\ (w * q) * d \in Nat /\ w * b \in Nat
        /\ w * p \in Nat
    BY <1>1, Factors
  <1>6. (w * q) * 1 = w * q /\ 1 * (w * q) = w * q /\ w * 1 = w /\ a * 1 = a
    BY <1>1, <1>5
  <1>7. LargestFor(w, h, [w |-> <<w, 1>>, h |-> <<w * q, p>>], [w |-> <<a, b>>, h |-> <<c, d>>])
    <2> DEFINE src == [w |-> <<w, 1>>, h |-> <<w * q, p>>]
               trg == [w |-> <<a, b>>, h |-> <<c, d>>]
    <2>1. ~Less(<<h, 1>>, src.h)
      BY <1>2, <1>5, <1>6 DEF Less
    <2>2. ~Less(<<w, 1>>, src.w) /\ Equal(src.w, <<w, 1>>)
      BY <1>1, <1>6 DEF Less, Equal
    <2>3. Equal(Ratio(src), Ratio(trg))
      BY <1>4, <1>6 DEF Equal, Ratio, p, q
    <2>4. ~Less(src.h, trg.h)
      BY <1>3, <1>5 DEF Less
    <2>5. ~Less(src.w, trg.w)
      BY <1>1, <1>5, <1>6 DEF Less
    <2> QED
      BY <2>1, <2>2, <2>3, <2>4, <2>5 DEF LargestFor
  <1> QED
    BY <1>7 DEF p, q

\* options.resize shows the largest part of a picture that has the shape of the
\* box, and shows no picture larger than it is.
LEMMA ResizeIsLargest ==
    ASSUME NEW w \in Positive, NEW h \in Positive, NEW bw \in Nat, NEW bh \in Nat
    PROVE  LargestFor(w, h, Resize(w, h, bw, bh).src, Resize(w, h, bw, bh).trg)
  <1> DEFINE box == Box(w, h, bw, bh)
             small == Less(<<h, 1>>, box.h) \/ Less(<<w, 1>>, box.w)
             whole == [w |-> <<w, 1>>, h |-> <<h, 1>>]
  <1>1. PICK a, b, c, d \in Positive : box = [w |-> <<a, b>>, h |-> <<c, d>>]
    BY BoxIsPositive
  <1>2. Resize(w, h, bw, bh) = [src |-> IF small THEN whole ELSE Crop(w, h, Ratio(box)),
                                trg |-> IF small THEN whole ELSE box]
    BY DEF Resize
  <1>3. CASE small
    <2>1. Resize(w, h, bw, bh).src = whole /\ Resize(w, h, bw, bh).trg = whole
      BY <1>2, <1>3
    <2>2. LargestFor(w, h, whole, whole)
      BY DEF LargestFor, Less, Equal, Ratio, Positive
    <2> QED
      BY <2>1, <2>2
  <1>4. CASE ~small
    <2>1. /\ Resize(w, h, bw, bh).src = Crop(w, h, Ratio(box))
          /\ Resize(w, h, bw, bh).trg = [w |-> <<a, b>>, h |-> <<c, d>>]
      BY <1>1, <1>2, <1>4
    <2>2. ~Less(<<h, 1>>, box.h) /\ ~Less(<<w, 1>>, box.w)
      BY <1>4
    <2> HIDE DEF box
    <2>3. c <= h * d /\ a <= w * b
      <3>1. ~(h * d < c * 1) /\ ~(w * b < a * 1)
        BY <1>1, <2>2 DEF Less
      <3> QED
        BY <3>1, Product DEF Positive
    <2>4. Ratio(box) = <<a * d, b * c>>
      BY <1>1 DEF Ratio
    <2>5. CASE (a * d) * h < w * (b * c)
      <3>1. Crop(w, h, Ratio(box)) = [w |-> <<h * (a * d), b * c>>, h |-> <<h, 1>>]
        BY <2>4, <2>5 DEF Crop, Less
      <3> QED
        BY <2>1, <2>3, <2>5, <3>1, CropWide
    <2>6. CASE ~((a * d) * h < w * (b * c))
      <3>1. Crop(w, h, Ratio(box)) = [w |-> <<w, 1>>, h |-> <<w * (b * c), a * d>>]
        BY <2>4, <2>6 DEF Crop, Less
      <3> QED
        BY <2>1, <2>3, <2>6, <3>1, CropTall
    <2> QED
      BY <2>5, <2>6
  <1> QED
    BY <1>3, <1>4

\* ResizeInv for pictures and boxes of every size: the result of options.resize
\* is not changed by the search that follows it.
THEOREM ShownAsLargeAsMayBe == DrawSpec => []ResizeInv
  <1> DEFINE Resized == info # <<>> => info = Resize(width, height, boxWidth, boxHeight)
  <1>1. DrawInit => Resized
    BY DEF DrawInit
  <1>2. Resized /\ [DrawNext]_drawVars => Resized'
    BY DEF DrawNext, Loaded, Probe, Draw, drawVars, inputs
  <1>3. DrawTypeOK /\ Resized => ResizeInv
    <2> SUFFICES ASSUME DrawTypeOK, Resized, info # <<>>
                 PROVE  LargestFor(width, height, info.src, info.trg)
      BY DEF ResizeInv, LargestPart, NeverEnlarged, LargestFor
    <2>1. /\ width \in Positive /\ height \in Positive
          /\ boxWidth \in Nat /\ boxHeight \in Nat
      BY DEF DrawTypeOK, Positive
    <2> QED
      BY <2>1, ResizeIsLargest
  <1> QED
    BY <1>1, <1>2, <1>3, DrawTypeCorrect, PTL DEF DrawSpec
=============================================================================
