--------------------------- MODULE ThumbnailQueue ---------------------------
(***************************************************************************)
(* The thumbnails of the upload queue: dropzone.js decodes one image at a  *)
(* time.  Every image that is added joins _thumbnailQueue and sets a timer *)
(* that calls _processThumbnailQueue; a decoded image calls it again.  The *)
(* file reader and the img element have an onload handler and no onerror   *)
(* handler: an image that cannot be read or decoded never calls back.      *)
(***************************************************************************)
EXTENDS Naturals, Sequences, SequencesExt

CONSTANTS
    Images,   \* files that _enqueueThumbnail accepts: images of at most 10 MB
    Svg,      \* those of type image/svg+xml, which are shown without a canvas
    Broken    \* those whose reader or img element reports an error

ASSUME ImagesAssumption == Svg \subseteq Images /\ Broken \subseteq Images

VARIABLES
    queue,       \* this._thumbnailQueue
    processing,  \* this._processingThumbnail
    reading,     \* files with an open FileReader, oldest first
    decoding,    \* files with an img element that loads, oldest first
    timers,      \* callbacks of setTimeout(_processThumbnailQueue, 0)
    thumbs,      \* files for which "thumbnail" was emitted, in order
    added        \* history: the images in the order they were added

vars == <<queue, processing, reading, decoding, timers, thumbs, added>>

TypeOK ==
    /\ queue \in Seq(Images)
    /\ processing \in BOOLEAN
    /\ reading \in Seq(Images)
    /\ decoding \in Seq(Images)
    /\ timers \in Nat
    /\ thumbs \in Seq(Images)
    /\ added \in Seq(Images)

Init ==
    /\ queue = <<>>
    /\ processing = FALSE
    /\ reading = <<>>
    /\ decoding = <<>>
    /\ timers = 0
    /\ thumbs = <<>>
    /\ added = <<>>

\* Mutant of Process: the flag is not consulted.
ProcessAnyway(busy, open) ==
    IF queue = <<>>
    THEN processing' = busy /\ reading' = open /\ UNCHANGED queue
    ELSE processing' = TRUE /\ reading' = Append(open, Head(queue)) /\ queue' = Tail(queue)

\* Mutant of Process: pop() where the code has shift().
ProcessLast(busy, open) ==
    IF busy \/ queue = <<>>
    THEN processing' = busy /\ reading' = open /\ UNCHANGED queue
    ELSE /\ processing' = TRUE
         /\ reading' = Append(open, queue[Len(queue)])
         /\ queue' = SubSeq(queue, 1, Len(queue) - 1)

\* Mutant of Process: shift() without a look at the length.
ProcessEmpty(busy, open) ==
    IF busy
    THEN processing' = busy /\ reading' = open /\ UNCHANGED queue
    ELSE /\ processing' = TRUE
         /\ reading' = Append(open, IF queue = <<>> THEN "undefined" ELSE Head(queue))
         /\ queue' = IF queue = <<>> THEN queue ELSE Tail(queue)

\* _processThumbnailQueue() when the flag is busy and the readers in open are at work.
Process(busy, open) ==
    IF busy \/ queue = <<>>
    THEN processing' = busy /\ reading' = open /\ UNCHANGED queue
    ELSE processing' = TRUE /\ reading' = Append(open, Head(queue)) /\ queue' = Tail(queue)

\* _enqueueThumbnail(f), called by addFile.
Enqueue(f) ==
    /\ f \notin ToSet(added)
    /\ queue' = Append(queue, f)
    /\ added' = Append(added, f)
    /\ timers' = timers + 1
    /\ UNCHANGED <<processing, reading, decoding, thumbs>>

Timer ==
    /\ timers > 0
    /\ timers' = timers - 1
    /\ Process(processing, reading)
    /\ UNCHANGED <<decoding, thumbs, added>>

\* Mutant of Shown: the callback leaves the queue to the next timer.
ShownAndLeft(f, open) ==
    /\ thumbs' = Append(thumbs, f)
    /\ processing' = FALSE
    /\ reading' = open
    /\ UNCHANGED <<queue, timers, added>>

\* emit("thumbnail") and the callback that frees the slot and takes the next image.
Shown(f, open) ==
    /\ thumbs' = Append(thumbs, f)
    /\ Process(FALSE, open)
    /\ UNCHANGED <<timers, added>>

\* fileReader.onload: an SVG is shown as it is, any other image is decoded first.
ReaderLoads ==
    /\ reading # <<>>
    /\ Head(reading) \notin Broken
    /\ IF Head(reading) \in Svg
       THEN Shown(Head(reading), Tail(reading)) /\ UNCHANGED decoding
       ELSE /\ reading' = Tail(reading)
            /\ decoding' = Append(decoding, Head(reading))
            /\ UNCHANGED <<queue, processing, timers, thumbs, added>>

\* img.onload.  A broken image ends in its reader or here: the model stops it there.
ImageLoads ==
    /\ decoding # <<>>
    /\ decoding' = Tail(decoding)
    /\ Shown(Head(decoding), reading)

Next ==
    \/ \E f \in Images : Enqueue(f)
    \/ Timer
    \/ ReaderLoads
    \/ ImageLoads

Spec == Init /\ [][Next]_vars

(* Timers run and readers and decoders answer; nobody has to add an image. *)
FairSpec == Spec /\ WF_vars(Timer) /\ WF_vars(ReaderLoads) /\ WF_vars(ImageLoads)

-----------------------------------------------------------------------------
\* Images are decoded one at a time, and the flag says whether one is
\* (createThumbnail's memory would otherwise grow with the number of files).
OneAtATime == Len(reading) + Len(decoding) = IF processing THEN 1 ELSE 0

\* Thumbnails appear in the order in which the images were added, and none is
\* lost between the queue, the reader, the decoder and the preview.
InOrder == added = thumbs \o decoding \o reading \o queue

\* The queue never rests: while an image waits, one is at work or a timer will
\* look at the queue.
NeverRests == queue # <<>> => processing \/ timers > 0

\* The queue is sound: typed, one image at work, none out of order, never at rest.
QueueInv == TypeOK /\ OneAtATime /\ InOrder /\ NeverRests

\* Every image gets its thumbnail, unless a broken image is at work: that one
\* keeps the flag set for as long as the page lives.
ThumbnailOrBlocked ==
    \A f \in Images :
        f \in ToSet(queue) ~>
            f \in ToSet(thumbs) \/ ToSet(reading) \cap Broken # {}
=============================================================================
