--------------------------- MODULE ThumbnailImage ---------------------------
(***************************************************************************)
(* One thumbnail: what img.onload in createThumbnail computes before it    *)
(* draws.  options.resize chooses the part of the picture to show and the  *)
(* size to show it in; detectVerticalSquash then looks for the last opaque *)
(* row of the first column, because iOS draws large pictures squashed into *)
(* their upper rows, and drawImageIOSFix stretches the drawing by as much. *)
(*                                                                         *)
(* Quotients are fractions <<numerator, denominator>>, compared crosswise: *)
(* the rounding of floating-point numbers is left out.  The specification  *)
(* has names of its own, so that it can be extended beside ThumbnailQueue.  *)
(***************************************************************************)
EXTENDS Integers

CONSTANTS
    Sizes,       \* widths and heights of pictures, in pixels
    BoxWidths,   \* values of options.thumbnailWidth; 0 stands for null
    BoxHeights   \* values of options.thumbnailHeight; 0 stands for null

ASSUME SizesAssumption == Sizes \subseteq Nat \ {0}
ASSUME BoxAssumption == BoxWidths \subseteq Nat /\ BoxHeights \subseteq Nat

VARIABLES
    width, height,        \* file.width, file.height
    boxWidth, boxHeight,  \* options.thumbnailWidth, options.thumbnailHeight
    opaque,               \* rows (1 .. height) whose first pixel has alpha # 0
    info,                 \* the result of options.resize
    sy, ey, py,           \* the variables of detectVerticalSquash
    pc                    \* "loaded", "probing" or "drawn"

inputs == <<width, height, boxWidth, boxHeight, opaque>>
drawVars == <<inputs, info, sy, ey, py, pc>>

-----------------------------------------------------------------------------
(* Positive fractions *)
Less(p, q) == p[1] * q[2] < q[1] * p[2]
Equal(p, q) == p[1] * q[2] = q[1] * p[2]

\* The box: a missing side follows from the ratio w : h of the picture.
Box(w, h, bw, bh) ==
    IF bw = 0 /\ bh = 0 THEN [w |-> <<w, 1>>, h |-> <<h, 1>>]
    ELSE IF bw = 0 THEN [w |-> <<w * bh, h>>, h |-> <<bh, 1>>]
    ELSE IF bh = 0 THEN [w |-> <<bw, 1>>, h |-> <<h * bw, w>>]
    ELSE [w |-> <<bw, 1>>, h |-> <<bh, 1>>]

\* The ratio of the box, width to height.
Ratio(box) == <<box.w[1] * box.h[2], box.w[2] * box.h[1]>>

\* Mutant of Crop: the comparison of the ratios the other way round.
CropSwapped(w, h, ratio) ==
    IF Less(<<w, h>>, ratio)
    THEN [w |-> <<h * ratio[1], ratio[2]>>, h |-> <<h, 1>>]
    ELSE [w |-> <<w, 1>>, h |-> <<w * ratio[2], ratio[1]>>]

\* The part of a picture at least as large as the box that is shown.
Crop(w, h, ratio) ==
    IF Less(ratio, <<w, h>>)
    THEN [w |-> <<h * ratio[1], ratio[2]>>, h |-> <<h, 1>>]
    ELSE [w |-> <<w, 1>>, h |-> <<w * ratio[2], ratio[1]>>]

\* Mutant of Resize: a picture is enlarged when only one side is short.
ResizeBoth(w, h, bw, bh) ==
    LET box == Box(w, h, bw, bh)
        small == Less(<<h, 1>>, box.h) /\ Less(<<w, 1>>, box.w)
    IN  [src |-> IF small THEN [w |-> <<w, 1>>, h |-> <<h, 1>>] ELSE Crop(w, h, Ratio(box)),
         trg |-> IF small THEN [w |-> <<w, 1>>, h |-> <<h, 1>>] ELSE box]

\* options.resize, with the target that createThumbnail fills in.  The source
\* is centred: srcX and srcY are half of what it leaves.
Resize(w, h, bw, bh) ==
    LET box == Box(w, h, bw, bh)
        small == Less(<<h, 1>>, box.h) \/ Less(<<w, 1>>, box.w)
    IN  [src |-> IF small THEN [w |-> <<w, 1>>, h |-> <<h, 1>>] ELSE Crop(w, h, Ratio(box)),
         trg |-> IF small THEN [w |-> <<w, 1>>, h |-> <<h, 1>>] ELSE box]

-----------------------------------------------------------------------------
DrawTypeOK ==
    /\ width \in Nat \ {0} /\ height \in Nat \ {0}
    /\ boxWidth \in Nat /\ boxHeight \in Nat
    /\ opaque \subseteq 1 .. height
    /\ sy \in 0 .. height /\ ey \in 0 .. height /\ py \in 0 .. height
    /\ pc \in {"loaded", "probing", "drawn"}

DrawInit ==
    /\ width \in Sizes /\ height \in Sizes
    /\ boxWidth \in BoxWidths /\ boxHeight \in BoxHeights
    /\ opaque \in SUBSET (1 .. height)
    /\ info = <<>>
    /\ sy = 0 /\ ey = 0 /\ py = 0
    /\ pc = "loaded"

\* img.onload up to the loop of detectVerticalSquash.
Loaded ==
    /\ pc = "loaded"
    /\ info' = Resize(width, height, boxWidth, boxHeight)
    /\ sy' = 0 /\ ey' = height /\ py' = height
    /\ pc' = "probing"
    /\ UNCHANGED inputs

\* Mutant of Probe: the next probe is rounded up.
ProbeRoundedUp ==
    /\ pc = "probing" /\ py > sy
    /\ IF py \in opaque THEN sy' = py /\ UNCHANGED ey ELSE ey' = py /\ UNCHANGED sy
    /\ py' = (ey' + sy' + 1) \div 2
    /\ UNCHANGED <<inputs, info, pc>>

\* Mutant of Probe: the alpha value of the row below.
ProbeRowBelow ==
    /\ pc = "probing" /\ py > sy
    /\ IF py + 1 \in opaque THEN sy' = py /\ UNCHANGED ey ELSE ey' = py /\ UNCHANGED sy
    /\ py' = (ey' + sy') \div 2
    /\ UNCHANGED <<inputs, info, pc>>

\* Mutant of Probe: the bounds are added before they are halved, and doubled.
ProbeUnhalved ==
    /\ pc = "probing" /\ py > sy
    /\ IF py \in opaque THEN sy' = py /\ UNCHANGED ey ELSE ey' = py /\ UNCHANGED sy
    /\ py' = ey' + sy'
    /\ UNCHANGED <<inputs, info, pc>>

\* A pass of the loop: the row of the probe is opaque or not.
Probe ==
    /\ pc = "probing" /\ py > sy
    /\ IF py \in opaque THEN sy' = py /\ UNCHANGED ey ELSE ey' = py /\ UNCHANGED sy
    /\ py' = (ey' + sy') \div 2
    /\ UNCHANGED <<inputs, info, pc>>

\* The loop ends; drawImageIOSFix draws.
Draw ==
    /\ pc = "probing" /\ py <= sy
    /\ pc' = "drawn"
    /\ UNCHANGED <<inputs, info, sy, ey, py>>

\* Mutant of SquashRatio: no guard against zero.
SquashRatioUnguarded == <<py, height>>

\* The ratio that detectVerticalSquash returns.
SquashRatio == IF py = 0 THEN <<1, 1>> ELSE <<py, height>>

DrawNext == Loaded \/ Probe \/ Draw

DrawSpec == DrawInit /\ [][DrawNext]_drawVars

-----------------------------------------------------------------------------
\* The part that is shown lies inside the picture, touches two opposite sides
\* of it and, unless the picture is shown as it is, has the shape of the box
\* (options.resize): no larger part of that shape exists.
LargestPart ==
    info # <<>> =>
        LET src == info.src  trg == info.trg
        IN  /\ ~Less(<<width, 1>>, src.w) /\ ~Less(<<height, 1>>, src.h)
            /\ Equal(src.w, <<width, 1>>) \/ Equal(src.h, <<height, 1>>)
            /\ Equal(Ratio(src), Ratio(trg))

\* No picture is enlarged, however small one of its sides is (options.resize).
NeverEnlarged ==
    info # <<>> =>
        ~Less(info.src.w, info.trg.w) /\ ~Less(info.src.h, info.trg.h)

\* What the probes have found (detectVerticalSquash): the row at sy is opaque or
\* the upper edge, and the row at ey transparent or, when no probe was
\* transparent, the lower edge.
Bracket ==
    pc # "loaded" =>
        /\ sy <= py /\ py <= ey
        /\ sy = 0 \/ sy \in opaque
        /\ IF py = ey THEN ey = height /\ sy \in {0, ey} ELSE ey \notin opaque /\ py = (ey + sy) \div 2

\* The search ends at the foot of the drawing: an opaque row above a
\* transparent one (detectVerticalSquash).
FootFound ==
    pc = "drawn" =>
        /\ py = 0 \/ py \in opaque
        /\ py = height \/ py + 1 \notin opaque

\* When the opaque rows are the upper ones, as iOS leaves them, the search
\* finds how many they are, whatever the height (detectVerticalSquash).
SquashFound ==
    pc = "drawn" => \A k \in 0 .. height : opaque = 1 .. k => py = k

\* The drawing is stretched, never shrunk, and no more than height times
\* (drawImageIOSFix divides by the ratio).
StretchBounded ==
    pc = "drawn" => ~Less(<<1, 1>>, SquashRatio) /\ ~Less(SquashRatio, <<1, height>>)

\* What is shown of a picture is as large as it may be, and no larger than life.
ResizeInv == LargestPart /\ NeverEnlarged

\* The search is sound: typed, bracketed, at the foot of the drawing when it ends,
\* and exact for a squashed one.
DrawInv == DrawTypeOK /\ Bracket /\ FootFound /\ SquashFound /\ StretchBounded

\* Every probe but the first leaves a smaller bracket: the loop cannot go round
\* for ever on any picture (detectVerticalSquash).
Narrows == [][Probe /\ ~(py = height /\ ey = height /\ sy = 0) => ey' - sy' < ey - sy]_drawVars
=============================================================================
