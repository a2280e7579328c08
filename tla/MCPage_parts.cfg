\* Each part of the page's scripts in turn.
SPECIFICATION PageFairSpec
CONSTANTS
    i1 = i1
    i2 = i2
    vector = vector
    faulty = faulty
    b1 = b1
    b2 = b2
    b3 = b3
    d1 = d1
    d2 = d2
    d3 = d3
    d4 = d4
    d5 = d5
    d6 = d6
    None = None
    Boxes <- MCAreas
    Browsers <- MCBrowsers
    Backdrops <- MCBackdrops
    BackdropTicks = 1
    ModalTicks = 2
    Images <- MCImages
    Svg <- MCSvg
    Broken <- MCBroken
    Sizes <- MCSizes
    BoxWidths <- MCBoxes
    BoxHeights <- MCBoxes
INVARIANTS
    QueueInv ResizeInv DrawInv StartInv DialogInv
PROPERTIES
    ThumbnailOrBlocked EventuallyOutfitted ImplementsDialog
CHECK_DEADLOCK FALSE
