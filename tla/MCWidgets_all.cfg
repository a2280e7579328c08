\* Each widget in turn.
SPECIFICATION WidgetFairSpec
CONSTANTS
    Targets <- MCTargets
    Tips <- MCTips
    Containers <- MCContainers
    Viewports <- MCViewports
    AutoPlaces <- MCAutoPlaces
    NItems = 3
    MaxInputs = 5
    MaxSlids = 2
    NPanels = 3
    Open <- MCOpen
    MaxClicks = 5
    Fades = TRUE
    ShowDelay = TRUE
    HideDelay = TRUE
    MaxEvents = 6
INVARIANTS
    PlacedInv CarouselInv AccordionInv TooltipInv
PROPERTIES
    CallsAreWoken TransitionsEnd ComesAndGoes
CHECK_DEADLOCK FALSE
