SPECIFICATION Spec
CONSTANTS
    Names <- TheNames
    PeName <- ThePeNames
    GeName <- TheGeNames
    CharRef <- TheCharRefs
    MaxContentDepth = 3
    Scenes <- TheScenes
    MaxDiscards = 1
INVARIANTS
    LayoutTracksText
    RestartsAgree
PROPERTIES
    ReadingEnds
CHECK_DEADLOCK FALSE
