SPECIFICATION Spec
CONSTANTS
    Handlers = {h1}
    Canonical <- Numbers
    Render <- RenderTree
    Parse <- ParseText
    Texts <- AllTexts
    Paths <- AllPaths
    Sets <- AllSets
    Dels <- AllDels
    Clones <- AllClones
    Files <- AllFiles
    PeerDocs = {}
    MaxWrites = 2
    MaxVacuums = 1
    MaxCrashes = 0
CHECK_DEADLOCK FALSE
INVARIANTS
    AlwaysRebuilds
