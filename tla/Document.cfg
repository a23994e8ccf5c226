SPECIFICATION Spec
CONSTANTS
    Handlers = {h1, h2}
    Canonical <- Numbers
    Render <- RenderTree
    Parse <- ParseText
    Texts <- AllTexts
    Paths <- AllPaths
    Sets <- AllSets
    Dels <- AllDels
    Clones <- AllClones
    Files <- AllFiles
    PeerDocs <- AllPeerDocs
    MaxWrites = 2
    MaxVacuums = 1
    MaxCrashes = 1
SYMMETRY Symmetry
CHECK_DEADLOCK FALSE
INVARIANTS
    DocTypeOK
    SnapshotFresh
    ReplayRebuilds
    TreeMeetsReference
