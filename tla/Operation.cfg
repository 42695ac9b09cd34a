SPECIFICATION MCSpec
CONSTANTS
    Exts <- MCExts
    Hooks <- MCHooks
    Tracers = {"apollo"}
    Lookers = {"debug"}
    MaxExts = 3
    Selected = {"a", "b"}
    MaxEvents = 2
    Keys = {"0", "1"}
    Paths = {"a", "b", "c"}
    Maps <- MCMaps
    Length = 2
    Fragments <- MCFragments
    Selections <- MCSelections
    Depth <- MCDepth
    Operations <- MCOperations
    Root = {"User", "Node"}
    Results <- MCResults
    MaxInt = 7
    PossibleTypes <- MCPossibleTypes
    Custom <- MCCustom
    SelectionSets <- MCSelectionSets
    Nesting <- MCNesting
INVARIANTS TypesOK ResponsesNest EachInItsResponse EventsInOrder NothingLeft FilesAreWhole FieldsAsSpecified CostsGrow
PROPERTIES Ends
CHECK_DEADLOCK FALSE
