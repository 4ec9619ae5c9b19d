SPECIFICATION Spec
CONSTANTS
    Nodes <- ThreeNodes
    Subgraphs <- ThreeSubgraphs
    None <- NoId
    Produced <- Compiled
    MaxCommands = 2
    MaxEdges = 4
INVARIANTS
    DocumentIsConsistent
    UnionAccountsForEveryEdge
    UnionIsADocument
PROPERTIES
    HydrationIsKept
    EventsNameTheirEdge
    StylesFollowTheirEdges
    DiffTellsTheCommand
CHECK_DEADLOCK FALSE
