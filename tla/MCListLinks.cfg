SPECIFICATION ListSpec
CONSTANTS
    Nodes = {n1, n2, n3, n4, n5}
    Lists = {l1, l2}
    Null = Null
    MaxTasks = 5
INVARIANTS
    LinksRepresent
    AssertsHold
    ContainsExact
PROPERTY
    ListsAreSequences
