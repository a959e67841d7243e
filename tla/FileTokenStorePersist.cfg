SPECIFICATION Spec
CONSTANTS
    old = old
    new = new
    s1 = s1
    s2 = s2
    l1 = l1
    Nothing = Nothing
    Tokens <- MCTokens
    Savers <- MCSavers
    Loaders <- MCLoaders
    MaxFaults = 2
PROPERTIES
    SavedIsPersisted
