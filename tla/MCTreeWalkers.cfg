\* Every pair of trees with nine characters together, which share nodes, and
\* walks in both directions through one of them.
CONSTANTS
    Pieces <- TwoPieces
    m_root = m_root
    changed = changed
    Names <- MCNames
    Place = m_root
    MaxLength = 9
SPECIFICATION WalkSpec
VIEW Shape
INVARIANTS
    WalkTypeOK
    ReferencesCounted
    Balanced
    DescentsExact
    WalkersMatchDescents
PROPERTIES
    ImplementsValues
