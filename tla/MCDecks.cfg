CONSTANTS
    s1 = s1
    s2 = s2
    p1 = p1
    p2 = p2
    w1 = w1
    None = None
    Hw = Hw
    Sessions <- MCSessions
    Plugins <- MCPlugins
    Wishes <- MCWishes
    InboxLimit = 3
SPECIFICATION FairSpec
INVARIANTS
    OneDeck
    LiveDeckAttached
    SlotsAreServed
PROPERTIES
    DecksCatchUp
    DeckReturns
    WishesAreApplied
