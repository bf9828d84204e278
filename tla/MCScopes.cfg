SPECIFICATION ScopesSpec
CONSTANTS
    root = root
    a = a
    b = b
    x = x
    fn = fn
    thisproc = thisproc
    none = none
    Path = {root, a, b}
    Root = root
    Name = {x, fn, thisproc}
    ThisProc = thisproc
    NoName = none
    Word <- Words
    Texts <- SomeTexts
    HashOf <- Injective
    MAX_VISITED = 3
    MAX_OPEN = 2
    MAX_FRAMES = 3
INVARIANT SourcesLive
INVARIANT Located
INVARIANT ParsedWhole
INVARIANT Slots
INVARIANT Resolves
PROPERTY Ends
CHECK_DEADLOCK FALSE
