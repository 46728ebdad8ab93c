\* Up to two session objects of one prompt each.
CONSTANTS
    Lower <- MCLower
    Typed <- MCTyped
    Alphabet <- MCAlphabet
    HasPrefix <- MCHasPrefix
    Dirs <- MCDirs
    MaxSessions = 2
    MaxHistory = 1
    NoID = NoID
SPECIFICATION ComposerSpec
INVARIANTS
    CommandsResolve
    OneConversation
    SelectionsFit
