SPECIFICATION Spec
CONSTANTS
    s1 = s1
    s2 = s2
    Servers = {s1, s2}
    NoServer = NoServer
    BadServer = BadServer
    Hosts = {"loopback", "any"}
    Keys = {k1, k2}
    NoKey = NoKey
    Entries <- MCEntries
SYMMETRY KeysAreAlike
INVARIANT QuestionsAreAboutEdits
PROPERTIES
    SavedAsAgreed
    ToggledInOnePlace
    EditsAreNotLost
