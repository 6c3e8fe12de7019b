CONSTANTS
    Known = {mock, groq, openai}
    NeedsKey = {groq, openai}
    Unknown = {nobody}
    NoProvider = NoProvider
    Models = {m1, m2}
    MaxKeys = 2
    ShellKeys = {1}
    HostSends = TRUE

SYMMETRY KeyedProviders

SPECIFICATION Spec

INVARIANTS
    KeysGoToTheirProvider

PROPERTIES
    RestartKeepsChoice
    SavedKeysStay
