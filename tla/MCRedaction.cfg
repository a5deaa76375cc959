SPECIFICATION Spec
CONSTANTS
    Fields <- MCFields
    Content = {"content"}
    KeyNode = "id"
    Policies <- MCPolicies
    Configured <- MCConfigured
    Samples <- MCSamples
    Words <- MCWords
    Special <- MCSpecial
    Reach = 3
INVARIANTS
    FullyRedacted
    PreviewIsTrue
    KeysMeet
CHECK_DEADLOCK FALSE
