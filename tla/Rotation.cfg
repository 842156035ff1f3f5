SPECIFICATION Spec
CONSTANTS
    a1 = a1  a2 = a2
    Articles = {a1, a2}
    Slots = {"openai", "anthropic"}
    Position <- TwoPosition
    Keyed = {"openai", "anthropic"}
    Editor = "anthropic"
    Excluded = {a2}
    Choices = {{"openai"}, {"openai", "anthropic"}}
    Recorded <- AllButOne
    MaxAttempts = 2
    Nothing = "nothing"
INVARIANTS
    TypeOK
    EvenLoad
    SameAuthor
    SpendBounded
PROPERTIES
    ExhaustedAfterAll
