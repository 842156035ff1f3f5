SPECIFICATION Spec
CONSTANTS
    Topics <- MCTopics
    Sources <- MCSources
    Registers <- MCRegisters
    Replies <- MCReplies
    BannedLists <- MCBannedLists
    LocaleChoices <- MCLocaleChoices
    MaxAttempts = 2
    None = None
    Words <- MCWords
    Letters <- MCLetters
    Alike <- MCAlike
    Opposite <- MCOpposite
    Reworded <- MCReworded
    DefaultPhrases <- MCDefaultPhrases
    Cyrillic <- MCCyrillic
    Latin <- MCLatin
    Foreign = {"zhong"}
    FactLimit = 2
    NumberLimit = 1
    TitleMin = 8
    BodyMin = 6
INVARIANTS KeptOrBlocked Grounded RepetitionPasses ShownWhole
CHECK_DEADLOCK FALSE
