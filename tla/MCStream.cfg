SPECIFICATION FairSession
CONSTANTS
    Screen <- mcScreen
    NoScreen = NoScreen
    Depth = 1
    MaxOutputs = 2
    Life = 2
    WriteLimit = 1
    Inbox = 1
    AnswerDelay = 1
INVARIANTS RevocationIsPrompt QuietEndsAreDeserved SupportedScreensFit EndedRoomsGoDarkInTime
PROPERTIES TheTrialEnds
