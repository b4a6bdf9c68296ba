SPECIFICATION Spec
CONSTANTS
    Session = {s1}
    NoSession = NoSession
    PolicyScopes = 1
    RequiredScopes = 5
    TicksPerSecond = 2
    GrantLife = 2
    LeaseCap = 1
    Patience = 2
    AnswerDelay = 0
PROPERTY GenuineGrantIsTaken
