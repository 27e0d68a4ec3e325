CONSTANTS
    N = 3
SPECIFICATION FairSpec
INVARIANTS TypeOK ReleaseNotMissed
PROPERTIES AnswerIsOnePacket AnswerIsFresh CallsReturn
