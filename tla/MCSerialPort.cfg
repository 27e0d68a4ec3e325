CONSTANTS
    Bytes = {0, 1}
SPECIFICATION FairSpec
INVARIANTS TypeOK PollsAreCurrent
PROPERTIES IsOneByteBuffer LossFlagged WrittenIsSent ReceiverRecovers
