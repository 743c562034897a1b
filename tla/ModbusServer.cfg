SPECIFICATION FairSpec
CONSTANTS
    c1 = c1
    c2 = c2
    Conns <- MCConns
    Transport <- MCTransport
    MaxFrames <- MCMaxFrames
    Sends <- MCSends
    Window = 1
INVARIANT TickSeesOneBank
PROPERTIES AnswersInOrder EveryRequestAnswered
