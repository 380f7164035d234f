CONSTANTS
    EvtLoop = EvtLoop
    Listener = Listener
    MsgLoop = MsgLoop
    EvtLoopThread = EvtLoop
    Threads <- MCThreads
    Issues <- MCIssues
    MaxRequests <- MCMaxRequests
SPECIFICATION Spec
INVARIANTS TypeOK PopsMatchRequest PopNeverBlocks Drained NewestReportServed
PROPERTIES ImplementsRequestChannel
