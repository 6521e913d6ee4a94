SPECIFICATION Spec
CONSTANTS
    KeepAlive = 3
    SocketTimeout = 3
    Wrap = 14
    AnswerTime = 1
    RestTime = 2
    InboxSize = 2
    Topics = {"lock", "unlock"}
INVARIANTS
    TypeOK
    DeadLinkIsNoticed
    BrokerHearsInTime
    ListensIfConnected
    ReportIsTrue
PROPERTY NoFalseTimeout
