SPECIFICATION FairSpec
CONSTANTS
    s1 = s1
    s2 = s2
    c1 = c1
    Absent = Absent
    Garbled = Garbled
    Client = {c1}
    Server = {s1, s2}
    Path <- MCPath
    Provides <- MCProvides
    Methods <- MCMethods
    Unparsable = {}
    Unserializable = {}
    CtorIp <- MCCtorIp
    CtorPort <- MCCtorPort
    port <- MCport
    zookeeperip <- MCCtorIp
    MaxRuns <- MCMaxRuns
    Script <- MCScript
    MaxFaults = 1
INVARIANTS
    TypeOK
    AnswerIsOwnOrError
    ServedMethodsAreFound
PROPERTIES
    ImplementsRpcService
    CallReturns
CHECK_DEADLOCK FALSE
