SPECIFICATION FairSpec
CONSTANTS
    Instances = {i1, i2}
    Others = {tool}
    NoInstance = NoInstance
    MessageSizeMax = 2
INVARIANT IsReachable
PROPERTIES
    QuitsOnRequest
    MessageIsObeyed
    ConnectionsEnd
