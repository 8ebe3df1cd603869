\* One stream: any framing, at either end this code or other code, with and
\* without fragmentation and timeouts.
SPECIFICATION FairSpec
CONSTANTS
    Requesters = {"client", "legacy", "foreign"}
    Responders = {"client", "foreign"}
    Addresses <- SmallAddresses
    Relayed <- RelayCircuits
    IdLen = 2
    MaxReq = 3
    MaxResp = 4
    MaxShared = 2
INVARIANTS IInv AnswersTarget CleanEndIsWhole
PROPERTIES BothEnd Answered
