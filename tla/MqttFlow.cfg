CONSTANTS
    lamp = lamp
    on = on
    onBytes = onBytes
    Empty = Empty
    None = None
    Bases <- MCBases
    Text <- MCText
    Raw <- MCRaw
    Decode <- MCDecode
    PublishOn <- MCPublishOn
    HearOn <- MCHearOn
    Payloads <- MCPayloads
    Ttl = 1
    MaxPublish = 2
    MaxTime = 1
    MaxMessages = 2
SPECIFICATION FlowSpec
INVARIANTS FlowTypeOK NeverOlderParent TaggedIsExact
PROPERTIES UntaggedIsTraced
