CONSTANTS
    lamp = lamp
    on = on
    onBytes = onBytes
    Empty = Empty
    None = None
    Bases <- MCBases
    Text <- MCText
    Raw <- MCRaw
    Decode <- MCDecode
    Ttl = 2
    MaxPublish = 2
    MaxTime = 2
SPECIFICATION Spec
PROPERTIES PublishKeepsOthers
