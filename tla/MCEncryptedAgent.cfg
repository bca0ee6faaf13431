SPECIFICATION Spec
CONSTANTS
    k1 = k1
    k2 = k2
    Keys <- MCKeys
    OtherPosts <- MCOtherPosts
    None = None
    ServerSources <- MCServerSources
    AgentSources <- MCAgentSources
INVARIANTS
    EncryptedAgentAccepted
