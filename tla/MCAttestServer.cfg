SPECIFICATION AttestSpec
CONSTANTS
    a1 = a1
    a2 = a2
    s1 = s1
    Callers = {s1}
    Apps = {a1}
    Releases <- MCReleases
    Policies <- MCPolicies
    Requests <- MCRequests
    NoRequest = NoRequest
    NoToken = NoToken
    Base64 <- MCBase64
    CommandLines <- MCCommandLines
    SecretValues <- MCSecretValues
    RSAKeys = {"key1", "key2"}
    DebugModes = {TRUE, FALSE}
    MaxLag = 1
    MaxBlocks = 3
    MaxPerBlock = 1
INVARIANTS
    AttestTypeOK
    TokenSaysWhatWasAttested
    SignedByConfiguredKey
    AdmittedByPolicy
    EvidenceServesOnePurpose
    AttestRefusalIsJustified
