\* Two questions in flight, two servers that may answer or fail, a zone that
\* claims, changes and releases the names asked for.
CONSTANTS
    q1 = q1
    q2 = q2
    s1 = s1
    s2 = s2
    us = us
    Labels <- MCLabels
    Folded <- MCFolded
    LongLabels = {"lll"}
    HyphenLabels = {"x-"}
    OddLabels <- MCOdd
    HstsLabels = {"foo"}
    MaxLabels = 3
    Addresses = {"v4", "v6"}
    Datagrams = {q1}
    Connections = {q2}
    Questions <- MCQuestions
    DomainLists <- MCDomainLists
    V6Addresses = {"v6"}
    Captured <- MCCaptured
    Fallback <- MCFallback
    OurAddresses = {us}
    Ttls = {0, 3}
    MinTtl = 1
    MaxTtl = 2
    NegativeTtl = 1
    MaxEntries = 1
    ColdTime = 1
    ProbedLists <- MCProbedLists
    ProbedNames <- MCProbedNames
    ProbedInputs <- MCProbedInputs
SPECIFICATION FairSpec
INVARIANTS
    ResolverTypeOK
    OursIsNeverForeign
    FreshFromCache
    ServfailIsHonest
    OneLeader
    MostSpecific
    AcceptedIsServed
PROPERTIES
    NoAnswerSurvivesAClaim
    EveryQueryIsAnswered
