SPECIFICATION FairSpec
CONSTANTS
    c1 = c1
    c2 = c2
    e1 = e1
    NoAccount = NoAccount
    NoHash = NoHash
    NoOne = NoOne
    NoToken = NoToken
    NoPassword = NoPassword
    NoNeed = NoNeed
    Clients <- TwoClients
    Emails <- OneEmail
    Raw <- MCRaw
    Forms <- MCForms
    FormOf <- MCFormOf
    Size <- MCSize
    PrefixOf <- MCPrefixOf
    MinimumLength = 2
    MaximumBytes = 3
    Lifetime = 1
    Routes <- ReadAndWrite
    Members <- OneClient
    Assignable <- Demotion
    MaxClock = 1
INVARIANTS
    SignInIsEarned
    EnrolledCanSignIn
    AnswersAreCurrent
    CreatedOwnsTheAccount
PROPERTY EveryRequestIsAnswered
