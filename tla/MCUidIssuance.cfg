\* Sessions of a person and of a listed entity, one run of the script, webhooks in
\* every order and again, and a type that may be withdrawn.
CONSTANTS
    person = person
    entity = entity
    None = None
    Account = {person, entity}
    UidType = {0, 2, 4}
    Inquiry = {i1}
    ReferenceId <- AboutPerson
    Country = {"NG"}
    Residency = {"non-us"}
    ListedType <- EntityListed
    Session = {s1, s2}
    Script = {p1}
    Requests <- AllAsk
    supportedUIDTypes = {0, 4}
    Statements <- PersonStates
    SignatureExpiry = 1
    SignInMaxAge = 0
    MaxTime = 1
SPECIFICATION FairSpec
CHECK_DEADLOCK FALSE
PROPERTIES
    ApprovalReachesStore
INVARIANTS
    TypeOK
    UidsRestOnApproval
    SignedSinceBurned
    OneRecipientPerType
