\* Three sessions of one person whose country is corrected on the way.
CONSTANTS
    person = person
    entity = entity
    None = None
    Account = {person, entity}
    UidType = {0, 2}
    supportedUIDTypes = {0, 2}
    Inquiry = {i1}
    ReferenceId <- AboutPerson
    Country = {"NG", "US"}
    Residency = {"us"}
    Statements = {}
    ListedType <- NoneListed
    Session = {s1, s2, s3}
    Script = {}
    Requests <- PersonAsks
    SignatureExpiry = 1
    SignInMaxAge = 1
    MaxTime = 0
SPECIFICATION Spec
CHECK_DEADLOCK FALSE
INVARIANTS
    OneRecipientPerType
