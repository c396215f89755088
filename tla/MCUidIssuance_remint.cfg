\* Two sessions of one person and one run of the script.
CONSTANTS
    person = person
    entity = entity
    None = None
    Account = {person, entity}
    UidType = {0, 2}
    supportedUIDTypes = {0, 2}
    Inquiry = {i1}
    ReferenceId <- AboutPerson
    Country = {"NG"}
    Residency = {"us"}
    Statements = {}
    ListedType <- NoneListed
    Session = {s1, s2}
    Script = {p1}
    Requests <- PersonAsks
    SignatureExpiry = 1
    SignInMaxAge = 1
    MaxTime = 0
SPECIFICATION Spec
CHECK_DEADLOCK FALSE
INVARIANTS
    NoRemintOnObsoleteState
