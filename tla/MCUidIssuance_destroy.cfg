\* Three runs of the script about one person, whose webhooks come again.
CONSTANTS
    person = person
    entity = entity
    None = None
    Account = {person, entity}
    UidType = {0, 2}
    supportedUIDTypes = {0, 2}
    Inquiry = {i1}
    ReferenceId <- AboutPerson
    Country = {"NG"}
    Residency = {"us"}
    Statements = {}
    ListedType <- NoneListed
    Session = {}
    Script = {p1, p2, p3}
    Requests <- PersonAsks
    SignatureExpiry = 1
    SignInMaxAge = 1
    MaxTime = 0
SPECIFICATION Spec
CHECK_DEADLOCK FALSE
PROPERTIES
    DeletionsKept
