SPECIFICATION Spec
CHECK_DEADLOCK FALSE
CONSTANTS
    FieldNames = {"id", "token", "page", "size", "sort", "list", "type", "name", "device", "full", "other", "push", "none",
                  "dc", "date", "ip", "device_id", "app_id", "contact_id", "metadata", "revoked_by"}
    Ordered <- McOrdered
    Numbers <- McNumbers
    Texts <- McTexts
    Trees <- McTrees
    Syntaxes <- McSyntaxes
    Object <- McObject
    Fields <- McFields
    Deps <- McDeps
    Filters <- McFilters
INVARIANTS
    ReadIsExact
    ExpansionIsExact
    SelectIsExact
    JoinsFollowLeft
