SPECIFICATION Spec
CONSTANTS
    Clients = {a, b}
    Settings <- MCSettings
    Issuers = {"iss", "IdP", "Bot", "other"}
    Reserved = {"Bot"}
    Identities <- MCIdentitySet
    Headers <- MCHeaders
    Dates = {0, 4}
    ContactIds = {"c1", "c2"}
    Width = 4
    Second = 6
    Millisecond = 2
SYMMETRY Symmetry
INVARIANTS
    VouchedOnly
    SignsInTheVouched
    SessionResolves
    AccountsApart
    AnswersAreTrue
