SPECIFICATION Spec
CONSTANTS
    LowerOf <- MCLowerOf
    RoleChoices <- MCRoles
    Selectors <- MCSelectors
INVARIANTS
    TypeOK
    IndexAgreesWithMatcher
    StricterFindsLess
    AllMeansOneRule
    RefsAreGranted
    ListedURLsAreFound
CHECK_DEADLOCK FALSE
