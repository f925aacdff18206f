SPECIFICATION Spec
CONSTANTS
    LowerOf <- MCLowerOf
    RoleChoices <- MCFewRoles
    Selectors <- MCSelectors
INVARIANTS
    AnyMeansAnyField
CHECK_DEADLOCK FALSE
