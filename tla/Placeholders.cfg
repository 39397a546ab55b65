CONSTANTS
    Texts <- MCTexts
    Names <- MCNames
SPECIFICATION Spec
INVARIANTS
    TypeOK
    RewritesPlaceholders
