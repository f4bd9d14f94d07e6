SPECIFICATION Spec
CONSTANTS
    Strings <- AllStrings
    Trimmed <- MCTrimmed
    BaseName <- MCBaseName
    Numeral <- MCNumeral
    Itoa <- MCItoa
    Typed <- MCTyped
    Faults <- AllFaults
    Names = {"a"}
    MaxItems = 2
    None = None
INVARIANTS TypeOK SwitchKeepsSecret
PROPERTIES EditsOwnItem ResaveKeeps SavedIsShown SavedIsComplete
