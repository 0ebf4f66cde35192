SPECIFICATION RequestSpec
CONSTANTS
    Tags <- MCTags
    MaxParts = 3
    ErrorCodes = {"invalid", "required"}
    Fields = {"email", "password"}
    Times <- MCTimes
    Randoms <- MCRandoms
INVARIANTS SuggestionAccepted FirstMatchIsBest ErrorsLocated LaterSortsLater
CHECK_DEADLOCK FALSE
