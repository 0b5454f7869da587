SPECIFICATION Spec
CONSTANTS
    MAX_DATA_SIZE = 240
    Sizes = {60, 79, 80}
    IdDigits = {1, 2}
    Leads = {0, 1, 3}
    Tails <- TailsOfADigit
    Stack = {0}
    MaxUsers = 6
    MaxSearches = 3
CHECK_DEADLOCK FALSE
INVARIANTS TypeOK PagesFollow PrintedInOrder SearchComplete
PROPERTIES SearchReturns
