SPECIFICATION Spec
CONSTANTS
    Logins = {"ada", "bea"}
    Postcodes = {1, 2}
    MAX_ZIPCODE = 2
    MaxUsers = 3
    RegisterMayFail = TRUE
INVARIANTS TypeOK LookupExact NeverServesTorn
PROPERTIES ImplementsStorage
