CONSTANTS
    Networks = {"home", "branch"}
    Home = "home"
    People = {"ann", "bob", "cat"}
    Founder = "ann"
    Colleague = "bob"
    Accounts = {"mac"}
    MaxSessions = 3
    MaxChallenges = 1
    MaxRequests = 2
    MaxMoves = 4
SPECIFICATION Spec
INVARIANTS TypeOK LockoutFree AuthorityFresh
CHECK_DEADLOCK FALSE
