SPECIFICATION Spec
CONSTANTS
    RequestsPerMinute = 4
    Interval = 3
    TokenLife = 7
    NoToken = NoToken
INVARIANTS
    RateKept
    ExpiryIsInvisible
