\* Calls overtake each other on their way to the script.
SPECIFICATION LimiterSpec
CONSTANTS
    c1 = c1
    c2 = c2
    c3 = c3
    Calls <- MCCalls
    Minute = 4
    Limits = {1, 2, 3}
    MaxElapsed = 6
    Limit = 3
    MaxDelay = 2
    MaxWindow = 5
SYMMETRY MCSymmetry
INVARIANT NothingCreditedTwice
