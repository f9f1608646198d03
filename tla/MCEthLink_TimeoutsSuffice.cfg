SPECIFICATION EthFairSpec
CONSTANTS
    TimeoutPool = 5
    OwnTimeouts = 2
    MaxFlaps = 6
INVARIANT TimeoutsSuffice
