SPECIFICATION ModesSpec
CONSTANTS
    Requests = {r1, r2, r3, r4}
    Kernels <- MCKernels
    Policies <- MCPolicies
    k1 = k1
    k2 = k2
    p1 = p1
    DefaultKernel = k1
    None = None
    Garbled = Garbled
    Calls <- MCCalls
    RacingCalls <- MCRacingCalls
    OneClientCalls <- MCOneClientCalls
    MaxRacing = 3
    Faults <- AllFaults
    MaxInFlight = 3
SYMMETRY RequestSymmetry
INVARIANT HonestReplies
INVARIANT RunningHasCause
PROPERTY ImplementsVmService
INVARIANT TrackedForOneClient
