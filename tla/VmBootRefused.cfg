SPECIFICATION ModesSpec
CONSTANTS
    Requests = {r1, r2, r3}
    Kernels <- MCKernels
    Policies <- MCPolicies
    k1 = k1
    k2 = k2
    p1 = p1
    DefaultKernel = k1
    None = None
    Garbled = Garbled
    Calls <- MCOneClientCalls
    RacingCalls <- MCRacingCalls
    OneClientCalls <- MCOneClientCalls
    MaxRacing = 3
    Faults = {"guest_stop"}
    MaxInFlight = 1
SYMMETRY RequestSymmetry
INVARIANT BootableAfterVmStops
