SPECIFICATION NetSpec
CONSTANTS
    Width <- MCWidth
    ByteBits = 2
    MapEntries = 2
    Rules <- MCRules
    Dests <- MCDests
    Ports = {0, 80}
    SentinelPorts = {0}
    MaxRules = 2
    Absent = Absent
    Bad = Bad
    Unset = Unset
INVARIANT NetworkDenyAlwaysDenies
