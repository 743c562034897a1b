SPECIFICATION Spec
CONSTANTS
    b1 = b1
    b2 = b2
    pv = pv
    load = load
    main = main
    mirror = mirror
    pcs = pcs
    rest = rest
    Batteries = {b1, b2}
    PVs = {pv}
    Loads = {load}
    Outputs <- MCOutputs
    Meters <- MCMeters
    Covers <- MCCovers
    Outflow <- MCOutflow
    TanPhi = 1
    Scale = 3
    Voltage <- MCVoltage
    PTRatio <- MCPTRatio
    Resistance = 10
    Reactance = 1200
    Base = 4
    Response = 3
    MaxDeviation = 500
    Delays = {0, 1, 2}
    MaxTicks = 2
INVARIANTS SubMetersAddUp VoltageReadable
CHECK_DEADLOCK FALSE
