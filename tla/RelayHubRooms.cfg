SPECIFICATION FairSpec
CONSTANTS
    p1 = p1
    p2 = p2
    t1 = t1
    o1 = o1
    phone = phone
    tablet = tablet
    other = other
    roomA = roomA
    roomB = roomB
    uuidP = uuidP
    uuidT = uuidT
    uuidO = uuidO
    NoConn = NoConn
    Conns = {p1, p2, o1}
    Devices = {phone, other}
    Rooms = {roomA, roomB}
    DeviceOf <- RoomsDeviceOf
    RoomOf <- RoomsRoomOf
    SenderIdOf <- RoomsLocalId
    Authenticated = TRUE
    SendCap = 1
    MaxFrames = 1
    Reloaded = {0}
    FramesOf <- FirstAndOther
    Breakable = {p1, p2}
INVARIANT
    RoomIsolation
PROPERTIES
    BroadcastCompletes
    ConnectionEnds
