SPECIFICATION FairSpec
CONSTANTS
    p1 = p1
    p2 = p2
    t1 = t1
    o1 = o1
    phone = phone
    tablet = tablet
    other = other
    roomA = roomA
    roomB = roomB
    uuidP = uuidP
    uuidT = uuidT
    uuidO = uuidO
    NoConn = NoConn
    Conns = {p1, p2, t1}
    Devices = {phone, tablet}
    Rooms = {roomA}
    DeviceOf <- ThreeDeviceOf
    RoomOf <- ThreeRoomOf
    SenderIdOf <- ThreeLocalId
    Authenticated = TRUE
    SendCap = 2
    MaxFrames = 1
    Reloaded = {0}
    FramesOf <- TabletOnce
    Breakable = {p1, p2}
PROPERTY
    DeviceReachable
