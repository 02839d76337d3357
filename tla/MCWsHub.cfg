\* Two connections, two posts in two rooms, a buffer and a channel of one.
CONSTANTS
  k1 = k1
  k2 = k2
  r1 = r1
  r2 = r2
  p1 = p1
  p2 = p2
  AllRooms = AllRooms
  None = None
  Conns = {k1, k2}
  Rooms = {r1, r2}
  Posts = {p1, p2}
  RoomOf <- TwoRooms
  Asked <- TwoAsked
  BufferSize = 1
  ChannelSize = 1
SPECIFICATION Spec
CHECK_DEADLOCK FALSE
INVARIANTS TypeOK NoGapOnJoin
PROPERTIES PostsServed GoneClientsLeave
