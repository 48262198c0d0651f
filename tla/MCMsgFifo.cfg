CONSTANTS
  a = a  b = b  udp = udp  tcp = tcp  NoOne = NoOne  NoMsg = NoMsg
  N = 4
  Msg <- MCMsg
  Producers <- MCProducers
SPECIFICATION Spec
INVARIANT CursorsInOrder
PROPERTIES LiveSlotsStable ImplementsQueue CallsReturn
