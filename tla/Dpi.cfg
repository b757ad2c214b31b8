SPECIFICATION Spec
CONSTANTS
  Detect <- ndpi_detection_process_packet
  GiveUp <- ndpi_detection_giveup
  EnabledProtocols <- init_ndpi_protocols_bitmask
  HostProtocol <- MCHosts
  GuessedByAddress <- MCGuessed
  Networks <- MCNetworks
  RandomNames <- MCRandom
  CacheSlots = 1024
  Talks <- Conversations
  MaxFaults = 3
  MaxFailures = 1
  MaxPackets = 8
INVARIANTS Recognised BothSides CacheExplains
PROPERTIES DetectionLasts
CHECK_DEADLOCK FALSE
