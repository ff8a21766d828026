SPECIFICATION Spec
CONSTANTS
  a = a b = b ann = ann bob = bob
  MaxSize = 2 MaxIce = 1 BufferLow = 0
  Tabs = {a, b} Users = {ann, bob} Timely = TRUE MaxFresh = 5 MaxActs = 6
  MaxConns = 2 reconnectMaxAttempts = 2
  MaxStreams = 3 MaxMedia = 2 MaxOps = 3 MaxConnections = 2
  MaxPushes = 3
  Members = {ann} MaxOffers = 2 Kinds = {"audio", "video"} IceChanges = {"connected", "disconnected"}
  MaxFailures = 7
  MaxTracks = 1 MaxRestarts = 1 MaxTries = 1 MaxWaiting = 2
  MaxWorkers = 3
  W = 32 Far = 4 MaxEntries = 3 Starts = {29} Skips = {0, 6} Recent = 3 MaxPackets = 7 MaxDrops = 3
INVARIANTS
  TypeOK Files_Safe Session_NoStray Camera_Accounted Rates_Follow
  Participants_Consistent Streams_Negotiated Packets_Sent
PROPERTIES
  Files_Ends  Session_Settles Camera_OvertakenIsSilent
  Streams_Recover
CHECK_DEADLOCK FALSE
