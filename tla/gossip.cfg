SPECIFICATION FairSpec
CONSTANTS
  SessionMax = 1
  SessionTtl = 2
  NoContent <- Garbage
  Clients <- ClientSockets
  Peers <- Nodes
  Me <- Node
  Everyone = "255.255.255.255:1337"
  Ip <- Host
  Signed <- SignedBy
  Envelopes <- Sent
  NoiseModes = {TRUE, FALSE}
  FilterSize = 2
  Permits = 2
  ChannelSize = 1
  FailureThreshold = 2
  Rate = 3
  Burst = 2
  Second = 2
  MaxTime = 3
INVARIANTS
  RateBounded
  NoReplayWithinFilter
  BlamedForCause
PROPERTIES
  ListenerResumes
