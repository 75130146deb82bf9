SPECIFICATION FsmSpec
INVARIANTS
  TypeOK
  HandshakeHonest
  DelaysServed
  Settled
  FlagsMatchHistory
PROPERTIES
  StartedByPermission
  FollowsDiagram
