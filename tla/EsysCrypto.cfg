\* Both backends, every algorithm, and parameters at the boundaries of the digest sizes.
SPECIFICATION Spec
CONSTANTS
  Backends = {"ossl", "gcrypt"}
  KeyBits = {128, 192, 256}
  DataSizes = {0, 1, 20, 21, 65}
INVARIANTS TypeOK ContextValid ContextsReleased RoomKept DerivedIsRead MaskedOnce
