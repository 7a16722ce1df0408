CONSTANTS
  Base = 3
  VersionBytes = 3
  HashBytes = 2

SPECIFICATION Spec
INVARIANT CodecRoundTrip
