\* Two connections to one server whose key may change, and one file of pins.
CONSTANTS
  Conns = {c1, c2}
  Endpoints = {e1}
  Keys = {k1, k2}
  NoKey = NoKey
  NoConn = NoConn
SPECIFICATION Spec
SYMMETRY Symmetry
INVARIANTS
  OneKeyPerEndpoint
  CredentialsToPinnedKey
  RefusedOnce
PROPERTY PinIsKept
