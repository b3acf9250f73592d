\* The OpenSSL backend: what a finished HMAC leaves.
SPECIFICATION Spec
CONSTANTS
  Backends = {"ossl"}
  KeyBits = {128}
  DataSizes = {20}
INVARIANT HmacReleased
