SPECIFICATION Spec
CONSTANTS
    Backends = {"openssl", "mbedtls"}
    Attempts = 2
INVARIANT HostnameCheckIsOptional
CHECK_DEADLOCK FALSE
