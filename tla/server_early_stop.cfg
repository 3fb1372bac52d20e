SPECIFICATION ServerSpec
CONSTANTS
  Conn = {c1, c2}
  MaxConnection = 1
  Secure = TRUE
  Plain = {c2}
  MaxTwice = 1
  Retriever = TRUE
  PanicRecoveryDisabled = FALSE
  ReadOnly = TRUE
  CertificateCheckMode = "TLSStateThenHeader"
  DeciderFunc <- PlainDecider
INVARIANT StopNeverCrashes
