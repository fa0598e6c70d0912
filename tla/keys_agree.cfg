SPECIFICATION Spec
CONSTANTS
  Calls = {"negotiate", "renegotiate", "resetKey", "setFixed", "encryptionReset"}
  MaxNumber = 3
  MaxExponent = 2
  MaxDeviceExponent = 2
  MaxFixed = 1
  Faults = {"refuse", "lose", "restart"}
  Polling = TRUE
INVARIANTS KeyOfTheseNumbers
PROPERTIES KeysAgree RenegotiationWorks
