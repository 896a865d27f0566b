\* Signed responses: is one rejected whose signatures all fail?
CONSTANTS
  Inputs <- SignedInputs
  MaxJumps = 2
  Made <- Signatures
  MaxTime = 3
SPECIFICATION ReceivedSpec
INVARIANTS FailedRejected
