\* Messages of every layout, whole, cut and altered, short bodies of any bytes, and
\* signed responses.
CONSTANTS
  Inputs <- AllInputs
  MaxJumps = 2
  Made <- Signatures
  MaxTime = 3
SPECIFICATION ReceivedSpec
INVARIANTS TypeOK OnlySlicesPanic NamesMeanWhatTheySay RoundTrip UpToTheBreak
INVARIANTS SecureIsSigned GoodSignatureFound
PROPERTIES WorkShrinks NoNameRefused Terminates
