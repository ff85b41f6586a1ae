CONSTANTS
    Messages <- MCMessages
    None = None
    CborInputs <- MCCborInputs
    SumByte <- MCSumByte
    MaxFed = 6
SPECIFICATION MCEncSpec
INVARIANTS
    TypeOK
    RoundTrip
    AcceptsWholeMessages
    CborRoundTrip
    NormalForm
    InetIsRfc1071
    CrcResidue
    DigitsDecode
    Base64RoundTrip
CHECK_DEADLOCK FALSE
