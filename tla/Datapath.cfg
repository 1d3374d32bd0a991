\* Words of three bits, bytes of two; every pair of operands of every routine;
\* numbers of digits of two bits and of four; key pairs of eleven and twelve
\* bits; agreements of seven.
SPECIFICATION ArithmeticSpec
CONSTANTS
    Parts = {"datapath", "numbers", "wide", "keys", "agreement"}
    Width = 3
    Top = 4
    ByteSize = 4
    Stored <- Patterns
    NotFound = NotFound
    NoKeys = NoKeys
    Refused = Refused
    NoParams = NoParams
    NoValue = NoValue
INVARIANTS ArithmeticExact ProductsAndBytes NumbersExact KeysWork
CHECK_DEADLOCK FALSE
