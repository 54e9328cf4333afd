SPECIFICATION ESpec
CONSTANTS
    LayoutFiles <- MC_LayoutFiles
    Views <- MC_Views
    PolicyLayout <- MC_PolicyLayout
    Prefix <- MC_Prefix
    Claims <- MC_Claims
    R = 16777259
    WORD = 4
    AMOUNT_SIZE = 8
    CMP_SIZE = 128
    MULTIPLE = 3
INVARIANTS ReadersAgree RevealsNoValue SignedIsTrue EntitledIsSigned
CHECK_DEADLOCK FALSE
