\* Every operation of up to 4 builder calls on documents of up to 3 bytes.
CONSTANTS
    x = x
    lead1 = lead1
    lead2 = lead2
    cont1 = cont1
    cont2 = cont2
    nl = nl
    letter = letter
    wide = wide
    high = high
    low = low
    Newline = nl
    Letter = {letter}
    Wide = {wide}
    High = {high}
    Low = {low}
    Texts <- MCTexts
    Pieces <- MCPieces
    Lead = {lead1, lead2}
    Cont = {cont1, cont2}
    Docs <- MCDocs
    Strings <- MCStrings
    MaxCalls = 4
SPECIFICATION Spec
INVARIANTS
    TypeOK
    EqualEffectEqualEncoding
    TP1
    ComposeLaw
    BoundaryChecksSuffice
    CaretFollowsText
    DiffsReproduceTarget
    OffsetsAgree
\* Building ends when the calls are used up.
CHECK_DEADLOCK FALSE
