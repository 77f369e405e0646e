\* Every operation over up to two or three operands, 5 bits, one level of
\* nesting; directories of up to three files.
CONSTANTS
    Directories <- MCDirectories
    Width = 5
SPECIFICATION FairSpec
INVARIANT
    PrintedIsMeant
PROPERTY
    SoundFilesAreAnswered
CHECK_DEADLOCK FALSE
