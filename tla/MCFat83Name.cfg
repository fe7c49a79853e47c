CONSTANTS
  Lower = {"a"}
  Upper <- MCUpper
  Dot = "."
  Space = " "
  NameWidth = 3
  ExtWidth = 2
  Names <- MCNames

SPECIFICATION Spec

INVARIANT TypeOK
INVARIANT ShortNamesKept

\* main() adds each name once and then moves on to the FAT tables.
CHECK_DEADLOCK FALSE
