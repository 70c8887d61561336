SPECIFICATION PartsSpec
CONSTANTS
  Texts <- MCTexts
  Kernels <- MCKernels
  Keys <- MCKeys
  AcpiTables <- MCAcpiTables
  MAX_BOOT_ENTRIES = 2
  DefaultTimeout = 3
  M = 5
  Bytes = {0, 1, 3}
  BYTE = 4
  SIZE = 16
  INT_MAX = 127
  Counts = {0, 1, 2, 3}
  Characters <- MCCharacters
  Formats <- MCFormats
  Tails <- MCTails
  MaxItems = 2
  MaxSize = 5
  Numbers <- MCNumbers
  ULONG = 256
  WIDTH = 4
  BLOCK = 4
  FIELD = 2
  WORD = 64
  HIGH = 6
  MaxPieces = 3
  MaxPiece = 6
\* The loader ends; library calls go on for ever.
CHECK_DEADLOCK FALSE
INVARIANT HandlesSound
INVARIANT HandOver
INVARIANT StringsExact
INVARIANT ConversionsExact
INVARIANT HashedBlocks
PROPERTY LoaderSettles
