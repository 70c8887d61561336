SPECIFICATION Spec
CONSTANTS
  Texts <- MCTexts
  Kernels <- MCKernels
  Keys <- MCKeys
  AcpiTables <- MCAcpiTables
  MAX_BOOT_ENTRIES = 2
  DefaultTimeout = 3
CHECK_DEADLOCK FALSE
INVARIANT KeyFresh
