--------------------------- MODULE UefiBootProofs ---------------------------
(***************************************************************************)
(* Theorems about the UEFI boot loader, for every set of configuration     *)
(* files, kernels, keys and ACPI tables.                                   *)
(***************************************************************************)
EXTENDS UefiBoot, WellFoundedInduction, TLAPS

-----------------------------------------------------------------------------
(* The inductive invariant. *)

\* Where a file is open, where a volume is, and where a kernel is on its way.
FileOpen == {"getInfo", "readInfo", "allocate", "read", "closeFile"}
VolumeOpen == FileOpen \cup {"openFile", "closeVolume"}
Handing == {"getMap", "halMap", "halGetMap", "acpi", "bootInfo", "stack", "exit",
            "halted", "jumped"}
Starting == Handing \cup {"mapSize"}
Loaded == Starting \cup {"kernel", "verify", "cleanup"}
Steps == VolumeOpen \cup Loaded \cup
         {"initialize", "secure", "openProtocol", "openRoot", "failed", "config",
          "menu", "select", "returned", "lost"}

\* The types of the control state, and those of the data, with the only two
\* lists of entries there ever are.
ControlTypes ==
  /\ pc \in Steps /\ loader \in {"config", "kernel"} /\ ok \in BOOLEAN
  /\ held \subseteq Handles /\ mapped \subseteq Handles
  /\ current \in BOOLEAN /\ pressed \in BOOLEAN
DataTypes ==
  /\ str \in Seq(Line)
  /\ config \in [Entries: {<<>>, <<"default">>}, Timeout: 0 .. DefaultTimeout]
  /\ selected \in {NoText, "default"}
  /\ image \in Kernels \cup {None}

\* What is held at a step, for the handles of the firmware's file system ...
HeldFiles ==
  /\ "secure" \in held <=> pc = "secure"
  /\ "info" \in held <=> pc = "readInfo"
  /\ "file" \in held <=> pc \in FileOpen
  /\ "root" \in held <=> pc \in VolumeOpen
  /\ pc \in VolumeOpen \cup {"openRoot"} => "protocol" \in held
  /\ "protocol" \in held => pc \in VolumeOpen \cup {"openRoot"} \/ "openRoot" \in errors

\* ... for the two buffers files are read into ...
HeldBuffers ==
  /\ "config" \in held =>
       /\ loader = "config"
       /\ pc \in {"read", "closeFile", "closeVolume", "failed", "config", "lost"}
  /\ "image" \in held =>
       /\ loader = "kernel"
       /\ pc \in Loaded \cup {"read", "closeFile", "closeVolume", "failed"}
  /\ pc = "read" \/ (pc \in {"closeFile", "closeVolume"} /\ ok) => Buffer \in held
  /\ pc \in Loaded => "image" \in held

\* ... and for what the hand-over allocates.
HeldMaps ==
  /\ "map" \in held <=> pc \in Handing
  /\ "halmap" \in held =>
       \/ pc \in Handing \ {"getMap", "halMap"}
       \/ pc \in {"cleanup", "returned"} /\ errors \cap {"bootInfo", "stack"} # {}
  /\ "bootinfo" \in held <=> pc \in {"stack", "exit", "halted", "jumped"}
  /\ "stack" \in held <=> pc \in {"exit", "halted", "jumped"}

\* For whom a file is read: an entry is selected before its kernel is loaded.
Choice ==
  /\ pc \in {"initialize", "secure", "config", "menu", "select", "lost"} => loader = "config"
  /\ pc \in Loaded => loader = "kernel"
  /\ loader = "config" => selected = NoText

\* The kernel that is started, and what it is told.
Kernel ==
  /\ pc \in Starting \cup {"verify"} => image.magic
  /\ pc \in Starting => (image.signed => RsaVerifySha384(PublicKey))
  /\ pc \in {"halMap", "halGetMap", "acpi", "bootInfo", "stack", "exit"}
       => mapped = held \ {"halmap", "bootinfo", "stack"} /\ "image" \in mapped
  /\ pc \in {"bootInfo", "stack", "exit"} => \A table \in acpi : table.checksum = 0

BootInv ==
  ControlTypes /\ DataTypes /\ HeldFiles /\ HeldBuffers /\ HeldMaps /\ Choice /\ Kernel

LEMMA InitBoot == Init => BootInv
  <1> SUFFICES ASSUME Init PROVE BootInv
    OBVIOUS
  <1> USE DEF Init
  <1>1. ControlTypes
    BY DEF ControlTypes, Steps
  <1>2. DataTypes
    BY UefiConstants DEF DataTypes, EmptyConfig
  <1>3. HeldFiles /\ HeldBuffers /\ HeldMaps
    BY DEF HeldFiles, HeldBuffers, HeldMaps, VolumeOpen, FileOpen, Loaded, Starting, Handing
  <1>4. Choice /\ Kernel
    BY DEF Choice, Kernel, EmptyConfig, Loaded, Starting, Handing
  <1>5. QED
    BY <1>1, <1>2, <1>3, <1>4 DEF BootInv

-----------------------------------------------------------------------------
(* Reading the configuration: no round of ConfigLoad's loop sets anything. *)

\* A set of line numbers has a first one.
LEMMA FirstLine ==
  ASSUME NEW T, T \subseteq Nat, T # {}
  PROVE  \E n \in T : \A k \in T : n <= k
  <1>1. IsWellFoundedOn(OpToRel(<, Nat), Nat)
    BY NatLessThanWellFounded
  <1>2. PICK n \in T : \A k \in T : <<k, n>> \notin OpToRel(<, Nat)
    BY <1>1, WFMin, Zenon
  <1>3. \A k \in T : ~(k < n)
    <2> TAKE k \in T
    <2>1. <<k, n>> \in Nat \X Nat
      OBVIOUS
    <2>2. QED
      BY <1>2, <2>1 DEF OpToRel
  <1>4. QED
    BY <1>3

\* ConfigFindKey finds a value and the lines behind it, or nothing.
LEMMA FindKey ==
  ASSUME NEW text \in Seq(Line), NEW key
  PROVE  /\ ConfigFindKey(text, key).str \in Seq(Line)
         /\ ConfigFindKey(text, key).value = NoText => ConfigFindKey(text, key).str = <<>>
  <1>1. CASE Places(text, key) = {}
    <2>1. ConfigFindKey(text, key) = [str |-> <<>>, value |-> NoText]
      BY <1>1, Zenon DEF ConfigFindKey
    <2>2. QED
      BY <2>1
  <1>2. CASE Places(text, key) # {}
    <2> DEFINE first == Min(Places(text, key))
    <2>1. Places(text, key) \subseteq Nat
      BY DEF Places
    <2>2. PICK i \in Places(text, key) : \A j \in Places(text, key) : i <= j
      BY <1>2, <2>1, FirstLine
    <2>3. first \in Places(text, key)
      BY <2>2 DEF Min
    <2>4. ConfigFindKey(text, key) =
            [str |-> SubSeq(text, first + 1, Len(text)), value |-> text[first].value]
      BY <1>2, Zenon DEF ConfigFindKey
    <2> HIDE DEF first
    <2>5. first \in 1 .. Len(text) /\ text[first] \in Line
      BY <2>3 DEF Places
    <2>6. SubSeq(text, first + 1, Len(text)) \in Seq(Line)
      BY <2>5
    <2>7. text[first].value # NoText
      BY <2>5 DEF Line
    <2>8. QED
      BY <2>4, <2>6, <2>7
  <1>3. QED
    BY <1>1, <1>2

\* There is nothing at address 0.
LEMMA FindNothing ==
  ASSUME NEW key
  PROVE  ConfigFindKey(<<>>, key) = [str |-> <<>>, value |-> NoText]
  <1>1. Places(<<>>, key) = {}
    BY DOMAIN <<>> = {} DEF Places
  <1>2. QED
    BY <1>1, Zenon DEF ConfigFindKey

\* A title is skipped.  Without one the search is at address 0, where neither a
\* timeout nor an entry is found.
LEMMA RoundSetsNothing ==
  ASSUME str \in Seq(Line)
  PROVE  ConfigRound.str \in Seq(Line) /\ ConfigRound.config = config
  <1>1. CASE Title.value # NoText
    <2>1. ConfigRound = [str |-> Title.str, config |-> config]
      BY <1>1 DEF ConfigRound
    <2>2. QED
      BY <2>1, FindKey DEF Title
  <1>2. CASE Title.value = NoText
    <2> DEFINE nothing == [str |-> <<>>, value |-> NoText]
    <2>1. Title.str = <<>>
      BY <1>2, FindKey DEF Title
    <2>2. TimeoutLine = nothing
      BY <2>1, FindNothing DEF TimeoutLine
    <2>3. DefaultLine = nothing
      BY <2>2, FindNothing DEF DefaultLine
    <2>4. EntryLine = nothing
      BY <2>3, FindNothing DEF EntryLine
    <2>5. ConfigRound = [str |-> <<>>, config |-> config]
      BY <1>2, <2>2, <2>3, <2>4 DEF ConfigRound
    <2>6. QED
      BY <2>5
  <1>3. QED
    BY <1>1, <1>2

-----------------------------------------------------------------------------
(* One lemma per part of the loader: its steps keep the invariant. *)
USE DEF FileOpen, VolumeOpen, Handing, Starting, Loaded, Steps,
        Goto, Take, Release, file, menu, boot

LEMMA Keeps_VerifySecureBoot ==
  ASSUME BootInv, VerifySecureBoot PROVE BootInv'
  <1>1. ControlTypes'
    BY DEF BootInv, ControlTypes, Handles, VerifySecureBoot
  <1>2. DataTypes'
    BY DEF BootInv, DataTypes, VerifySecureBoot
  <1>3. HeldFiles'
    BY DEF BootInv, HeldFiles, VerifySecureBoot
  <1>4. HeldBuffers'
    BY DEF BootInv, HeldBuffers, Buffer, VerifySecureBoot
  <1>5. HeldMaps'
    BY DEF BootInv, HeldMaps, VerifySecureBoot
  <1>6. Choice'
    BY DEF BootInv, Choice, VerifySecureBoot
  <1>7. Kernel'
    BY DEF BootInv, Kernel, VerifySecureBoot
  <1>8. QED
    BY <1>1, <1>2, <1>3, <1>4, <1>5, <1>6, <1>7 DEF BootInv

LEMMA Keeps_FsOpenVolume ==
  ASSUME BootInv, FsOpenVolume PROVE BootInv'
  <1>1. ControlTypes'
    BY DEF BootInv, ControlTypes, Handles, FsOpenVolume
  <1>2. DataTypes'
    BY DEF BootInv, DataTypes, FsOpenVolume
  <1>3. HeldFiles'
    BY DEF BootInv, HeldFiles, FsOpenVolume
  <1>4. HeldBuffers'
    BY DEF BootInv, HeldBuffers, Buffer, FsOpenVolume
  <1>5. HeldMaps'
    BY DEF BootInv, HeldMaps, FsOpenVolume
  <1>6. Choice'
    BY DEF BootInv, Choice, FsOpenVolume
  <1>7. Kernel'
    BY DEF BootInv, Kernel, FsOpenVolume
  <1>8. QED
    BY <1>1, <1>2, <1>3, <1>4, <1>5, <1>6, <1>7 DEF BootInv

LEMMA Keeps_FsOpenFile ==
  ASSUME BootInv, FsOpenFile PROVE BootInv'
  <1>1. ControlTypes'
    BY DEF BootInv, ControlTypes, Handles, FsOpenFile
  <1>2. DataTypes'
    BY DEF BootInv, DataTypes, FsOpenFile
  <1>3. HeldFiles'
    BY DEF BootInv, HeldFiles, FsOpenFile
  <1>4. HeldBuffers'
    BY DEF BootInv, HeldBuffers, Choice, ControlTypes, Buffer, Handles, FsOpenFile
  <1>5. HeldMaps'
    BY DEF BootInv, HeldMaps, FsOpenFile
  <1>6. Choice'
    BY DEF BootInv, Choice, FsOpenFile
  <1>7. Kernel'
    BY DEF BootInv, Kernel, FsOpenFile
  <1>8. QED
    BY <1>1, <1>2, <1>3, <1>4, <1>5, <1>6, <1>7 DEF BootInv

LEMMA Keeps_FsGetFileSize ==
  ASSUME BootInv, FsGetFileSize PROVE BootInv'
  <1>1. ControlTypes'
    BY DEF BootInv, ControlTypes, Handles, FsGetFileSize
  <1>2. DataTypes'
    BY DEF BootInv, DataTypes, FsGetFileSize
  <1>3. HeldFiles'
    BY DEF BootInv, HeldFiles, FsGetFileSize
  <1>4. HeldBuffers'
    BY DEF BootInv, HeldBuffers, Choice, ControlTypes, Buffer, Handles,
       FsGetFileSize
  <1>5. HeldMaps'
    BY DEF BootInv, HeldMaps, FsGetFileSize
  <1>6. Choice'
    BY DEF BootInv, Choice, FsGetFileSize
  <1>7. Kernel'
    BY DEF BootInv, Kernel, FsGetFileSize
  <1>8. QED
    BY <1>1, <1>2, <1>3, <1>4, <1>5, <1>6, <1>7 DEF BootInv

LEMMA Keeps_AllocateBuffer ==
  ASSUME BootInv, AllocateBuffer PROVE BootInv'
  <1>1. ControlTypes'
    BY DEF BootInv, ControlTypes, Handles, AllocateBuffer, Buffer
  <1>2. DataTypes'
    BY DEF BootInv, DataTypes, AllocateBuffer, Buffer
  <1>3. HeldFiles'
    BY DEF BootInv, HeldFiles, AllocateBuffer, Buffer
  <1>4. HeldBuffers'
    BY DEF BootInv, HeldBuffers, Choice, ControlTypes, Buffer, Handles,
       AllocateBuffer
  <1>5. HeldMaps'
    BY DEF BootInv, HeldMaps, AllocateBuffer, Buffer
  <1>6. Choice'
    BY DEF BootInv, Choice, AllocateBuffer, Buffer
  <1>7. Kernel'
    BY DEF BootInv, Kernel, AllocateBuffer, Buffer
  <1>8. QED
    BY <1>1, <1>2, <1>3, <1>4, <1>5, <1>6, <1>7 DEF BootInv

LEMMA Keeps_FsReadFile ==
  ASSUME BootInv, FsReadFile PROVE BootInv'
  <1>1. ControlTypes'
    BY DEF BootInv, ControlTypes, Handles, FsReadFile
  <1>2. DataTypes'
    BY UefiConstants DEF BootInv, DataTypes, FsReadFile
  <1>3. HeldFiles'
    BY DEF BootInv, HeldFiles, FsReadFile
  <1>4. HeldBuffers'
    BY DEF BootInv, HeldBuffers, Buffer, FsReadFile
  <1>5. HeldMaps'
    BY DEF BootInv, HeldMaps, FsReadFile
  <1>6. Choice'
    BY DEF BootInv, Choice, FsReadFile
  <1>7. Kernel'
    BY DEF BootInv, Kernel, FsReadFile
  <1>8. QED
    BY <1>1, <1>2, <1>3, <1>4, <1>5, <1>6, <1>7 DEF BootInv

LEMMA Keeps_FsCloseFile ==
  ASSUME BootInv, FsCloseFile PROVE BootInv'
  <1>1. ControlTypes'
    BY DEF BootInv, ControlTypes, Handles, FsCloseFile
  <1>2. DataTypes'
    BY DEF BootInv, DataTypes, FsCloseFile
  <1>3. HeldFiles'
    BY DEF BootInv, HeldFiles, FsCloseFile
  <1>4. HeldBuffers'
    BY DEF BootInv, HeldBuffers, Buffer, FsCloseFile
  <1>5. HeldMaps'
    BY DEF BootInv, HeldMaps, FsCloseFile
  <1>6. Choice'
    BY DEF BootInv, Choice, FsCloseFile
  <1>7. Kernel'
    BY DEF BootInv, Kernel, FsCloseFile
  <1>8. QED
    BY <1>1, <1>2, <1>3, <1>4, <1>5, <1>6, <1>7 DEF BootInv

LEMMA Keeps_FsCloseVolume ==
  ASSUME BootInv, FsCloseVolume PROVE BootInv'
  <1>1. ControlTypes'
    BY DEF BootInv, ControlTypes, Handles, FsCloseVolume
  <1>2. DataTypes'
    BY DEF BootInv, DataTypes, FsCloseVolume
  <1>3. HeldFiles'
    BY DEF BootInv, HeldFiles, ControlTypes, Handles, FsCloseVolume
  <1>4. HeldBuffers'
    BY DEF BootInv, HeldBuffers, Buffer, FsCloseVolume
  <1>5. HeldMaps'
    BY DEF BootInv, HeldMaps, ControlTypes, Handles, FsCloseVolume
  <1>6. Choice'
    BY DEF BootInv, Choice, ControlTypes, Handles, FsCloseVolume
  <1>7. Kernel'
    BY DEF BootInv, Kernel, ControlTypes, Handles, FsCloseVolume
  <1>8. QED
    BY <1>1, <1>2, <1>3, <1>4, <1>5, <1>6, <1>7 DEF BootInv

LEMMA Keeps_LoadFailed ==
  ASSUME BootInv, LoadFailed PROVE BootInv'
  <1>1. ControlTypes'
    BY DEF BootInv, ControlTypes, Handles, LoadFailed, Buffer, None
  <1>2. DataTypes'
    BY UefiConstants DEF BootInv, DataTypes, LoadFailed, Buffer, None
  <1>3. HeldFiles'
    BY DEF BootInv, HeldFiles, LoadFailed, Buffer, None
  <1>4. HeldBuffers'
    BY DEF BootInv, HeldBuffers, Buffer, LoadFailed, None
  <1>5. HeldMaps'
    BY DEF BootInv, HeldMaps, LoadFailed, Buffer, None
  <1>6. Choice'
    BY UefiConstants DEF BootInv, Choice, DataTypes, LoadFailed, Buffer, None
  <1>7. Kernel'
    BY DEF BootInv, Kernel, LoadFailed, Buffer, None
  <1>8. QED
    BY <1>1, <1>2, <1>3, <1>4, <1>5, <1>6, <1>7 DEF BootInv

LEMMA Keeps_ConfigLoad ==
  ASSUME BootInv, ConfigLoad PROVE BootInv'
  <1>0. /\ str' \in Seq(Line) /\ config' = config
        /\ selected' = selected /\ image' = image
    BY RoundSetsNothing DEF BootInv, DataTypes, ConfigLoad
  <1>1. ControlTypes'
    BY DEF BootInv, ControlTypes, Handles, ConfigLoad, NoText
  <1>2. DataTypes'
    BY <1>0 DEF BootInv, DataTypes
  <1>3. HeldFiles'
    BY DEF BootInv, HeldFiles, ConfigLoad, NoText
  <1>4. HeldBuffers'
    BY DEF BootInv, HeldBuffers, Buffer, ConfigLoad, NoText
  <1>5. HeldMaps'
    BY DEF BootInv, HeldMaps, ConfigLoad, NoText
  <1>6. Choice'
    BY <1>0 DEF BootInv, Choice, ConfigLoad
  <1>7. Kernel'
    BY DEF BootInv, Kernel, ConfigLoad, NoText
  <1>8. QED
    BY <1>1, <1>2, <1>3, <1>4, <1>5, <1>6, <1>7 DEF BootInv

LEMMA Keeps_Countdown ==
  ASSUME BootInv, Countdown PROVE BootInv'
  <1>1. ControlTypes'
    BY DEF BootInv, ControlTypes, Handles, Countdown, ConfigGetDefaultEntry, NoText
  <1>2. DataTypes'
    BY UefiConstants DEF BootInv, DataTypes, Countdown, ConfigGetDefaultEntry, NoText
  <1>3. HeldFiles'
    BY DEF BootInv, HeldFiles, Countdown, ConfigGetDefaultEntry, NoText
  <1>4. HeldBuffers'
    BY DEF BootInv, HeldBuffers, Buffer, Countdown, ConfigGetDefaultEntry, NoText
  <1>5. HeldMaps'
    BY DEF BootInv, HeldMaps, Countdown, ConfigGetDefaultEntry, NoText
  <1>6. Choice'
    BY DEF BootInv, Choice, DataTypes, Countdown, ConfigGetDefaultEntry, NoText
  <1>7. Kernel'
    BY DEF BootInv, Kernel, Countdown, ConfigGetDefaultEntry, NoText
  <1>8. QED
    BY <1>1, <1>2, <1>3, <1>4, <1>5, <1>6, <1>7 DEF BootInv

LEMMA Keeps_SelectEntry ==
  ASSUME BootInv, SelectEntry PROVE BootInv'
  <1>1. ControlTypes'
    BY DEF BootInv, ControlTypes, Handles, SelectEntry, Input
  <1>2. DataTypes'
    BY DEF BootInv, DataTypes, SelectEntry, Input
  <1>3. HeldFiles'
    BY DEF BootInv, HeldFiles, SelectEntry, Input
  <1>4. HeldBuffers'
    BY DEF BootInv, HeldBuffers, Buffer, SelectEntry, Input
  <1>5. HeldMaps'
    BY DEF BootInv, HeldMaps, SelectEntry, Input
  <1>6. Choice'
    BY UefiConstants DEF BootInv, Choice, SelectEntry, Input
  <1>7. Kernel'
    BY DEF BootInv, Kernel, SelectEntry, Input
  <1>8. QED
    BY <1>1, <1>2, <1>3, <1>4, <1>5, <1>6, <1>7 DEF BootInv

LEMMA Keeps_CheckMagic ==
  ASSUME BootInv, CheckMagic PROVE BootInv'
  <1>1. ControlTypes'
    BY DEF BootInv, ControlTypes, Handles, CheckMagic, None
  <1>2. DataTypes'
    BY DEF BootInv, DataTypes, CheckMagic, None
  <1>3. HeldFiles'
    BY DEF BootInv, HeldFiles, CheckMagic, None
  <1>4. HeldBuffers'
    BY DEF BootInv, HeldBuffers, Buffer, CheckMagic, None
  <1>5. HeldMaps'
    BY DEF BootInv, HeldMaps, CheckMagic, None
  <1>6. Choice'
    BY DEF BootInv, Choice, CheckMagic, None
  <1>7. Kernel'
    BY DEF BootInv, Kernel, CheckMagic, None
  <1>8. QED
    BY <1>1, <1>2, <1>3, <1>4, <1>5, <1>6, <1>7 DEF BootInv

LEMMA Keeps_BootMgrVerifyKernel ==
  ASSUME BootInv, BootMgrVerifyKernel PROVE BootInv'
  <1>1. ControlTypes'
    BY DEF BootInv, ControlTypes, Handles, BootMgrVerifyKernel, RsaVerifySha384,
       PublicKey
  <1>2. DataTypes'
    BY DEF BootInv, DataTypes, BootMgrVerifyKernel, RsaVerifySha384, PublicKey
  <1>3. HeldFiles'
    BY DEF BootInv, HeldFiles, BootMgrVerifyKernel, RsaVerifySha384, PublicKey
  <1>4. HeldBuffers'
    BY DEF BootInv, HeldBuffers, Buffer, BootMgrVerifyKernel, RsaVerifySha384,
       PublicKey
  <1>5. HeldMaps'
    BY DEF BootInv, HeldMaps, BootMgrVerifyKernel, RsaVerifySha384, PublicKey
  <1>6. Choice'
    BY DEF BootInv, Choice, BootMgrVerifyKernel, RsaVerifySha384, PublicKey
  <1>7. Kernel'
    BY DEF BootInv, Kernel, BootMgrVerifyKernel, RsaVerifySha384, PublicKey
  <1>8. QED
    BY <1>1, <1>2, <1>3, <1>4, <1>5, <1>6, <1>7 DEF BootInv

LEMMA Keeps_BootMgrCleanup ==
  ASSUME BootInv, BootMgrCleanup PROVE BootInv'
  <1>1. ControlTypes'
    BY DEF BootInv, ControlTypes, Handles, BootMgrCleanup, None
  <1>2. DataTypes'
    BY DEF BootInv, DataTypes, BootMgrCleanup, None
  <1>3. HeldFiles'
    BY DEF BootInv, HeldFiles, BootMgrCleanup, None
  <1>4. HeldBuffers'
    BY DEF BootInv, HeldBuffers, Buffer, BootMgrCleanup, None
  <1>5. HeldMaps'
    BY DEF BootInv, HeldMaps, BootMgrCleanup, None
  <1>6. Choice'
    BY DEF BootInv, Choice, BootMgrCleanup, None
  <1>7. Kernel'
    BY DEF BootInv, Kernel, BootMgrCleanup, None
  <1>8. QED
    BY <1>1, <1>2, <1>3, <1>4, <1>5, <1>6, <1>7 DEF BootInv

LEMMA Keeps_GetMemoryMap ==
  ASSUME BootInv, GetMemoryMap PROVE BootInv'
  <1>1. ControlTypes'
    BY DEF BootInv, ControlTypes, Handles, GetMemoryMap
  <1>2. DataTypes'
    BY DEF BootInv, DataTypes, GetMemoryMap
  <1>3. HeldFiles'
    BY DEF BootInv, HeldFiles, GetMemoryMap
  <1>4. HeldBuffers'
    BY DEF BootInv, HeldBuffers, Buffer, GetMemoryMap
  <1>5. HeldMaps'
    BY DEF BootInv, HeldMaps, GetMemoryMap
  <1>6. Choice'
    BY DEF BootInv, Choice, GetMemoryMap
  <1>7. Kernel'
    BY DEF BootInv, Kernel, HeldBuffers, HeldMaps, Buffer, GetMemoryMap
  <1>8. QED
    BY <1>1, <1>2, <1>3, <1>4, <1>5, <1>6, <1>7 DEF BootInv

LEMMA Keeps_HalGetMemoryMap ==
  ASSUME BootInv, HalGetMemoryMap PROVE BootInv'
  <1>1. ControlTypes'
    BY DEF BootInv, ControlTypes, Handles, HalGetMemoryMap
  <1>2. DataTypes'
    BY DEF BootInv, DataTypes, HalGetMemoryMap
  <1>3. HeldFiles'
    BY DEF BootInv, HeldFiles, HalGetMemoryMap
  <1>4. HeldBuffers'
    BY DEF BootInv, HeldBuffers, Buffer, HalGetMemoryMap
  <1>5. HeldMaps'
    BY DEF BootInv, HeldMaps, HalGetMemoryMap
  <1>6. Choice'
    BY DEF BootInv, Choice, HalGetMemoryMap
  <1>7. Kernel'
    BY DEF BootInv, Kernel, HalGetMemoryMap
  <1>8. QED
    BY <1>1, <1>2, <1>3, <1>4, <1>5, <1>6, <1>7 DEF BootInv

LEMMA Keeps_ReadAcpi ==
  ASSUME BootInv, ReadAcpi PROVE BootInv'
  <1>1. ControlTypes'
    BY DEF BootInv, ControlTypes, Handles, ReadAcpi, HalGetAcpiInfo
  <1>2. DataTypes'
    BY DEF BootInv, DataTypes, ReadAcpi, HalGetAcpiInfo
  <1>3. HeldFiles'
    BY DEF BootInv, HeldFiles, ReadAcpi, HalGetAcpiInfo
  <1>4. HeldBuffers'
    BY DEF BootInv, HeldBuffers, Buffer, ReadAcpi, HalGetAcpiInfo
  <1>5. HeldMaps'
    BY DEF BootInv, HeldMaps, ReadAcpi, HalGetAcpiInfo
  <1>6. Choice'
    BY DEF BootInv, Choice, ReadAcpi, HalGetAcpiInfo
  <1>7. Kernel'
    BY DEF BootInv, Kernel, ReadAcpi, HalGetAcpiInfo
  <1>8. QED
    BY <1>1, <1>2, <1>3, <1>4, <1>5, <1>6, <1>7 DEF BootInv

LEMMA Keeps_AllocateBootInfo ==
  ASSUME BootInv, AllocateBootInfo PROVE BootInv'
  <1>1. ControlTypes'
    BY DEF BootInv, ControlTypes, Handles, AllocateBootInfo
  <1>2. DataTypes'
    BY DEF BootInv, DataTypes, AllocateBootInfo
  <1>3. HeldFiles'
    BY DEF BootInv, HeldFiles, AllocateBootInfo
  <1>4. HeldBuffers'
    BY DEF BootInv, HeldBuffers, Buffer, AllocateBootInfo
  <1>5. HeldMaps'
    BY DEF BootInv, HeldMaps, AllocateBootInfo
  <1>6. Choice'
    BY DEF BootInv, Choice, AllocateBootInfo
  <1>7. Kernel'
    BY DEF BootInv, Kernel, AllocateBootInfo
  <1>8. QED
    BY <1>1, <1>2, <1>3, <1>4, <1>5, <1>6, <1>7 DEF BootInv

LEMMA Keeps_AllocateStack ==
  ASSUME BootInv, AllocateStack PROVE BootInv'
  <1>1. ControlTypes'
    BY DEF BootInv, ControlTypes, Handles, AllocateStack
  <1>2. DataTypes'
    BY DEF BootInv, DataTypes, AllocateStack
  <1>3. HeldFiles'
    BY DEF BootInv, HeldFiles, AllocateStack
  <1>4. HeldBuffers'
    BY DEF BootInv, HeldBuffers, Buffer, AllocateStack
  <1>5. HeldMaps'
    BY DEF BootInv, HeldMaps, AllocateStack
  <1>6. Choice'
    BY DEF BootInv, Choice, AllocateStack
  <1>7. Kernel'
    BY DEF BootInv, Kernel, AllocateStack
  <1>8. QED
    BY <1>1, <1>2, <1>3, <1>4, <1>5, <1>6, <1>7 DEF BootInv

LEMMA Keeps_ExitBootServices ==
  ASSUME BootInv, ExitBootServices PROVE BootInv'
  <1>1. ControlTypes'
    BY DEF BootInv, ControlTypes, Handles, ExitBootServices
  <1>2. DataTypes'
    BY DEF BootInv, DataTypes, ExitBootServices
  <1>3. HeldFiles'
    BY DEF BootInv, HeldFiles, ExitBootServices
  <1>4. HeldBuffers'
    BY DEF BootInv, HeldBuffers, Buffer, ExitBootServices
  <1>5. HeldMaps'
    BY DEF BootInv, HeldMaps, ExitBootServices
  <1>6. Choice'
    BY DEF BootInv, Choice, ExitBootServices
  <1>7. Kernel'
    BY DEF BootInv, Kernel, ExitBootServices
  <1>8. QED
    BY <1>1, <1>2, <1>3, <1>4, <1>5, <1>6, <1>7 DEF BootInv

-----------------------------------------------------------------------------
\* The invariant holds at every step of the loader.
THEOREM BootInvariant == Spec => []BootInv
  <1>1. BootInv /\ [Next]_vars => BootInv'
    <2> SUFFICES ASSUME BootInv, [Next]_vars PROVE BootInv'
      OBVIOUS
    <2>1. CASE ReadFile
      BY <2>1, Keeps_FsOpenVolume, Keeps_FsOpenFile, Keeps_FsGetFileSize,
         Keeps_AllocateBuffer, Keeps_FsReadFile, Keeps_FsCloseFile, Keeps_FsCloseVolume,
         Keeps_LoadFailed DEF ReadFile
    <2>2. CASE VerifySecureBoot \/ ConfigLoad \/ Countdown \/ SelectEntry
      BY <2>2, Keeps_VerifySecureBoot, Keeps_ConfigLoad, Keeps_Countdown, Keeps_SelectEntry
    <2>3. CASE StartKernel
      BY <2>3, Keeps_CheckMagic, Keeps_BootMgrVerifyKernel, Keeps_BootMgrCleanup,
         Keeps_GetMemoryMap, Keeps_HalGetMemoryMap, Keeps_ReadAcpi, Keeps_AllocateBootInfo,
         Keeps_AllocateStack, Keeps_ExitBootServices DEF StartKernel
    <2>4. CASE UNCHANGED vars
      BY <2>4 DEF vars, BootInv, ControlTypes, DataTypes, HeldFiles, HeldBuffers, HeldMaps,
         Choice, Kernel, Buffer
    <2>5. QED
      BY <2>1, <2>2, <2>3, <2>4 DEF Next
  <1>2. QED
    BY <1>1, InitBoot, PTL DEF Spec

\* The loader uses what it holds, gives it back once, and leaves behind only
\* what the code forgets, whichever calls of the firmware fail.
THEOREM HandlesStaySound == Spec => []HandlesSound
  <1>1. BootInv => HandlesSound
    <2> SUFFICES ASSUME BootInv PROVE HandlesSound
      OBVIOUS
    <2>1. TypeOK
      <3>1. /\ config.Timeout \in 0 .. DefaultTimeout
            /\ config.Entries = <<>> \/ config.Entries = <<"default">>
        BY DEF BootInv, DataTypes
      <3>2. Len(config.Entries) <= MAX_BOOT_ENTRIES
        <4>1. CASE config.Entries = <<>>
          BY <4>1, Len(<<>>) = 0, UefiConstants
        <4>2. CASE config.Entries = <<"default">>
          <5>1. Len(config.Entries) = 1
            BY <4>2
          <5>2. QED
            BY <5>1, UefiConstants
        <4>3. QED
          BY <3>1, <4>1, <4>2
      <3>3. QED
        BY <3>1, <3>2 DEF TypeOK, BootInv, ControlTypes, DataTypes
    <2>2. ReleasesHeld
      BY DEF BootInv, HeldFiles, HeldBuffers, HeldMaps, ReleasesHeld
    <2>3. NothingLeaked
      BY DEF BootInv, ControlTypes, HeldFiles, HeldBuffers, HeldMaps, NothingLeaked, Handles
    <2>4. QED
      BY <2>1, <2>2, <2>3 DEF HandlesSound
  <1>2. QED
    BY <1>1, BootInvariant, PTL

\* ExitBootServices is called for a kernel that was verified, with a map that
\* shows as taken all that the kernel may not use, but for the three late
\* allocations, and with an ACPI table whose checksum is right.
THEOREM HandOverIsSound == Spec => []HandOver
  <1>1. BootInv => HandOver
    BY DEF BootInv, Kernel, HandOver, KernelVerified, BootInfoSound
  <1>2. QED
    BY <1>1, BootInvariant, PTL
=============================================================================
