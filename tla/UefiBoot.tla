------------------------------ MODULE UefiBoot ------------------------------
(***************************************************************************)
(* The UEFI boot loader (Bootloader/x86_64/uefi): UefiMain reads the boot  *)
(* configuration, shows the menu, loads, verifies and starts the kernel.   *)
(*                                                                         *)
(* One thread of control; every call of the firmware that can fail is a    *)
(* step with both outcomes.  Held are the handles, pool buffers and pages  *)
(* the loader owns.  ConfigLoad and BootMgrLoadKernel read their file by   *)
(* the same sequence of calls; "loader" says for whom it runs.             *)
(*                                                                         *)
(* A configuration is a sequence of lines, each a key and a value; lines   *)
(* that set nothing have the key "none".  Close and free succeed on what   *)
(* is held, a GetInfo or GetMemoryMap without a buffer reports the size it *)
(* wants or fails, and ExitBootServices refuses a key that is older than   *)
(* the last allocation: that is the firmware's part of the contract.       *)
(*                                                                         *)
(* ConfigFindKey returns NULL for a missing key, and ConfigLoad goes on    *)
(* reading from it.  Either address 0 holds a zero, which is the end of a  *)
(* text, or the machine is lost.                                           *)
(*                                                                         *)
(* Abstracted: messages, addresses and sizes, the sections of an image,    *)
(* HalInitialize's descriptor tables, the value a found key leaves in the  *)
(* frame of a finished call, which decides nothing here, and the two bytes *)
(* ReadKeyStroke writes behind the menu's Input, taken to be unused.       *)
(***************************************************************************)
EXTENDS Integers, Sequences, FiniteSetsExt

CONSTANTS
  Texts,              \* configuration files: sequences of [key, value]
  Kernels,            \* kernel files: [magic, signed: BOOLEAN]
  Keys,               \* keys a user may press: [ScanCode, UnicodeChar]
  AcpiTables,         \* configuration tables of the firmware, in order
  MAX_BOOT_ENTRIES,
  DefaultTimeout      \* 5 in the code

NoText == "NULL"   \* the NULL of a text
Line == [key: STRING, value: STRING \ {NoText}]

\* No scan code of the firmware interface is the code of a digit.
ASSUME UefiConstants ==
  /\ MAX_BOOT_ENTRIES \in Nat \ {0} /\ DefaultTimeout \in Nat \ {0}
  /\ Texts \subseteq Seq(Line)
  /\ Kernels \subseteq [magic: BOOLEAN, signed: BOOLEAN]
  /\ Keys \subseteq [ScanCode: Nat \ 48 .. 57, UnicodeChar: Nat]

VARIABLES
  pc,         \* the next step
  loader,     \* "config" or "kernel": the file that is being read
  ok,         \* Status of the read: no error
  held,       \* handles and memory not given back
  errors,     \* history: the steps whose firmware call failed
  str,        \* ConfigLoad's Str: the lines still to be read
  config,     \* BOOT_CONFIG
  selected,   \* SelectedEntry's kernel path
  image,      \* KERNEL_IMAGE: the loaded kernel
  acpi,       \* BootInfo->AcpiTable: the table, or none
  current,    \* no allocation since MapKey was read
  mapped,     \* what the memory map for the kernel shows as taken
  pressed     \* history: a key was pressed

file == <<loader, ok>>
menu == <<str, config, selected>>
boot == <<image, acpi, mapped>>
vars == <<pc, file, held, errors, menu, boot, current, pressed>>

None == [magic |-> FALSE, signed |-> FALSE]
EmptyConfig == [Entries |-> <<>>, Timeout |-> DefaultTimeout]

Init ==
  /\ pc = "initialize" /\ loader = "config" /\ ok = TRUE
  /\ held = {} /\ errors = {}
  /\ str = <<>> /\ config = EmptyConfig /\ selected = NoText
  /\ image = None /\ acpi = {}
  /\ current = FALSE /\ mapped = {} /\ pressed = FALSE

-----------------------------------------------------------------------------
Goto(from, to) == pc = from /\ pc' = to

\* A firmware call that opens or allocates r, or fails.
Take(from, r, good, bad) ==
  /\ \/ Goto(from, good) /\ held' = held \cup {r} /\ UNCHANGED errors
     \/ Goto(from, bad) /\ errors' = errors \cup {from} /\ UNCHANGED held
  /\ current' = FALSE
Release(r) == held' = held \ r /\ current' = FALSE

\* IsSecureBootEnabled, whose answer is only printed: the buffer for the
\* variable is allocated, and freed on both paths.
VerifySecureBoot ==
  /\ \/ Take("initialize", "secure", "secure", "openProtocol")
     \/ /\ Goto("initialize", "openProtocol")   \* there is no such variable
        /\ UNCHANGED <<held, errors, current>>
     \/ Goto("secure", "openProtocol") /\ Release({"secure"}) /\ UNCHANGED errors
  /\ UNCHANGED <<file, menu, boot, pressed>>

-----------------------------------------------------------------------------
(* Reading a file.                                                         *)

\* The buffer for the file: pool for the configuration, pages for a kernel.
Buffer == IF loader = "config" THEN "config" ELSE "image"

FsOpenVolume ==
  /\ \/ Take("openProtocol", "protocol", "openRoot", "failed")
     \/ Take("openRoot", "root", "openFile", "failed")
  /\ UNCHANGED <<file, menu, boot, pressed>>

FsOpenFile ==
  /\ Take("openFile", "file", "getInfo", "closeVolume")
  /\ ok' = (pc' = "getInfo")
  /\ UNCHANGED <<loader, menu, boot, pressed>>

FsGetFileSize ==
  /\ \/ /\ Take("getInfo", "info", "readInfo", "closeFile")
        /\ ok' = (pc' = "readInfo")
     \/ /\ Goto("readInfo", "allocate")
        /\ Release({"info"}) /\ UNCHANGED <<errors, ok>>
     \/ /\ Goto("readInfo", "closeFile")
        /\ Release({"info"}) /\ errors' = errors \cup {"readInfo"}
        /\ ok' = FALSE
  /\ UNCHANGED <<loader, menu, boot, pressed>>

AllocateBuffer ==
  /\ Take("allocate", Buffer, "read", "closeFile")
  /\ ok' = (pc' = "read")
  /\ UNCHANGED <<loader, menu, boot, pressed>>

\* What was read is whatever the file holds; a short read is a shorter text.
FsReadFile ==
  /\ Goto("read", "closeFile")
  /\ \/ /\ ok' = TRUE /\ UNCHANGED errors
        /\ \/ loader = "config" /\ str' \in Texts /\ UNCHANGED image
           \/ loader = "kernel" /\ image' \in Kernels /\ UNCHANGED str
     \/ /\ ok' = FALSE /\ errors' = errors \cup {"read"}
        /\ UNCHANGED <<str, image>>
  /\ UNCHANGED <<loader, held, current, config, selected, acpi, mapped, pressed>>

FsCloseFile ==
  /\ Goto("closeFile", "closeVolume")
  /\ Release({"file"})
  /\ UNCHANGED <<file, errors, menu, boot, pressed>>

FsCloseVolume ==
  /\ Goto("closeVolume", IF ok THEN loader ELSE "failed")
  /\ Release({"root", "protocol"})
  /\ UNCHANGED <<file, errors, menu, boot, pressed>>

\* Mutant: the loaded file stays allocated when it could not be read.
LoadFailed_KeepsBuffer ==
  /\ pc = "failed"
  /\ pc' = IF loader = "config" THEN "menu" ELSE "returned"
  /\ held' = held /\ current' = FALSE
  /\ config' = IF loader = "config"
               THEN [Entries |-> <<"default">>, Timeout |-> DefaultTimeout]
               ELSE config
  /\ image' = None
  /\ UNCHANGED <<file, errors, str, selected, acpi, mapped, pressed>>

\* An error on the way: the buffer is freed if it was there.  UefiMain goes on
\* with a configuration of its own, or returns.
LoadFailed ==
  /\ pc = "failed"
  /\ pc' = IF loader = "config" THEN "menu" ELSE "returned"
  /\ Release({Buffer})
  /\ config' = IF loader = "config"
               THEN [Entries |-> <<"default">>, Timeout |-> DefaultTimeout]
               ELSE config
  /\ image' = None
  /\ UNCHANGED <<file, errors, str, selected, acpi, mapped, pressed>>

-----------------------------------------------------------------------------
(* The configuration.                                                      *)

\* The lines with a key.
Places(text, key) == {i \in DOMAIN text : text[i].key = key}

\* The text behind the first line with the key, and its value.  Without one
\* the text is at address 0, an empty one.
ConfigFindKey(text, key) ==
  IF Places(text, key) = {} THEN [str |-> <<>>, value |-> NoText]
  ELSE LET first == Min(Places(text, key))
       IN  [str |-> SubSeq(text, first + 1, Len(text)), value |-> text[first].value]

\* AsciiStrLen of a string of 16-bit characters: its second byte is zero.
AsciiStrLen(value) == IF value = "" THEN 0 ELSE 1

\* The lines a round of ConfigLoad's loop looks for, each behind the one
\* before it, and the text behind an entry.
Title == ConfigFindKey(str, "title")
TimeoutLine == ConfigFindKey(Title.str, "timeout")
DefaultLine == ConfigFindKey(TimeoutLine.str, "default")
EntryLine == ConfigFindKey(DefaultLine.str, "entry")
KernelLine == ConfigFindKey(EntryLine.str, "kernel")
InitrdLine == ConfigFindKey(KernelLine.str, "initrd")
EntryRest == ConfigFindKey(ConfigFindKey(InitrdLine.str, "args").str, "default").str

\* One round of the loop: what is left of the text, and the configuration.  An
\* entry is its kernel's path; every entry is enabled, and none is the default,
\* since the 16-bit "true" is never equal to the 8-bit one.
ConfigRound ==
  CASE Title.value # NoText -> [str |-> Title.str, config |-> config]
    [] Title.value = NoText /\ TimeoutLine.value # NoText ->
         [str |-> TimeoutLine.str,
          config |-> [config EXCEPT !.Timeout = AsciiStrLen(TimeoutLine.value)]]
    [] Title.value = NoText /\ TimeoutLine.value = NoText /\ DefaultLine.value # NoText ->
         [str |-> DefaultLine.str, config |-> config]
    [] Title.value = NoText /\ TimeoutLine.value = NoText /\ DefaultLine.value = NoText
         /\ EntryLine.value # NoText /\ Len(config.Entries) < MAX_BOOT_ENTRIES ->
         [str |-> EntryRest,
          config |-> [config EXCEPT !.Entries = Append(@, KernelLine.value)]]
    [] OTHER -> [str |-> EntryLine.str, config |-> config]

\* ConfigLoad behind the read.  ConfigFindKey is called with the NULL it has
\* returned as soon as there is no title ahead.
ConfigLoad ==
  /\ pc = "config"
  /\ \/ /\ str = <<>>
        /\ pc' = "menu" /\ Release({"config"})
        /\ UNCHANGED <<str, config>>
     \/ /\ str # <<>>
        /\ str' = ConfigRound.str /\ config' = ConfigRound.config
        /\ UNCHANGED <<pc, held, current>>
     \/ /\ str # <<>> /\ Title.value = NoText
        /\ pc' = "lost"
        /\ UNCHANGED <<str, config, held, current>>
  /\ UNCHANGED <<file, errors, selected, boot, pressed>>

-----------------------------------------------------------------------------
(* The menu.                                                               *)

\* ConfigGetDefaultEntry: the first entry, if there is one; the entry UefiMain
\* makes up is the first and the default.
ConfigGetDefaultEntry ==
  IF config.Entries = <<>> THEN NoText ELSE config.Entries[1]

\* Mutant: the countdown starts again when it ends.
Countdown_Restarts ==
  /\ pc = "menu" /\ config.Timeout > 0
  /\ config' = [config EXCEPT !.Timeout = IF @ > 1 THEN @ - 1 ELSE DefaultTimeout]
  /\ UNCHANGED <<pc, file, held, errors, current, str, selected, boot, pressed>>

\* The countdown: a second without a key, its end, or a key.
Countdown ==
  /\ pc = "menu"
  /\ \/ /\ config.Timeout > 1
        /\ config' = [config EXCEPT !.Timeout = @ - 1]
        /\ UNCHANGED <<pc, loader, selected, pressed>>
     \/ /\ config.Timeout = 1
        /\ config' = [config EXCEPT !.Timeout = 0]
        /\ selected' = ConfigGetDefaultEntry
        /\ pc' = IF selected' = NoText THEN "returned" ELSE "openProtocol"
        /\ loader' = "kernel" /\ UNCHANGED pressed
     \/ /\ config.Timeout > 0 /\ Keys # {}
        /\ pc' = "select" /\ pressed' = TRUE
        /\ UNCHANGED <<loader, config, selected>>
  /\ UNCHANGED <<ok, held, errors, current, str, boot>>

\* ReadKeyStroke fills an EFI_INPUT_KEY, whose first member is the scan code,
\* in the place of a character.
Input(key) == key.ScanCode

\* The loop that waits for a digit.
SelectEntry ==
  /\ pc = "select"
  /\ \E key \in Keys :
       LET index == Input(key) - 48 IN
       /\ pressed' = TRUE
       /\ IF index \in 0 .. 9 /\ index < Len(config.Entries)
          THEN /\ selected' = config.Entries[index + 1]
               /\ pc' = "openProtocol" /\ loader' = "kernel"
          ELSE UNCHANGED <<pc, selected, loader>>
  /\ UNCHANGED <<ok, held, errors, current, str, config, boot>>

-----------------------------------------------------------------------------
(* The kernel.                                                             *)

\* BootMgrLoadKernel behind the read: an image with the wrong magic is freed.
CheckMagic ==
  /\ pc = "kernel"
  /\ \/ /\ image.magic
        /\ pc' = "verify" /\ UNCHANGED <<held, current, image>>
     \/ /\ ~image.magic
        /\ pc' = "returned" /\ Release({"image"}) /\ image' = None
  /\ UNCHANGED <<file, errors, menu, acpi, mapped, pressed>>

\* RsaVerifySha384 refuses a key without a modulus, which is what UefiMain
\* passes: it has set the key to zeros.
PublicKey == [ModulusSize |-> 0]
RsaVerifySha384(key) == key.ModulusSize # 0

\* BootMgrVerifyKernel: an unsigned kernel passes with a warning.
BootMgrVerifyKernel ==
  /\ Goto("verify", IF image.signed /\ ~RsaVerifySha384(PublicKey) THEN "cleanup"
                    ELSE "mapSize")
  /\ UNCHANGED <<file, held, errors, current, menu, boot, pressed>>

\* BootMgrCleanup, and the return of UefiMain.
BootMgrCleanup ==
  /\ Goto("cleanup", "returned")
  /\ Release({"image"}) /\ image' = None
  /\ UNCHANGED <<file, errors, menu, acpi, mapped, pressed>>

\* Mutant: the map is the one that was read for its size.
GetMemoryMap_Early ==
  /\ \/ /\ Take("mapSize", "map", "getMap", "cleanup")
        /\ mapped' = held
     \/ /\ Goto("getMap", "halMap") /\ current' = TRUE
        /\ UNCHANGED <<held, errors, mapped>>
     \/ /\ Goto("getMap", "cleanup")
        /\ errors' = errors \cup {"getMap"}
        /\ Release({"map"}) /\ UNCHANGED mapped
  /\ UNCHANGED <<file, menu, image, acpi, pressed>>

\* BootMgrBootKernel: the memory map, and the key that belongs to it.
GetMemoryMap ==
  /\ \/ Take("mapSize", "map", "getMap", "cleanup") /\ UNCHANGED mapped
     \/ /\ Goto("getMap", "halMap")
        /\ current' = TRUE /\ mapped' = held
        /\ UNCHANGED <<held, errors>>
     \/ /\ Goto("getMap", "cleanup")
        /\ errors' = errors \cup {"getMap"}
        /\ Release({"map"}) /\ UNCHANGED mapped
  /\ UNCHANGED <<file, menu, image, acpi, pressed>>

\* HalGetMemoryMap takes the map again into a buffer nobody frees; it fails
\* without a trace.
HalGetMemoryMap ==
  /\ \/ Take("halMap", "halmap", "halGetMap", "acpi")
     \/ Goto("halGetMap", "acpi") /\ UNCHANGED <<held, errors, current>>
     \/ /\ Goto("halGetMap", "acpi")
        /\ errors' = errors \cup {"halGetMap"} /\ Release({"halmap"})
  /\ UNCHANGED <<file, menu, boot, pressed>>

\* HalFindRsdp: the first table with either id; HalGetAcpiInfo leaves the
\* address zero unless the bytes of the table sum up to zero.
HalGetAcpiInfo(tables) ==
  LET rsdp == {i \in DOMAIN tables : tables[i].guid \in {"acpi10", "acpi20"}}
  IN  IF rsdp = {} \/ tables[Min(rsdp)].checksum # 0 THEN {} ELSE {tables[Min(rsdp)]}

ReadAcpi ==
  /\ Goto("acpi", "bootInfo")
  /\ \E tables \in AcpiTables : acpi' = HalGetAcpiInfo(tables)
  /\ UNCHANGED <<file, held, errors, current, menu, image, mapped, pressed>>

\* The page of the boot information and the pages of the stack; what was
\* allocated before is freed when one of them is not to be had.
AllocateBootInfo ==
  /\ \/ Goto("bootInfo", "stack") /\ held' = held \cup {"bootinfo"}
        /\ current' = FALSE /\ UNCHANGED errors
     \/ Goto("bootInfo", "cleanup") /\ errors' = errors \cup {"bootInfo"}
        /\ Release({"map"})
  /\ UNCHANGED <<file, menu, boot, pressed>>
AllocateStack ==
  /\ \/ Goto("stack", "exit") /\ held' = held \cup {"stack"}
        /\ current' = FALSE /\ UNCHANGED errors
     \/ Goto("stack", "cleanup") /\ errors' = errors \cup {"stack"}
        /\ Release({"bootinfo", "map"})
  /\ UNCHANGED <<file, menu, boot, pressed>>

\* ExitBootServices with MapKey, behind cli.  When it is refused HalHalt stops
\* the processor: interrupts are off.
ExitBootServices ==
  /\ Goto("exit", IF current THEN "jumped" ELSE "halted")
  /\ UNCHANGED <<file, held, errors, current, menu, boot, pressed>>

-----------------------------------------------------------------------------
ReadFile ==
  \/ FsOpenVolume \/ FsOpenFile \/ FsGetFileSize \/ AllocateBuffer
  \/ FsReadFile \/ FsCloseFile \/ FsCloseVolume \/ LoadFailed

StartKernel ==
  \/ CheckMagic \/ BootMgrVerifyKernel \/ BootMgrCleanup \/ GetMemoryMap
  \/ HalGetMemoryMap \/ ReadAcpi \/ AllocateBootInfo \/ AllocateStack
  \/ ExitBootServices

Next ==
  \/ VerifySecureBoot \/ ReadFile \/ ConfigLoad \/ Countdown \/ SelectEntry
  \/ StartKernel

\* The processor keeps executing the loader, and firmware calls return.
Spec == Init /\ [][Next]_vars /\ WF_vars(Next)

-----------------------------------------------------------------------------
Handles == {"protocol", "root", "file", "info", "secure", "config", "image",
            "map", "halmap", "bootinfo", "stack"}

\* The loader's state is well formed.
TypeOK ==
  /\ loader \in {"config", "kernel"} /\ ok \in BOOLEAN
  /\ held \subseteq Handles
  /\ config.Timeout \in 0 .. DefaultTimeout
  /\ Len(config.Entries) <= MAX_BOOT_ENTRIES
  /\ image \in Kernels \cup {None}
  /\ current \in BOOLEAN /\ mapped \subseteq Handles /\ pressed \in BOOLEAN

\* On every path back to the firmware all handles are closed and all memory is
\* freed, but for the two things the code does forget: the protocol of a volume
\* that could not be opened (FsOpenVolume), and HalGetMemoryMap's buffer when
\* BootMgrBootKernel fails after it.
NothingLeaked ==
  pc = "returned" =>
    /\ held \subseteq {"protocol", "halmap"}
    /\ "protocol" \in held => "openRoot" \in errors
    /\ "halmap" \in held => errors \cap {"bootInfo", "stack"} # {}

\* What a step closes or frees is open or allocated: nothing is given back
\* twice, and the file and the volume are there while they are used.
ReleasesHeld ==
  /\ pc \in {"getInfo", "readInfo", "allocate", "read", "closeFile"}
       => {"protocol", "root", "file"} \subseteq held
  /\ pc = "closeVolume" => {"protocol", "root"} \subseteq held
  /\ pc = "readInfo" <=> "info" \in held
  /\ pc \in {"kernel", "verify", "cleanup", "mapSize", "exit"} => "image" \in held
  /\ pc \in {"getMap", "bootInfo", "stack", "exit"} => "map" \in held
  /\ pc = "stack" => "bootinfo" \in held
  /\ "file" \in held => "root" \in held

\* A kernel that is handed over to has the right magic, and if it carries a
\* signature the signature was verified.
KernelVerified ==
  pc = "exit" => image.magic /\ (image.signed => RsaVerifySha384(PublicKey))

\* What the kernel is told of its memory: the map shows as taken all that the
\* loader holds, the kernel's pages among it, but for what is allocated behind
\* the map (the second map, the boot information and the stack); and the ACPI
\* table it is given, if any, has a valid checksum.
BootInfoSound ==
  pc = "exit" =>
    /\ mapped = held \ {"halmap", "bootinfo", "stack"} /\ "image" \in mapped
    /\ \A table \in acpi : table.checksum = 0

\* The loader comes to an end: it returns, stops, or waits in the menu for a
\* user who has pressed a key.
BootSettles == <>(pc \in {"returned", "halted", "jumped", "lost"} \/ pressed)

\* The loader uses what it holds and gives it back once: nothing is used or
\* released that is not held, and a path back to the firmware leaves behind
\* only what the code forgets.
HandlesSound == TypeOK /\ ReleasesHeld /\ NothingLeaked

\* What the loader has made sure of when it calls ExitBootServices to hand over
\* to the kernel, after however many calls of the firmware that could fail.
HandOver == KernelVerified /\ BootInfoSound

\* The key ExitBootServices is called with is that of the current memory map,
\* so that the firmware accepts it and the jump to the kernel is reached.
KeyFresh == pc = "exit" => current

\* The menu offers the entries of the configuration: when the files all define
\* one and nothing failed, there is an entry to choose.
EntriesOffered ==
  /\ pc = "menu" /\ errors = {}
  /\ \A text \in Texts : Places(text, "entry") # {} /\ Places(text, "kernel") # {}
  => config.Entries # <<>>
=============================================================================
