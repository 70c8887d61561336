------------------------------- MODULE MCUefi -------------------------------
(* An instance of the UEFI boot loader: configurations of up to three      *)
(* lines, kernels of every kind, a digit and an arrow key, and firmware    *)
(* with no, a valid and a damaged ACPI table.                              *)
EXTENDS UefiBoot, SequencesExt

LineOf(key) == [key |-> key, value |-> "text"]
MCTexts == SeqOf({LineOf(k) : k \in {"title", "timeout", "entry", "kernel"}}, 3)
MCKernels == [magic: BOOLEAN, signed: BOOLEAN]
MCKeys == {[ScanCode |-> 0, UnicodeChar |-> 48], [ScanCode |-> 1, UnicodeChar |-> 0]}
MCAcpiTables ==
  {<<>>, <<[guid |-> "smbios", checksum |-> 0], [guid |-> "acpi20", checksum |-> 0]>>,
   <<[guid |-> "acpi10", checksum |-> 1], [guid |-> "acpi20", checksum |-> 0]>>}
\* A configuration with one entry, in the order of boot.conf.example and in the
\* form the parser wants, key=value without blanks.
OneEntry == {[i \in 1 .. 7 |-> LineOf(<<"title", "timeout", "entry", "kernel", "initrd",
                                      "args", "default">>[i])]}
=============================================================================
