------------------------------ MODULE MCLinker ------------------------------
(***************************************************************************)
(* Link jobs for Linker: a main object and one or two others, in either    *)
(* format, whose sections are cut to fit their pages tightly or not.       *)
(***************************************************************************)
EXTENDS Linker

LkPage == 4
LkMinAlign == 2
LkSpan == 64

\* Content of section s of object o: each word names its place.
Words(o, s, n) == [k \in 1..n |-> <<o, s, k>>]
Section(o, name, n, align) ==
    [name |-> name, type |-> IF name = ".bss" THEN "nobits"
                             ELSE IF name = ".symtab" THEN "symtab" ELSE "progbits",
     flags |-> CASE name = ".text" -> {"a", "x"} [] name \in {".data", ".bss", ".init_array"} -> {"a", "w"}
                 [] OTHER -> {"a"},
     data |-> IF name = ".bss" THEN <<>> ELSE Words(o, name, n),
     align |-> align, size |-> n]
Symbol(name, sec, value, bind, aux) ==
    [name |-> name, sec |-> sec, value |-> value, bind |-> bind, aux |-> aux]
Ref(sec, off, sym, want, type) ==
    [sec |-> sec, off |-> off, sym |-> sym, want |-> want, type |-> type,
     addend |-> IF type = "rel32" THEN want - 1 ELSE want]

\* Main: code that refers to f, and possibly data that does and a .bss. The
\* table in front moves the sections of an ELF file up by one.
MainFile(format, arch, extra, type, want, start) ==
    LET tail == IF extra = "none" THEN <<>> ELSE <<Section(1, extra, 2, 2)>>
        from == IF type = "abs64" /\ extra = ".data" THEN 3 ELSE 2
    IN [format |-> format, arch |-> arch,
        sections |-> <<Section(1, IF format = "elf" THEN ".symtab" ELSE ".debug", 1, 1), Section(1, ".text", 3, 2)>> \o tail,
        symbols |-> <<Symbol(start, 2, 1, "global", 1), Symbol("f", 0, 0, "global", 0)>>,
        relocs |-> <<Ref(from, IF from = 3 THEN 0 ELSE 1,
                         IF format = "elf" THEN 2 ELSE 3, want, type)>>]
\* A library object that defines f in its last section, and refers to it.
LibFile(o, format, arch, name, n, bind) ==
    [format |-> format, arch |-> arch,
     sections |-> <<Section(o, ".text", 3, 4)>> \o
                  (IF name = ".text" THEN <<>> ELSE <<Section(o, name, n, 4)>>),
     symbols |-> <<Symbol("f", IF name = ".text" THEN 1 ELSE 2, 1, bind, 0)>>,
     relocs |-> IF name = ".text" /\ arch = "x86_64"
                THEN <<Ref(1, 0, 1, 0, "abs64")>> ELSE <<>>]

TypesOf(format, arch) ==
    CASE format = "elf" /\ arch = "x86_64"   -> {"abs64", "abs32", "rel32", "abs32s", "pc64"}
      [] format = "coff" /\ arch = "x86_64"  -> {"abs64", "abs32", "rel32", "rel32_4"}
      [] format = "elf" /\ arch = "aarch64"  -> {"abs64", "call26", "adrp", "lo12", "prel32"}
      [] format = "coff" /\ arch = "aarch64" -> {"abs64", "call26", "addr32nb"}
Bodies == {".text", ".data", ".bss", ".eh_frame"}
Libs == {<<LibFile(2, "elf", arch, name, 5, bind)>> :
             arch \in {"x86_64", "aarch64"}, name \in Bodies, bind \in {"global", "weak", "local"}}
        \cup {<<LibFile(2, "elf", arch, ".data", 2, "weak"), LibFile(3, "coff", arch, name, 1, "global")>> :
                  arch \in {"x86_64", "aarch64"}, name \in {".text", ".data", ".bss"}}

\* The names of main's own symbol and of the entry that is asked for.
Starts(extra, type) ==
    IF extra = "none" /\ type = "abs64"
    THEN {<<"_start", "_start">>, <<"_start", "f">>, <<"main", "zz">>, <<"efi_main", "zz">>}
    ELSE {<<"_start", "_start">>}
JobsOf(format, os, arch, extra, type) ==
    {[files |-> <<MainFile(format, arch, extra, type, want, start[1])>> \o libs,
      os |-> os, entry |-> start[2]] :
        want \in {0, 1}, start \in Starts(extra, type),
        libs \in {l \in Libs : l[1].arch = arch}
                 \cup {<<LibFile(2, "elf", "aarch64", ".text", 2, "global")>>}}
LinkJobs ==
    UNION {UNION {JobsOf(fo[1], fo[2], arch, extra, type) : type \in TypesOf(fo[1], arch)} :
               fo \in {<<"elf", "linux">>, <<"coff", "windows">>, <<"elf", "windows">>},
               arch \in {"x86_64", "aarch64"},
               extra \in {"none", ".text", ".data", ".bss", ".eh_frame"}}
=============================================================================
