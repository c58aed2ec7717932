------------------------------- MODULE Linker -------------------------------
(***************************************************************************)
(* The built-in linker (link/elf.rs, link/coff.rs, link/resolve.rs): read  *)
(* the object files, merge them one after the other, resolve undefined     *)
(* symbols, lay sections out, apply the relocations one by one, emit an    *)
(* ELF or PE image.                                                        *)
(*                                                                         *)
(* The unit of size is a word of four bytes: a cell of a section is either *)
(* content, which names the place in an object file it comes from, or a    *)
(* number that a relocation stored.  An Abs64 field takes two words; its   *)
(* value is kept in the first.  Page and Span scale 4096 and 2^32 down.    *)
(***************************************************************************)
EXTENDS Integers, Sequences, FiniteSets, SequencesExt

CONSTANTS Links,     \* the link jobs: [files, os, entry], os "linux" or
                     \* "windows", entry the name asked for (--entry)
          Page,      \* words of a page (0x1000 bytes)
          MinAlign,  \* words of the least alignment of a section (16 bytes)
          Span       \* 2^32 bytes in words: a 32-bit field holds 0..Span-1

\* What a composition assumes of them.
ScaleAssumption ==
    /\ Page \in Nat \ {0} /\ MinAlign \in 1..Page /\ Span \in Nat \ {0}
    /\ Span > 2 * Page
\* What a compiler emits: the words of a section are all in the file, or none.
IsSection(s) ==
    /\ s.size \in Nat /\ s.align \in Nat
    /\ s.data \in Seq({s.data[k] : k \in DOMAIN s.data})
    /\ s.data = <<>> \/ Len(s.data) = s.size
LinksAssumption ==
    \A link \in Links :
        /\ link.files \in Seq({link.files[i] : i \in DOMAIN link.files})
        /\ \A i \in DOMAIN link.files :
              LET f == link.files[i]
              IN /\ f.sections \in Seq({f.sections[k] : k \in DOMAIN f.sections})
                 /\ f.symbols \in Seq({f.symbols[k] : k \in DOMAIN f.symbols})
                 /\ f.relocs \in Seq({f.relocs[k] : k \in DOMAIN f.relocs})
                 /\ \A k \in DOMAIN f.sections : IsSection(f.sections[k])

VARIABLES job,     \* the link job
          phase,   \* the step that is next, "done" or "failed"
          out,     \* the merged object: sections, symbols, relocs
          placed,  \* for each object merged so far and each of its sections:
                   \* the output section and the offset it was put at
          secVa,   \* address of each output section (0: not loaded)
          order,   \* output sections in the order of their addresses
          applied, \* relocations applied so far
          image    \* what the loader maps: segments, entry address

linker == <<job, phase, out, placed, secVa, order, applied, image>>

NoSection == 0                       \* Option::None of a section index
AlignUp(v, a) == IF a = 0 THEN v ELSE ((v + a - 1) \div a) * a
LargerOf(a, b) == IF a >= b THEN a ELSE b
FitU32(v) == v % Span
FitI32(v) == ((v + Span \div 2) % Span) - Span \div 2
NoImage == [segs |-> <<>>, entry |-> 0]

-----------------------------------------------------------------------------
(* Reading object files.  A file has sections [name, type, flags, data,    *)
(* align, size], symbols [name, sec, value, bind, aux] and relocations     *)
(* [sec, off, sym, addend, want, type]; `sec' of a symbol is its section,  *)
(* 0 if undefined and -1 if absolute or common.                            *)

ElfSecKind(s) ==
    IF s.type = "nobits" THEN "bss"
    ELSE CASE s.name = ".text"   -> "text"
           [] s.name = ".rodata" -> "rodata"
           [] s.name = ".data"   -> "data"
           [] s.name = ".bss"    -> "bss"
           [] OTHER -> IF "x" \in s.flags THEN "text"
                       ELSE IF "w" \notin s.flags THEN "other"
                       ELSE IF "a" \in s.flags THEN "data" ELSE "rodata"

CoffSecKind(s) ==
    IF s.name = ".text" \/ ("x" \in s.flags /\ s.name # ".data") THEN "text"
    ELSE IF s.name = ".rodata" THEN "rodata"
    ELSE IF s.name = ".bss" \/ s.type = "nobits" THEN "bss"
    ELSE IF s.name = ".data" THEN "data" ELSE "other"

\* What map_reloc makes of the relocation types of an architecture; others
\* are skipped.  "rel32_4" stands for REL32_1 to REL32_5, whose field is
\* followed by that many bytes of the instruction (four: one word).
RelocKinds(format, arch) ==
    CASE arch = "x86_64" /\ format = "elf" ->
            [abs64 |-> "abs64", abs32 |-> "abs32", abs32s |-> "abs32s",
             rel32 |-> "rel32", pc64 |-> "rel64"]
      [] arch = "x86_64" /\ format = "coff" ->
            [abs64 |-> "abs64", abs32 |-> "abs32", addr32nb |-> "addr32nb",
             rel32 |-> "rel32", rel32_4 |-> "rel32"]
      [] arch = "aarch64" /\ format = "elf" ->
            [abs64 |-> "abs64", abs32 |-> "abs32", prel32 |-> "rel32",
             adrp |-> "adrp", lo12 |-> "lo12", call26 |-> "call26"]
      [] arch = "aarch64" /\ format = "coff" ->
            [abs64 |-> "abs64", addr32nb |-> "addr32nb", call26 |-> "call26"]
RelocKind(format, arch, type) ==
    IF type \in DOMAIN RelocKinds(format, arch) THEN RelocKinds(format, arch)[type] ELSE "unknown"

\* Sections that become sections of the object; the tables of an ELF file
\* (symbols, strings, relocations) do not, so the others move up.
Kept(f) ==
    {i \in DOMAIN f.sections :
        f.format = "coff" \/ f.sections[i].type \in {"progbits", "nobits"}}
Ours(f, i) == IF i \in Kept(f) THEN Cardinality({j \in Kept(f) : j <= i}) ELSE NoSection

\* Both readers take the size of a section without data from its header:
\* VirtualSize in COFF, which is 0 in an object file.
ParsedSections(f) ==
    [k \in 1..Cardinality(Kept(f)) |->
        LET i == CHOOSE j \in Kept(f) : Ours(f, j) = k
            s == f.sections[i]
            kind == IF f.format = "elf" THEN ElfSecKind(s) ELSE CoffSecKind(s)
        IN [name |-> s.name, kind |-> kind, data |-> s.data,
            align |-> IF f.format = "elf" THEN LargerOf(s.align, 1) ELSE MinAlign,
            size |-> IF f.format = "elf" THEN s.size ELSE Len(s.data)]]

\* A COFF symbol is followed by its auxiliary entries, which count in the
\* numbering that relocations use; `slot' is that number.
Slot(f, k) ==
    IF f.format = "elf" THEN k
    ELSE k + FoldLeft(LAMBDA n, s : n + s.aux, 0, SubSeq(f.symbols, 1, k - 1))
ParsedSymbols(f) ==
    [k \in DOMAIN f.symbols |->
        LET s == f.symbols[k]
        IN [name |-> s.name, value |-> s.value, bind |-> s.bind,
            section |-> IF s.sec <= 0 THEN NoSection ELSE Ours(f, s.sec)]]

\* ELF relocations bring their addend; the addend of a COFF relocation is in
\* the section's bytes, which are not read.
AddendRead(f, r) ==
    IF f.format = "elf" THEN r.addend ELSE IF r.type = "rel32_4" THEN -1 ELSE 0
ParsedRelocs(f) ==
    LET kind(r) == RelocKind(f.format, f.arch, r.type)
        usable(r) == /\ Ours(f, r.sec) # NoSection /\ kind(r) # "unknown"
                     /\ \E k \in DOMAIN f.symbols : Slot(f, k) = r.sym
        parsed(r) == [section |-> Ours(f, r.sec), offset |-> r.off,
                      symbol |-> CHOOSE k \in DOMAIN f.symbols : Slot(f, k) = r.sym,
                      addend |-> AddendRead(f, r),
                      kind |-> kind(r)]
        found[i \in 0..Len(f.relocs)] ==
            IF i = 0 THEN <<>>
            ELSE IF usable(f.relocs[i]) THEN Append(found[i - 1], parsed(f.relocs[i]))
            ELSE found[i - 1]
    IN found[Len(f.relocs)]

Parsed(f) == [arch |-> f.arch, sections |-> ParsedSections(f),
              symbols |-> ParsedSymbols(f), relocs |-> ParsedRelocs(f)]
Objects == [i \in DOMAIN job.files |-> Parsed(job.files[i])]
-----------------------------------------------------------------------------
(* Merging: one object per step.                                           *)

Zeros(n) == [k \in 1..n |-> <<"zero">>]

\* (mutant) the place of a contribution is the end of the first one of its section
PutSectionSecond(secs, s) ==
    LET dst == SelectInSeq(secs, LAMBDA t : t.name = s.name)
        first == SelectInSeq(secs[dst].data, LAMBDA c : c[1] # secs[dst].data[1][1])
    IN IF dst = 0
       THEN [secs |-> Append(secs, [s EXCEPT !.size = LargerOf(s.size, Len(s.data))]),
             at |-> [sec |-> Len(secs) + 1, off |-> 0]]
       ELSE [secs |-> [secs EXCEPT ![dst].data = @ \o s.data, ![dst].size = @ + Len(s.data)],
             at |-> [sec |-> dst, off |-> IF first = 0 THEN Len(secs[dst].data) ELSE first - 1]]
\* The output sections after section s, and where s was put.
PutSection(secs, s) ==
    LET dst == SelectInSeq(secs, LAMBDA t : t.name = s.name)
    IN IF dst = 0
       THEN [secs |-> Append(secs, [s EXCEPT !.size = LargerOf(s.size, Len(s.data))]),
             at |-> [sec |-> Len(secs) + 1, off |-> 0]]
       ELSE LET t     == secs[dst]
                align == LargerOf(t.align, s.align)
                off   == AlignUp(Len(t.data), align)
                data  == t.data \o Zeros(off - Len(t.data)) \o s.data
                size  == IF s.kind = "bss" THEN LargerOf(t.size, off + s.size)
                         ELSE Len(data)
            IN [secs |-> [secs EXCEPT ![dst] = [t EXCEPT !.data = data, !.size = size,
                                                         !.align = align]],
                at |-> [sec |-> dst, off |-> off]]

PutSections(secs, sections) ==
    LET put[k \in 0..Len(sections)] ==
            IF k = 0 THEN [secs |-> secs, at |-> <<>>]
            ELSE LET p == PutSection(put[k - 1].secs, sections[k])
                 IN [secs |-> p.secs, at |-> Append(put[k - 1].at, p.at)]
    IN put[Len(sections)]

\* A symbol and a relocation of an object, at the places of its sections.
MovedSymbol(s, at) ==
    IF s.section = NoSection THEN s
    ELSE [s EXCEPT !.section = at[s.section].sec, !.value = s.value + at[s.section].off]
MovedReloc(r, at, base) ==
    [r EXCEPT !.section = at[r.section].sec, !.offset = r.offset + at[r.section].off,
              !.symbol = base + r.symbol]

MergeObject ==
    /\ phase = "merge" /\ Len(placed) < Len(Objects)
    /\ LET o    == Objects[Len(placed) + 1]
           put  == PutSections(out.sections, o.sections)
           syms == [k \in DOMAIN o.symbols |-> MovedSymbol(o.symbols[k], put.at)]
           rels == [k \in DOMAIN o.relocs |->
                        MovedReloc(o.relocs[k], put.at, Len(out.symbols))]
       IN IF o.arch # Objects[1].arch
          THEN phase' = "failed" /\ UNCHANGED <<out, placed>>
          ELSE /\ out' = [sections |-> put.secs,
                          symbols  |-> out.symbols \o syms,
                          relocs   |-> out.relocs \o rels]
               /\ placed' = Append(placed, put.at)
               /\ UNCHANGED phase
    /\ UNCHANGED <<job, secVa, order, applied, image>>

\* The symbol that defines a name: the first one that is not local.
Defines(s, name) == s.section # NoSection /\ s.bind # "local" /\ s.name = name
Definition(symbols, name) == SelectInSeq(symbols, LAMBDA s : Defines(s, name))

Resolve ==
    /\ phase = "merge" /\ Len(placed) = Len(Objects)
    /\ LET syms == out.symbols
           copy(s) == LET d == Definition(syms, s.name)
                      IN IF s.section # NoSection \/ s.name = "" \/ d = 0 THEN s
                         ELSE [s EXCEPT !.section = syms[d].section,
                                        !.value = syms[d].value, !.bind = syms[d].bind]
       IN out' = [out EXCEPT !.symbols = [k \in DOMAIN syms |-> copy(syms[k])]]
    /\ phase' = IF Objects = <<>> THEN "failed" ELSE "layout"
    /\ UNCHANGED <<job, placed, secVa, order, applied, image>>
-----------------------------------------------------------------------------
(* Layout: text, rodata, data, bss, others; each section on its own page.  *)

ImageBase == Span                    \* 0x140000000: above what 32 bits reach
DefaultBase == IF job.os = "windows" THEN ImageBase + Page ELSE Page

\* Names, by their beginnings, of sections that are not loaded.
NotLoaded == {".debug", ".comment", ".note", ".symtab", ".strtab", ".reloc"}
\* The sections of a kind that are loaded, in their order.
OfKind(secs, kind) ==
    LET found[i \in 0..Len(secs)] ==
            IF i = 0 THEN <<>>
            ELSE IF secs[i].kind = kind /\ secs[i].name \notin NotLoaded
                 THEN Append(found[i - 1], i) ELSE found[i - 1]
    IN found[Len(secs)]
Loaded(secs) == OfKind(secs, "text") \o OfKind(secs, "rodata") \o OfKind(secs, "data")
                \o OfKind(secs, "bss") \o OfKind(secs, "other")

VaSizeOfData(s) == LargerOf(Len(s.data), 1)   \* (mutant) forgets size of .bss
VaSize(s) == LargerOf(LargerOf(s.size, Len(s.data)), 1)

\* Each of the loaded sections starts behind the page that the one before ends on.
Addresses(secs, loaded, base) ==
    LET start(va, n) == AlignUp(va, LargerOf(secs[loaded[n]].align, MinAlign))
        next[n \in 0..Len(loaded)] ==
            IF n = 0 THEN AlignUp(base, Page)
            ELSE AlignUp(start(next[n - 1], n) + VaSize(secs[loaded[n]]), Page)
    IN [i \in DOMAIN secs |->
            IF \E n \in DOMAIN loaded : loaded[n] = i
            THEN LET n == CHOOSE n \in DOMAIN loaded : loaded[n] = i IN start(next[n - 1], n)
            ELSE 0]

Layout ==
    /\ phase = "layout"
    /\ LET secs == out.sections
           pad(s) == IF s.kind = "bss" \/ s.name \in NotLoaded THEN s
                     ELSE [s EXCEPT !.data = @ \o Zeros(VaSize(s) - Len(@))]
       IN /\ order' = Loaded(secs)
          /\ secVa' = Addresses(secs, Loaded(secs), DefaultBase)
          /\ out' = [out EXCEPT !.sections = [i \in DOMAIN secs |-> pad(secs[i])]]
    /\ phase' = "relocate"
    /\ UNCHANGED <<job, placed, applied, image>>

SymAddr(s) == IF s.section = NoSection THEN s.value ELSE secVa[s.section] + s.value
Undefined(s) == s.section = NoSection /\ s.name # ""

\* The number a relocation stores, and whether it refuses to.
Field(kind, s, p, addend) ==
    CASE kind = "abs64" -> s + addend
      [] kind \in {"abs32", "abs32s", "addr32nb"} -> FitU32(s + addend)
      [] kind = "rel32" -> FitI32(s + addend - p)
      [] kind = "rel64" -> s + addend - p
      [] kind = "call26" -> s + addend - p
      [] kind = "adrp" -> ((s \div Page) * Page + addend - (p \div Page) * Page) \div Page
      [] kind = "lo12" -> (s + addend) % Page
OutOfRange(kind, v) ==
    kind = "call26" /\ v \notin -(Span \div 4)..(Span \div 4 - 1)

Width(kind) == IF kind \in {"abs64", "rel64"} THEN 2 ELSE 1
FieldOf(r) == r.offset + 1 .. r.offset + Width(r.kind)

Relocate ==
    /\ phase = "relocate" /\ applied < Len(out.relocs)
    /\ LET r    == out.relocs[applied + 1]
           s    == out.symbols[r.symbol]
           sec  == out.sections[r.section]
           val  == Field(r.kind, SymAddr(s), secVa[r.section] + r.offset, r.addend)
           bad  == \/ Undefined(s) \/ r.offset + Width(r.kind) > Len(sec.data)
                   \/ OutOfRange(r.kind, val)
           cell(k) == IF k \notin FieldOf(r) THEN sec.data[k]
                      ELSE IF k = r.offset + 1 THEN <<"ref", val>> ELSE <<"high">>
       IN IF bad THEN phase' = "failed" /\ UNCHANGED <<out, applied>>
          ELSE /\ out' = [out EXCEPT !.sections[r.section].data =
                              [k \in DOMAIN sec.data |-> cell(k)]]
               /\ applied' = applied + 1
               /\ UNCHANGED phase
    /\ UNCHANGED <<job, placed, secVa, order, image>>

\* One blob per kind: each section is preceded by padding up to its address
\* (none if the blob is already longer).
Blob(kinds, pad) ==
    LET add(b, i) ==
            LET s  == out.sections[i]
                va == IF b.data = <<>> THEN secVa[i] ELSE b.va
                gap == LargerOf(secVa[i] - va - Len(b.data), 0)
                body == IF s.kind = "bss" THEN Zeros(s.size) ELSE s.data
            IN [va |-> va, data |-> b.data \o [k \in 1..gap |-> pad] \o body]
    IN FoldLeft(add, [va |-> 0, data |-> <<>>],
                SelectSeq(order, LAMBDA i : out.sections[i].kind \in kinds))

Text   == Blob({"text"}, <<"nop">>)
Rodata == Blob({"rodata", "other"}, <<"zero">>)
Data   == Blob({"data", "bss"}, <<"zero">>)

\* write_pe64 places the blobs one after the other, whatever their addresses.
PeSegments ==
    LET blobs == SelectSeq(<<Text, Rodata, Data>>, LAMBDA b : b.data # <<>>)
        next(acc, b) == [va |-> acc.va + AlignUp(LargerOf(Len(b.data), 1), Page),
                         segs |-> Append(acc.segs, [b EXCEPT !.va = acc.va])]
    IN FoldLeft(next, [va |-> ImageBase + Page, segs |-> <<>>], blobs).segs
ElfSegments == SelectSeq(<<Text, Rodata, Data>>, LAMBDA b : b.data # <<>>)

\* The first symbol, defined or not, of the first of these names that has one.
EntryNames == <<job.entry, "_start", "main", "efi_main">>
EntryIndex ==
    LET of(name) == SelectInSeq(out.symbols, LAMBDA s : s.name = name)
        k == SelectInSeq(EntryNames, LAMBDA name : of(name) # 0)
    IN IF k = 0 THEN 0 ELSE of(EntryNames[k])

Emit ==
    /\ phase = "relocate" /\ applied = Len(out.relocs)
    /\ IF EntryIndex = 0 \/ Undefined(out.symbols[EntryIndex])
       THEN phase' = "failed" /\ UNCHANGED image
       ELSE /\ phase' = "done"
            /\ image' = [segs |-> IF job.os = "windows" THEN PeSegments ELSE ElfSegments,
                         entry |-> SymAddr(out.symbols[EntryIndex])]
    /\ UNCHANGED <<job, out, placed, secVa, order, applied>>

NothingLinked ==
    /\ phase = "merge" /\ out = [sections |-> <<>>, symbols |-> <<>>, relocs |-> <<>>]
    /\ placed = <<>> /\ secVa = <<>> /\ order = <<>> /\ applied = 0
    /\ image = NoImage
LinkerInit == job \in Links /\ NothingLinked

LinkerNext == MergeObject \/ Resolve \/ Layout \/ Relocate \/ Emit

LinkerSpec == LinkerInit /\ [][LinkerNext]_linker
-----------------------------------------------------------------------------
(* What the processor and the loader make of the image (external).         *)

Covers(seg, a) == a \in seg.va .. seg.va + Len(seg.data) - 1
\* The word at an address; of two segments the one mapped last counts.
Memory(a) ==
    LET k == SelectLastInSeq(image.segs, LAMBDA seg : Covers(seg, a))
    IN IF k = 0 THEN <<"unmapped">> ELSE image.segs[k].data[a - image.segs[k].va + 1]

\* Where the section of an object file ended up, in the linker's own books.
SectionVa(i, s) == LET p == placed[i][Ours(job.files[i], s)] IN secVa[p.sec] + p.off

\* The address that a field of a relocation type at address p refers to.
Followed(type, p, v) ==
    CASE type \in {"abs64", "abs32", "abs32s"} -> v
      [] type = "addr32nb" -> ImageBase + v
      [] type = "rel32"    -> p + 1 + v      \* relative to the next instruction
      [] type = "rel32_4"  -> p + 2 + v
      [] type \in {"pc64", "prel32", "call26"} -> p + v
      [] type = "adrp"     -> (p \div Page + v) * Page
      [] type = "lo12"     -> v
\* The part of an address that the field is responsible for.
Part(type, a) == CASE type = "adrp" -> (a \div Page) * Page
                   [] type = "lo12" -> a % Page [] OTHER -> a

Definers(name) ==
    UNION {{<<i, k>> : k \in {k \in DOMAIN job.files[i].symbols :
                LET s == job.files[i].symbols[k]
                IN s.name = name /\ s.sec > 0 /\ s.bind # "local"}} : i \in DOMAIN job.files}
Precedes(d, e) == d[1] < e[1] \/ (d[1] = e[1] /\ d[2] < e[2])
BindOf(d) == job.files[d[1]].symbols[d[2]].bind
\* The definition a name stands for: the first strong one, if there is one.
Preferred(name) ==
    LET strong == {d \in Definers(name) : BindOf(d) = "global"}
        pool == IF strong # {} THEN strong ELSE Definers(name)
    IN CHOOSE d \in pool : \A e \in pool : d = e \/ Precedes(d, e)
\* A weak definition comes before the strong one.
Misled(name) == \E d \in Definers(name) :
                    BindOf(d) = "weak" /\ BindOf(Preferred(name)) = "global"
                    /\ Precedes(d, Preferred(name))

SymbolOf(f, r) == CHOOSE k \in DOMAIN f.symbols : Slot(f, k) = r.sym
\* The address that relocation r of file i is meant to refer to.
Meant(i, r) ==
    LET f == job.files[i]
        k == SymbolOf(f, r)
        d == IF f.symbols[k].sec > 0 THEN <<i, k>> ELSE Preferred(f.symbols[k].name)
        s == job.files[d[1]].symbols[d[2]]
    IN SectionVa(d[1], s.sec) + s.value + r.want
(* Nothing an object brings is lost.  The words that a contribution brings  *)
(* stay where merge() put them until a relocation writes into them, what is *)
(* put into the section after them lies behind them, and the loaded         *)
(* sections share no address.  A symbol is moved with its section, and an   *)
(* undefined one takes the place of a definition of its name that is not    *)
(* local, if there is one; a relocation is moved with its section and goes  *)
(* on naming the symbol it named.                                           *)
Extent(p, s) == p.off .. p.off + s.size - 1
Written(sec, k) ==
    \E n \in 1..applied : out.relocs[n].section = sec /\ k \in FieldOf(out.relocs[n])
ContentsKept ==
    LET objects == Objects
    IN /\ phase \notin {"merge", "failed"} => DOMAIN placed = DOMAIN objects
       /\ \A i \in DOMAIN placed :
             /\ DOMAIN placed[i] = DOMAIN objects[i].sections
             /\ \A a \in DOMAIN placed[i] :
                   LET p == placed[i][a]  words == objects[i].sections[a].data
                   IN \A k \in DOMAIN words : \/ out.sections[p.sec].data[p.off + k] = words[k]
                                             \/ Written(p.sec, p.off + k)
PlacesApart ==
    LET objects == Objects
    IN \A i, j \in DOMAIN placed : \A a \in DOMAIN placed[i], b \in DOMAIN placed[j] :
          LET p == placed[i][a]  s == objects[i].sections[a]
              q == placed[j][b]  t == objects[j].sections[b]
          IN Precedes(<<i, a>>, <<j, b>>) /\ p.sec = q.sec /\ s.data # <<>> =>
                Extent(p, s) \cap Extent(q, t) = {}
SectionsApart ==
    \A m, n \in DOMAIN order :
        m < n => secVa[order[m]] + VaSize(out.sections[order[m]]) <= secVa[order[n]]
\* The entries of a table in the objects before the i-th one.
EntriesBefore(objects, table, i) ==
    LET n[k \in 0..Len(objects)] == IF k = 0 THEN 0 ELSE n[k - 1] + Len(objects[k][table])
    IN n[i - 1]
IsMoved(t, s, p) == t.section = p.sec /\ t.value = s.value + p.off /\ t.bind = s.bind
SymbolsMoved ==
    LET objects == Objects
    IN \A i \in DOMAIN placed : \A k \in DOMAIN objects[i].symbols :
          LET s == objects[i].symbols[k]
              t == out.symbols[EntriesBefore(objects, "symbols", i) + k]
          IN /\ t.name = s.name
             /\ s.section # NoSection => IsMoved(t, s, placed[i][s.section])
             /\ s.section = NoSection /\ t # s =>
                   \E j \in DOMAIN placed : \E m \in DOMAIN objects[j].symbols :
                      LET d == objects[j].symbols[m]
                      IN Defines(d, s.name) /\ IsMoved(t, d, placed[j][d.section])
             /\ s.section = NoSection /\ t = s /\ s.name # "" /\ phase \notin {"merge", "failed"} =>
                   \A j \in DOMAIN placed : \A m \in DOMAIN objects[j].symbols :
                      ~Defines(objects[j].symbols[m], s.name)
RelocsMoved ==
    LET objects == Objects
    IN \A i \in DOMAIN placed : \A k \in DOMAIN objects[i].relocs :
          LET r == objects[i].relocs[k]
              t == out.relocs[EntriesBefore(objects, "relocs", i) + k]
          IN /\ t.section = placed[i][r.section].sec
             /\ t.offset = r.offset + placed[i][r.section].off
             /\ t.symbol = EntriesBefore(objects, "symbols", i) + r.symbol
             /\ t.addend = r.addend /\ t.kind = r.kind
ContributionsKept == ContentsKept /\ PlacesApart /\ SectionsApart /\ SymbolsMoved /\ RelocsMoved

(* Each word of each section, patched or not, is loaded at the address that *)
(* the layout gave it and the relocations assume.                           *)
ImageAsLaidOut ==
    phase = "done" =>
        \A n \in DOMAIN order : LET s == out.sections[order[n]]
            IN \A k \in DOMAIN s.data : Memory(secVa[order[n]] + k - 1) = s.data[k]
\* A section of another kind lies behind data in memory and before it in a PE
\* image: write_pe64 does not know of the gap this leaves in the addresses.
OtherBehindData == job.os = "windows" /\
    \E a \in DOMAIN order, b \in DOMAIN order :
        /\ out.sections[order[a]].kind = "other"
        /\ out.sections[order[b]].kind \in {"data", "bss"}

Own(i, r) == job.files[i].symbols[SymbolOf(job.files[i], r)]
MisledRef(i, r) == Own(i, r).sec <= 0 /\ Misled(Own(i, r).name)
\* Read as something: its section is kept and its type known.
Known(i, r) == LET f == job.files[i]
               IN Ours(f, r.sec) # NoSection /\ RelocKind(f.format, f.arch, r.type) # "unknown"
Reaches(i, r) ==
    LET f    == job.files[i]
        p    == SectionVa(i, r.sec) + r.off
        sec  == out.sections[placed[i][Ours(f, r.sec)].sec]
        cell == sec.data[placed[i][Ours(f, r.sec)].off + r.off + 1]
    IN Followed(r.type, p, cell[2]) = Part(r.type, Meant(i, r))
\* References whose address their field can hold: 32 bits, pages and the rest.
FieldHolds(i, r) ==
    /\ r.type \in {"abs32", "abs32s"} => Meant(i, r) \in 0..Span - 1
    /\ r.type = "adrp" => Meant(i, r) \div Page = (Meant(i, r) - r.want) \div Page
    /\ r.type # "addr32nb"
\* A COFF relocation that needs nothing from the bytes of its section.
AddendKnown(i, r) ==
    job.files[i].format = "coff" => r.want = 0 /\ r.type \notin {"rel32", "rel32_4"}
ReferencesReach ==
    phase = "done" =>
        \A i \in DOMAIN job.files : \A n \in DOMAIN job.files[i].relocs :
            LET r == job.files[i].relocs[n]
            IN Known(i, r) /\ FieldHolds(i, r) /\ AddendKnown(i, r) /\ ~MisledRef(i, r) => Reaches(i, r)

\* The name of the entry symbol: the first that any object mentions.
Mentioned(name) == \E i \in DOMAIN job.files : \E k \in DOMAIN job.files[i].symbols :
                       job.files[i].symbols[k].name = name
EntryName == LET k == SelectInSeq(EntryNames, Mentioned)
             IN IF k = 0 THEN job.entry ELSE EntryNames[k]
EntersAtEntry ==
    phase = "done" /\ ~Misled(EntryName) =>
        LET d == Preferred(EntryName)
            s == job.files[d[1]].symbols[d[2]]
        IN image.entry = SectionVa(d[1], s.sec) + s.value

\* Reasons to refuse: objects of two architectures, a name nobody defines, a
\* branch too long for its field, no entry symbol.
Refusable ==
    \/ \E i \in DOMAIN job.files : job.files[i].arch # job.files[1].arch
    \/ \E i \in DOMAIN job.files : \E n \in DOMAIN job.files[i].relocs :
          LET r == job.files[i].relocs[n]
          IN \/ Own(i, r).sec <= 0 /\ Definers(Own(i, r).name) = {}
             \/ r.type = "call26" /\ order # <<>>
                /\ \/ MisledRef(i, r) \/ ~AddendKnown(i, r)
                   \/ OutOfRange("call26", Meant(i, r) - SectionVa(i, r.sec) - r.off)
    \/ Definers(EntryName) = {}

(* What the linker writes is what the objects say.  Every word is loaded    *)
(* where the relocations assume it; every reference whose address its field *)
(* can hold reaches the definition it is meant to; execution starts at the  *)
(* entry symbol; and a link that fails has a reason to.  Out of its reach   *)
(* are four kinds of input that the code gets wrong: a section of another   *)
(* kind behind data in a PE image, a weak definition before the strong one, *)
(* addresses too long for a 32-bit field, addends of COFF references.       *)
LinkedAsWritten ==
    /\ ~OtherBehindData => ImageAsLaidOut
    /\ ReferencesReach
    /\ EntersAtEntry
    /\ phase = "failed" => Refusable

(* resolve.rs:143, "Resolve duplicate globals: keep first strong            *)
(* definition": an undefined name that has a strong definition is bound to  *)
(* the first of them.                                                       *)
StrongDefinitionWins ==
    phase \notin {"merge", "failed"} =>
        \A i \in DOMAIN placed : \A k \in DOMAIN Objects[i].symbols :
            LET s == Objects[i].symbols[k]
                t == out.symbols[EntriesBefore(Objects, "symbols", i) + k]
                strong == {d \in Definers(s.name) : BindOf(d) = "global"}
                p == Preferred(s.name)
                d == Objects[p[1]].symbols[p[2]]
            IN s.section = NoSection /\ strong # {} => IsMoved(t, d, placed[p[1]][d.section])
=============================================================================
