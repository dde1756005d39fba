-------------------------- MODULE MCSymbolResolver --------------------------
EXTENDS SymbolResolver

CONSTANTS libc, libart, libx, none, nofile

MCLibs == {libc, libart, libx}

Ph(t, v, o)  == [type |-> t, vaddr |-> v, offset |-> o]
Sec(k, syms) == [kind |-> k, syms |-> syms]
Sym(n, v)    == [name |-> n, value |-> v]

\* libc has PT_PHDR; libart is linked at an address and has no PT_PHDR; the file of libx is
\* gone. libart imports l and has another, local l.
MCFiles ==
  libc :> [phoff |-> 4,
           phdrs |-> <<Ph("PT_PHDR", 4, 4), Ph("PT_LOAD", 0, 0), Ph("PT_LOAD", 40, 30)>>,
           sections |-> <<Sec("SHT_DYNSYM", <<Sym("g", 7)>>), Sec(".dynstr", <<>>),
                          Sec("SHT_SYMTAB", <<Sym("l", 9)>>), Sec(".strtab", <<>>)>>]
  @@ libart :> [phoff |-> 4,
           phdrs |-> <<Ph("PT_LOAD", 200, 0), Ph("PT_DYNAMIC", 230, 20), Ph("PT_LOAD", 240, 30)>>,
           sections |-> <<Sec("SHT_DYNSYM", <<Sym("l", 0), Sym("g", 209)>>), Sec(".dynstr", <<>>),
                          Sec("SHT_SYMTAB", <<Sym("g", 0), Sym("l", 206)>>),
                          Sec(".strtab", <<>>)>>]
  @@ libx :> nofile

\* The image name "lib" is a part of both paths.
MCMatches(image) == IF image = "lib" THEN {libc, libart} ELSE {libart}

MCLines ==
  {[start |-> 94, perm |-> "r--p", elf |-> FALSE, path |-> "font"],
   [start |-> 980, perm |-> "r-xp", elf |-> TRUE, path |-> "[vdso]"]}

=============================================================================
