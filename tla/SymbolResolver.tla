--------------------------- MODULE SymbolResolver ---------------------------
(***************************************************************************)
(* DobbySymbolResolver for ELF: dlsym first, then the modules found in     *)
(* /proc/self/maps, whose files are mapped and searched.  The vector of    *)
(* modules is static and never cleared.  Meanwhile other threads load and  *)
(* unload libraries.                                                       *)
(***************************************************************************)
EXTENDS Integers, SequencesExt

CONSTANTS Libs,          \* paths of libraries
          Bases,         \* addresses a library can be loaded at: its header, its data follow
          Lines,         \* further lines of /proc/self/maps: [start, perm, elf, path]
          Symbols,
          Images,        \* image names a caller may ask for, with NoImage
          NoImage,
          Matches(_),    \* the paths an image name is a part of (strstr)
          Files,         \* the ELF file of each path, NoFile when it cannot be mapped
          NoFile,
          Global,        \* libraries in the scope of dlsym(RTLD_DEFAULT, ...)
          MaxLoads,      \* bound on the libraries loaded in a behaviour
          MaxModules     \* no call begins with a longer list of modules

ASSUME LibsAssumption ==
  /\ IsFiniteSet(Libs) /\ Global \subseteq Libs
  /\ Bases \subseteq Nat \ {0}
  /\ Symbols # {}
\* A process has mappings of its own; no two mappings have one address.
ASSUME LinesAssumption ==
  /\ IsFiniteSet(Lines) /\ Lines # {}
  /\ \A m \in Lines : m.start \in Nat /\ m.path \notin Libs
  /\ \A m, n \in Lines : m.start = n.start => m = n
  /\ \A b \in Bases : b + 1 \notin Bases /\ \A m \in Lines : m.start \notin {b, b + 1}

VARIABLES loaded,        \* the address of each library's header, 0 when not loaded
          ever,          \* pairs <<path, address>> that have been loaded
          unloads,       \* libraries unloaded since the call began
          modules,       \* static vector of RuntimeModule
          lines,         \* what is left of the maps to read
          todo,          \* what is left of the copy of modules to search
          query          \* [phase, image, symbol, result, kept]

resolverVars == <<loaded, ever, unloads, modules, lines, todo, query>>

------------------------------------------------------------------------------
(* The ELF file: [phoff, phdrs, sections].  A section of symbols is given    *)
(* with its symbols [name, value].                                          *)

FileMem == 1000     \* where mmap puts a file

\* Mutant: every PT_LOAD sets the bias.
load_bias_EveryLoad(f) ==
  LET bias[i \in 0..Len(f.phdrs)] ==
        CASE i = 0 -> 0
          [] i > 0 /\ f.phdrs[i].type = "PT_LOAD" -> FileMem - (f.phdrs[i].vaddr - f.phdrs[i].offset)
          [] OTHER -> bias[i - 1]
  IN bias[Len(f.phdrs)]

\* The loop over the program headers: PT_PHDR gives the bias, or else the first PT_LOAD.
load_bias(f) ==
  LET bias[i \in 0..Len(f.phdrs)] ==
        IF i = 0 THEN 0
        ELSE LET ph == f.phdrs[i] IN
             CASE ph.type = "PT_LOAD" /\ bias[i - 1] = 0 -> FileMem - (ph.vaddr - ph.offset)
               [] ph.type = "PT_PHDR"                    -> FileMem + f.phoff - ph.vaddr
               [] OTHER                                  -> bias[i - 1]
  IN bias[Len(f.phdrs)]

\* The last section of a kind.
Section(f, kind) ==
  LET is == {i \in DOMAIN f.sections : f.sections[i].kind = kind}
  IN IF is = {} THEN <<>> ELSE f.sections[Max(is)].syms
Has(f, kind) == \E i \in DOMAIN f.sections : f.sections[i].kind = kind

iterate_symbol_table_impl(symbol, syms) ==
  LET i == SelectInSeq(syms, LAMBDA y : y.name = symbol)
  IN IF i = 0 THEN 0 ELSE syms[i].value

\* .symtab, then .dynsym, each with its table of names; 0 is an undefined symbol.
elf_ctx_iterate_symbol_table(f, symbol) ==
  LET Table(syms, strs) ==
        IF Has(f, syms) /\ Has(f, strs)
        THEN iterate_symbol_table_impl(symbol, Section(f, syms)) ELSE 0
      static == Table("SHT_SYMTAB", ".strtab")
  IN IF static # 0 THEN static ELSE Table("SHT_DYNSYM", ".dynstr")

\* The address of a symbol in a module of the list, 0 when it is not there.
Lookup(module, symbol) ==
  LET f == Files[module.path]
      v == elf_ctx_iterate_symbol_table(f, symbol)
  IN IF module.load_address = 0 \/ f = NoFile THEN 0
     ELSE IF v = 0 THEN 0
     ELSE v + module.load_address - (FileMem - load_bias(f))

------------------------------------------------------------------------------
(* The process.                                                             *)

\* The lines of /proc/self/maps, in the order of addresses. A library has its header in a
\* readable mapping and its data in a writable one.
Mapped ==
  Lines \cup UNION {{[start |-> loaded[l], perm |-> "r-xp", elf |-> TRUE, path |-> l],
                     [start |-> loaded[l] + 1, perm |-> "rw-p", elf |-> FALSE, path |-> l]} :
                      l \in {k \in Libs : loaded[k] # 0}}
Maps == [i \in 1..Cardinality(Mapped) |->
           CHOOSE m \in Mapped : Cardinality({n \in Mapped : n.start < m.start}) = i - 1]

\* The loop ends one iteration after the last line, which is parsed once more.
MapsRead == Maps \o <<Last(Maps)>>

Idle == [phase |-> "idle", image |-> NoImage, symbol |-> CHOOSE s \in Symbols : TRUE,
         result |-> 0, kept |-> {}]

ResolverInit ==
  /\ loaded = [l \in Libs |-> 0]
  /\ ever = {}
  /\ unloads = {}
  /\ modules = <<>>
  /\ lines = <<>>
  /\ todo = <<>>
  /\ query = Idle

Phase(p) == query.phase = p
Goto(p)  == query' = [query EXCEPT !.phase = p]

\* The dynamic linker, on another thread; a fault ends the process.
dlopen(l, base) ==
  /\ ~Phase("fault") /\ loaded[l] = 0 /\ \A k \in Libs : loaded[k] # base
  /\ Cardinality(ever) < MaxLoads
  /\ loaded' = [loaded EXCEPT ![l] = base]
  /\ ever' = ever \cup {<<l, base>>}
  /\ UNCHANGED <<unloads, modules, lines, todo, query>>

dlclose(l) ==
  /\ ~Phase("fault") /\ loaded[l] # 0
  /\ loaded' = [loaded EXCEPT ![l] = 0]
  /\ unloads' = unloads \cup {<<l, loaded[l]>>}
  /\ query' = [query EXCEPT !.kept = @ \ {l}]
  /\ UNCHANGED <<ever, modules, lines, todo>>

\* The loader puts the first PT_LOAD at the base.
FirstLoad(l) ==
  LET phdrs == Files[l].phdrs
      first == Min({i \in DOMAIN phdrs : phdrs[i].type = "PT_LOAD"})
  IN phdrs[first].vaddr - phdrs[first].offset
TrueAddress(l, base, v) == base - FirstLoad(l) + v

\* A library has something to load, its program headers are where PT_PHDR says, and the
\* bias, of which 0 means that it is not known yet, is another.
ASSUME HeadersAssumption ==
  \A l \in Libs :
    LET phdrs == Files[l].phdrs
    IN Files[l] # NoFile =>
         /\ Files[l].phoff \in Nat
         /\ phdrs \in Seq([type : STRING, vaddr : Nat, offset : Nat])
         /\ \E i \in DOMAIN phdrs : phdrs[i].type = "PT_LOAD"
         /\ \A i \in DOMAIN phdrs :
              phdrs[i].type = "PT_PHDR" => phdrs[i].vaddr - Files[l].phoff = FirstLoad(l)
         /\ FirstLoad(l) # FileMem

\* No symbol is at address 0, and the two tables of a global library agree on what it
\* exports.
ASSUME FilesAssumption ==
  \A l \in Libs, symbol \in Symbols, base \in Bases :
    LET v == elf_ctx_iterate_symbol_table(Files[l], symbol)
        d == iterate_symbol_table_impl(symbol, Section(Files[l], "SHT_DYNSYM"))
    IN Files[l] # NoFile =>
         /\ v # 0 => v \in Nat /\ TrueAddress(l, base, v) \in Nat \ {0}
         /\ l \in Global /\ d # 0 => v = d

\* dlsym(RTLD_DEFAULT, symbol): the value of a symbol of .dynsym of a global library.
dlsym(symbol) ==
  {TrueAddress(l, loaded[l], iterate_symbol_table_impl(symbol, Section(Files[l], "SHT_DYNSYM"))) :
     l \in {k \in Global : /\ loaded[k] # 0 /\ Files[k] # NoFile
                           /\ iterate_symbol_table_impl(symbol, Section(Files[k], "SHT_DYNSYM")) # 0}}

------------------------------------------------------------------------------
(* The resolver.                                                            *)

\* DobbySymbolResolver: dlsym, then resolve_elf_internal_symbol. "scan" is the call of
\* GetProcessModuleMap by GetProcessModule, "rescan" the one for all modules.
DobbySymbolResolver(image, symbol) ==
  /\ Phase("idle") /\ Len(modules) <= MaxModules
  /\ LET new == [Idle EXCEPT !.image = image, !.symbol = symbol,
                             !.kept = {l \in Libs : loaded[l] # 0}]
     IN IF dlsym(symbol) # {}
        THEN \E a \in dlsym(symbol) : query' = [new EXCEPT !.phase = "return", !.result = a]
        ELSE query' = [new EXCEPT !.phase = IF image = NoImage THEN "rescan" ELSE "scan"]
  /\ unloads' = {}
  /\ UNCHANGED <<loaded, ever, modules, lines, todo>>

\* get_process_map_with_proc_maps: the file is opened and read ...
OpenMaps ==
  /\ Phase("scan") \/ Phase("rescan")
  /\ lines' = MapsRead
  /\ Goto(IF Phase("scan") THEN "parse" ELSE "reparse")
  /\ unloads' = {}
  /\ UNCHANGED <<loaded, ever, modules, todo>>

\* ... or cannot be opened, and the modules of earlier calls are used.
OpenMapsFails ==
  /\ Phase("scan") \/ Phase("rescan")
  /\ lines' = <<>>
  /\ query' = [query EXCEPT !.phase = IF Phase("scan") THEN "parse" ELSE "reparse", !.kept = {}]
  /\ UNCHANGED <<loaded, ever, unloads, modules, todo>>

Parsing == Phase("parse") \/ Phase("reparse")

\* What is at an address now: nothing, an ELF header or something else.
HeaderAt(a) == {m.elf : m \in {n \in Mapped : n.start = a}}

\* Mutant: the permissions, the header and the path are not looked at.
ParseLine_AnyPath ==
  /\ Parsing /\ lines # <<>>
  /\ modules' = Append(modules, [path |-> Head(lines).path, load_address |-> Head(lines).start])
  /\ lines' = Tail(lines)
  /\ UNCHANGED <<loaded, ever, unloads, todo, query>>

\* A line of a readable mapping that is not writable: nothing is there any more and reading
\* the header faults, or it is a library's header and path, or it is something else.
ParseLine ==
  /\ Parsing /\ lines # <<>>
  /\ LET l    == Head(lines)
         read == l.perm \in {"r--p", "r-xp"}
     IN \/ /\ read /\ HeaderAt(l.start) = {}
           /\ Goto("fault")
           /\ UNCHANGED <<modules, lines>>
        \/ /\ read /\ TRUE \in HeaderAt(l.start) /\ l.path \in Libs
           /\ modules' = Append(modules, [path |-> l.path, load_address |-> l.start])
           /\ lines' = Tail(lines)
           /\ UNCHANGED query
        \/ /\ read => HeaderAt(l.start) # {} /\ ~(TRUE \in HeaderAt(l.start) /\ l.path \in Libs)
           /\ lines' = Tail(lines)
           /\ UNCHANGED <<modules, query>>
  /\ UNCHANGED <<loaded, ever, unloads, todo>>

\* GetProcessModule and the search of the module it finds.
SearchImage ==
  /\ Phase("parse") /\ lines = <<>>
  /\ LET i == SelectInSeq(modules, LAMBDA m : m.path \in Matches(query.image))
         a == IF i = 0 THEN 0 ELSE Lookup(modules[i], query.symbol)
     IN query' = [query EXCEPT !.phase = IF a = 0 THEN "rescan" ELSE "return", !.result = a]
  /\ UNCHANGED <<loaded, ever, unloads, modules, lines, todo>>

\* Mutant: only the image that was asked for is searched.
SearchAll_Image ==
  /\ Phase("reparse") /\ lines = <<>>
  /\ todo' = SelectSeq(modules, LAMBDA m : query.image # NoImage /\ m.path \in Matches(query.image))
  /\ Goto("search")
  /\ UNCHANGED <<loaded, ever, unloads, modules, lines>>

\* The loop over a copy of the modules.
SearchAll ==
  /\ Phase("reparse") /\ lines = <<>>
  /\ todo' = modules
  /\ Goto("search")
  /\ UNCHANGED <<loaded, ever, unloads, modules, lines>>

SearchModule ==
  /\ Phase("search") /\ todo # <<>>
  /\ LET a == Lookup(Head(todo), query.symbol)
     IN query' = IF a = 0 THEN query ELSE [query EXCEPT !.phase = "return", !.result = a]
  /\ todo' = Tail(todo)
  /\ UNCHANGED <<loaded, ever, unloads, modules, lines>>

SearchEnds ==
  /\ Phase("search") /\ todo = <<>>
  /\ Goto("return")
  /\ UNCHANGED <<loaded, ever, unloads, modules, lines, todo>>

Return ==
  /\ Phase("return")
  /\ query' = Idle
  /\ todo' = <<>>
  /\ UNCHANGED <<loaded, ever, unloads, modules, lines>>

Resolver ==
  \/ OpenMaps \/ OpenMapsFails \/ ParseLine \/ SearchImage \/ SearchAll
  \/ SearchModule \/ SearchEnds \/ Return

ResolverNext ==
  \/ \E l \in Libs, base \in Bases : dlopen(l, base)
  \/ \E l \in Libs : dlclose(l)
  \/ \E image \in Images, symbol \in Symbols : DobbySymbolResolver(image, symbol)
  \/ Resolver

ResolverSpec == ResolverInit /\ [][ResolverNext]_resolverVars

------------------------------------------------------------------------------
(* Properties.                                                              *)

\* The list holds libraries and the addresses of their headers, never another mapping with
\* an ELF header in it, and every address stays in the range the loader uses.
ResolverTypeOK ==
  /\ loaded \in [Libs -> Bases \cup {0}]
  /\ ever \subseteq Libs \X Bases
  /\ unloads \subseteq ever
  /\ modules \in Seq([path : Libs, load_address : Bases])
  /\ todo \in Seq([path : Libs, load_address : Bases])
  /\ query.phase \in {"idle", "scan", "parse", "rescan", "reparse", "search", "return", "fault"}
  /\ query.result \in Nat
  /\ query.kept \subseteq Libs

\* Where symbols are: in a library at an address, by the value its file gives.
Defined(l, symbol) ==
  IF Files[l] = NoFile THEN 0 ELSE elf_ctx_iterate_symbol_table(Files[l], symbol)
Places(P, symbol) ==
  {TrueAddress(p[1], p[2], Defined(p[1], symbol)) : p \in {q \in P : Defined(q[1], symbol) # 0}}

\* A result is the symbol's address in a library that is loaded there, or was before it was
\* unloaded: the static list of modules keeps what earlier calls found. No file
\* bias is lost on the way.
ResolvedDefined ==
  Phase("return") /\ query.result # 0 =>
    query.result \in Places(ever, query.symbol)

\* A call fails only for a cause: nothing is returned when no library that was loaded all
\* through it defines the symbol in a file that can be mapped, and the header behind a line
\* faults when a library was unloaded at that very address after the maps were read.
NothingMissed ==
  /\ Phase("return") /\ query.result = 0 => \A l \in query.kept : Defined(l, query.symbol) = 0
  /\ Phase("fault") => \E u \in unloads : u[2] = Head(lines).start

=============================================================================
