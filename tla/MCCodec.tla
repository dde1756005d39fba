------------------------------ MODULE MCCodec ------------------------------
(* All opcodes of 64 bit code, with the prefixes and the addressing forms   *)
(* that change the length of an instruction, and every method of the        *)
(* assemblers on low and high registers and displacements of every size.    *)
EXTENDS Codec

Zeros(k) == [i \in 1..k |-> 0]

\* Opcodes that are invalid in 64 bit mode or start a VEX, 3DNow! or three byte opcode.
Invalid1 == {6, 7, 14, 15, 22, 23, 30, 31, 39, 47, 55, 63} \cup 64..79
            \cup {96, 97, 98, 130, 154, 196, 197, 206, 212, 213, 214, 234} \cup LegacyPrefixes
Invalid2 == {4, 10, 12, 14, 15, 36, 37, 38, 39, 54, 56, 57, 58, 59, 60, 61, 62, 63,
             122, 123, 166, 167, 255}

Opcodes == {<<o>> : o \in (0..255) \ Invalid1}
           \cup {<<15, o>> : o \in (0..255) \ (Invalid2 \cup TwoByteSSE)}
           \cup {<<15, 16>>, <<15, 255>>}

ModRMs == {<<64 * m + 8 * g + r>> : m \in 0..3, g \in {0, 2}, r \in {0, 5}}
          \cup {<<64 * m + 4, 32 + b>> : m \in 0..2, b \in {0, 5, 6, 7}} \cup {<<196>>}

Prefixes == {<<>>, <<72>>, <<102>>, <<102, 72>>}

DecodeJobs ==
  {[isa |-> "x64", kind |-> "decode", bytes |-> p \o o \o m \o Zeros(8)] :
     p \in Prefixes, o \in Opcodes, m \in {<<0>>, <<5>>, <<16>>, <<133>>, <<196>>}}
  \cup {[isa |-> "x64", kind |-> "decode", bytes |-> p \o o \o m \o Zeros(8)] :
     p \in Prefixes, o \in {<<1>>, <<105>>, <<107>>, <<15, 175>>, <<15, 186>>}, m \in ModRMs}
  \cup {[isa |-> "x64", kind |-> "decode", bytes |-> p \o <<139>> \o m \o Zeros(8)] :
     p \in {<<65>>, <<103>>, <<103, 65>>, <<46, 101, 240>>}, m \in ModRMs}

Kinds == {"sub_ri", "add_ri", "mov_ri", "mov_mi", "mov_rm", "mov_mr", "mov_rr", "call_m",
          "call_i", "call_r", "jmp_i", "push", "pop", "pushfq", "ret", "nop"}

Call(k, r, b, d, i, s, w) ==
  [isa |-> w, kind |-> k, reg |-> r, base |-> b, index |-> NoReg, scale |-> 0, disp |-> d, imm |-> i, size |-> s]

HasMem == {"mov_mi", "mov_rm", "mov_mr", "call_m"}
HasImm == {"sub_ri", "add_ri", "mov_ri", "mov_mi", "call_i"}

EmitJobs ==
  {Call(k, r, b, d, 300, 32, "x64") : k \in Kinds \ HasImm, r \in {0, 4, 7, 8, 12, 15},
                                   b \in {0, 4, 5, 11, 12, 13}, d \in {0, 8, -128, 128, -4096}}
  \cup {Call(k, r, b, 8, i, s, "x64") : k \in HasImm, r \in {0, 4, 11}, b \in {4, 12}, i \in {8, 300, -5},
                                     s \in {32, 64, ImmediateSizeX64(300)}}
  \cup {Call(k, r, b, d, 8, 32, "ia32") : k \in Kinds, r \in {0, 4, 7}, b \in {0, 4, 5},
                                      d \in {0, 8, 128}}
  \cup {Call("add_ri", 0, 0, 0, 300, ImmediateSizeIA32(300), "ia32")}
  \cup {[Call(k, 0, b, d, 8, 32, "x64") EXCEPT !.index = x, !.scale = t] : k \in HasMem, b \in {0, 4, 5, 13, NoReg},
           d \in {0, 8, 128}, x \in {1, 5, 9, 12}, t \in {0, 3}}
  \cup {[Call(k, 0, b, d, 8, 32, "ia32") EXCEPT !.index = x, !.scale = t] : k \in HasMem, b \in {0, 4, 5, NoReg},
           d \in {0, 8, 128}, x \in {1, 5}, t \in {0, 3}}
  \cup {Call("CallFunction", 0, 0, 0, i, 32, w) : i \in {0, 1, 300}, w \in {"x64", "ia32"}}

\* Calls of the ARM assemblers.
A(isa, k, d, n, m, t, i, mode) ==
  [isa |-> isa, kind |-> k, rd |-> d, rn |-> n, rm |-> m, ty |-> t, imm |-> i, mode |-> mode,
   cond |-> 14, shift |-> 0, from |-> 0, h |-> <<0, 0, 0, 0>>]

R5 == {0, 1, 17, 30, 31}
Modes == {"offset", "pre", "post"}

A64Jobs ==
  {A("a64", k, d, n, 0, t, i, "offset") : k \in {"add", "sub"}, d \in R5, n \in R5, t \in {"x", "w"},
                                         i \in {0, 16, 384, 4095, 4096, -8}}
  \cup {A("a64", k, d, n, 0, t, i, mode) : k \in {"ldr", "str"}, d \in {0, 30}, n \in {17, 31},
          t \in {"x", "w", "q"}, i \in {0, 8, 12, 32760, 32768, -8}, mode \in Modes}
  \cup {A("a64", k, d, 31, m, t, i, mode) : k \in {"ldp", "stp"}, d \in {0, 29}, m \in {1, 30},
          t \in {"x", "q", "w"}, i \in {0, 16, -16, 496, 512, -512, -528, 1008, 1024}, mode \in Modes}
  \cup {A("a64", "ldr_lit", d, 0, 0, t, i, "offset") : d \in {0, 17}, t \in {"x", "w", "s", "d", "q"}, i \in {0, 8}}
  \cup {A("a64", "adrp", d, 0, 0, "x", i, "offset") : d \in {0, 17}, i \in {0, 4096, -4096, 12288, 20480, 1048576}}
  \cup {A("a64", k, 0, n, 0, "x", i, "offset") : k \in {"b", "br", "blr"}, n \in R5, i \in {0, 4, -4, 134217724, -134217728}}
  \cup {A("a64", "mov", d, n, 0, t, 0, "offset") : d \in R5, n \in R5, t \in {"x", "w"}}
  \cup {[A("a64", k, d, 0, 0, t, i, "offset") EXCEPT !.shift = sh] : k \in {"movn", "movz", "movk"}, d \in {0, 17},
          t \in {"x", "w"}, i \in {0, 1, 65535}, sh \in {0, 16}}
  \cup {[A("a64", k, 17, 0, 0, "x", 0, "offset") EXCEPT !.h = h] : k \in {"Mov", "CallFunction"},
          h \in {<<1, 2, 3, 4>>, <<65535, 0, 4660, 32768>>}}
  \cup {[A("a64", "AdrpAdd", 17, 0, 0, "x", to, "offset") EXCEPT !.from = f] : f \in {0, 4100, 20480},
          to \in {8, 4096, 16380, 24576}}

BoundJobs ==
  {[A(isa, k, d, 0, 0, "x", to, "offset") EXCEPT !.from = f] : isa \in {"a64", "arm"}, k \in {"Ldr"},
     d \in {0, 12}, to \in {4, 64}, f \in {16, 64}}
  \cup {[A("thumb", "T2_Ldr", d, 15, 0, "x", to, "offset") EXCEPT !.from = f] : d \in {0, 12}, to \in {4, 64}, f \in {16, 18, 64}}
  \cup {A("arm", "CallFunction", 0, 0, 0, "w", to, "offset") : to \in {4096, 1000000001}}

ArmJobs ==
  {A("arm", k, d, n, 0, "w", i, mode) : k \in {"add", "sub", "ldr", "str", "link", "mov", "mov_i"}, d \in {0, 12, 15},
          n \in {0, 13, 14}, i \in {0, 4, 56, 255, 256, 260, 4095, 4096, -4, -4095}, mode \in Modes}
  \cup {[A("arm", k, 0, 0, 0, "w", i, "offset") EXCEPT !.cond = c] : k \in {"b", "bl"}, c \in {0, 1, 14},
          i \in {0, 4, -4, 33554428, -33554432}}

ThumbJobs ==
  {A("thumb", k, d, n, 0, "w", i, mode) : k \in {"t2_ldr", "link"}, d \in {0, 12, 15}, n \in {0, 13, 15},
          i \in {0, 4, 252, -4, -252}, mode \in Modes}
  \cup {A("thumb", "link", 0, 15, 0, "w", i, "offset") : i \in {4092, 4095, 4096, -4095}}
  \cup {A("thumb", k, 0, 0, 0, "w", i, "offset") : k \in {"t2_b", "t2_bl", "t1_b"},
          i \in {0, 4, -4, 2046, 2048, -2048, 4194304, 8388608, -4194306, -8388608, 16777214, -16777216}}

\* Offsets, and the fixed bits of tbz, ldr, b and adr with other bits than theirs set.
OffsetJobs ==
  {[isa |-> "offset", kind |-> "imm14", word |-> {0, 5, 18, 24, 25, 26, 28, 29}, imm |-> i] : i \in {0, 4, -4, 32764, -32768}}
  \cup {[isa |-> "offset", kind |-> "imm19", word |-> {4, 6, 23, 27, 28, 30}, imm |-> i] : i \in {0, 8, -8, 1048572, -1048576}}
  \cup {[isa |-> "offset", kind |-> "imm26", word |-> {1, 25, 26, 28}, imm |-> i] : i \in {0, 4, -4, 134217724, -134217728}}
  \cup {[isa |-> "offset", kind |-> "immhilo", word |-> {0, 5, 23, 28, 30}, imm |-> i] : i \in {0, 1, 3, -1, -2, 1048575, -1048576}}

Read(isa, k, D) == {[isa |-> isa, kind |-> "read", insn |-> k, imm |-> d] : d \in D}

\* Offsets at both ends of the reach of each instruction and around the middle.
ReadJobs ==
  Read("arm", "b", {0, 4, -4, 2^25 - 4, -(2^25)}) \cup Read("arm", "ldr", {0, 4, -4, 4095, -4095})
  \cup Read("arm", "adr", {0, 255, 256, -1020, 65280, 255 * 2^20, -(2^24)})
  \cup Read("thumb1", "ldr", {0, 4, 1020}) \cup Read("thumb1", "adr", {0, 4, 1020})
  \cup Read("thumb1", "b_cond", {0, 2, -2, 254, -256}) \cup Read("thumb1", "cbz", {0, 2, 62, 64, 126})
  \cup Read("thumb1", "b", {0, 2, -2, 2046, -2048})
  \cup Read("thumb2", "b_cond", {0, 2, -2, 2^18, -(2^19), 2^20 - 2, -(2^20)})
  \cup UNION {Read("thumb2", k, {0, 2, -2, 2^22, 2^23 - 2, 2^23, -(2^23), -(2^23) - 2, 2^24 - 2, -(2^24)}) : k \in {"b", "bl"}}
  \cup Read("thumb2", "blx", {0, 4, -4, 2^22, 2^23 - 4, 2^23, -(2^23), -(2^23) - 4, 2^24 - 4, -(2^24)})
  \cup Read("thumb2", "adr", {0, 1, -1, 255, 256, 2048, 4095, -4095}) \cup Read("thumb2", "ldr", {0, 4, -4, 4095, -4095})

\* Hooks at and around the reach of b, of adrp and of a displacement: pages of 16
\* bytes, b reaches 32 bytes, adrp 64 and a displacement 128.
MCSites ==
  {[arch |-> "a64", src |-> s, dst |-> d] : s \in {96, 108}, d \in {4 * k : k \in 4..50}}
  \cup {[arch |-> "arm", src |-> 96, dst |-> 17], [arch |-> "thumb", src |-> 97, dst |-> 16],
        [arch |-> "thumb", src |-> 99, dst |-> 17]}
  \cup {[arch |-> "x64", src |-> s, dst |-> 1000] : s \in {100, 203}}
  \cup {[arch |-> "ia32", src |-> s, dst |-> d] : s \in {0, 100, 250}, d \in {3, 122, 233, 255}}

TrampolineJobs == {[isa |-> "any", kind |-> "trampoline"]}

MCJobs == TrampolineJobs \cup DecodeJobs \cup EmitJobs \cup A64Jobs \cup ArmJobs \cup ThumbJobs \cup BoundJobs \cup OffsetJobs \cup ReadJobs
=============================================================================
