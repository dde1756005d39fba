-------------------------- MODULE MCClosureBridge --------------------------
EXTENDS ClosureBridge

\* ARM and IA32 code may be interrupted with the stack pointer at any word, x64 code too;
\* the one of ARM64 is always aligned to 16 bytes.
MCStacks ==
  {<<"arm", s>> : s \in 400..401} \cup {<<"arm64", 400>>}
  \cup {<<"ia32", s>> : s \in 400..403} \cup {<<"x64", s>> : s \in 400..401}

\* No field, one of each kind, every field that steers nothing, the field sp, every field.
MCTouches ==
  [i \in Isas |-> {{}, {0}, {-1}, Fields(i) \ (NotShown(i) \cup {SP(i)}), Fields(i) \cup {-1}}
                    \cup {{r} : r \in Fields(i) \cap {7, 14, 16, 30, 33}}]

=============================================================================
