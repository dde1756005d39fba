----------------------------- MODULE MCServices -----------------------------
(***************************************************************************)
(* Three parts of the engine that share no state: the memory allocator,    *)
(* the closure bridge and the symbol resolver.  A behaviour is one of one  *)
(* of them; the others stay where they start.                              *)
(***************************************************************************)
EXTENDS MCMemoryAllocator, MCClosureBridge, MCSymbolResolver

VARIABLE part

ServicesInit ==
  /\ part \in {"allocator", "bridge", "resolver"}
  /\ Init /\ BridgeInit /\ ResolverInit
  /\ part # "bridge" => <<isa, sp0>> = <<"x64", 400>>

ServicesNext ==
  \/ part = "allocator" /\ Next /\ UNCHANGED <<part, bridgeVars, resolverVars>>
  \/ part = "bridge" /\ BridgeNext /\ UNCHANGED <<part, vars, resolverVars>>
  \/ part = "resolver" /\ ResolverNext /\ UNCHANGED <<part, vars, bridgeVars>>

ServicesSpec == ServicesInit /\ [][ServicesNext]_<<part, vars, bridgeVars, resolverVars>>

=============================================================================
