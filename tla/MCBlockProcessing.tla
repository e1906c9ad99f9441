------------------------- MODULE MCBlockProcessing -------------------------
(***************************************************************************)
(* A send s, a competitor f of it, a second send t on top of s, and a      *)
(* receive r of s that opens another account.                              *)
(***************************************************************************)
EXTENDS BlockProcessing

CONSTANTS g, s, f, t, r, A

MCOrigins == <<live, unchecked, forced>>
MCPriority == [o \in {live, unchecked, forced} |-> IF o = live THEN 1 ELSE 2]
MCMaxSize == [o \in {live, unchecked, forced} |-> IF o = unchecked THEN 1 ELSE 2]
MCPrevious == [h \in Hash |-> CASE h \in {s, f} -> g [] h = t -> s [] OTHER -> Zero]
MCSource == [h \in Hash |-> IF h = r THEN s ELSE Zero]
MCDestination == [h \in Hash |-> IF h = s THEN A ELSE Zero]
MCQualifiedRoot == [h \in Hash |-> CASE h \in {s, f} -> g [] h = t -> s [] h = r -> A [] OTHER -> Zero]
=============================================================================
