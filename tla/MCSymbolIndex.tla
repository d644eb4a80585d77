--------------------------- MODULE MCSymbolIndex ---------------------------
(* Small instances of SymbolIndex for TLC: files a1 and a2 of module 1,    *)
(* file b of module 2, and headers of both modules.                        *)
EXTENDS SymbolIndex

CONSTANTS a1, a2, b, h1, h2

MCModuleOf == [p \in Paths |-> IF p \in {b, h2} THEN 2 ELSE 1]

NoRefs == [sp \in Symbols \X Paths |-> {}]
NoDefs == [s \in Symbols |-> NoLine]

(* Every set of definitions, no references.                                *)
DefinitionUnits ==
  {[defs |-> d, refs |-> NoRefs] : d \in [Symbols -> Lines \cup {NoLine}]}

(* References to symbol 1, which is declared in one header.                *)
OneOriginUnits ==
  {[defs |-> NoDefs, refs |-> [NoRefs EXCEPT ![<<1, h1>>] = l]] :
     l \in SUBSET Lines}

(* Each symbol has its one declaration in header h1, a file defines at     *)
(* least one, and the body of a symbol refers to every other one.          *)
CallerUnits ==
  {[defs |-> d,
    refs |-> [sp \in Symbols \X Paths |->
                IF sp[2] = h1 /\ \E s \in Symbols \ {sp[1]} : d[s] # NoLine
                  THEN Lines ELSE {}]] :
     d \in [Symbols -> Lines \cup {NoLine}] \ {NoDefs}}

(* References to a symbol that is declared in headers of two modules.      *)
TwoOriginUnits ==
  {[defs |-> NoDefs,
    refs |-> [sp \in Symbols \X Paths |->
                IF sp[2] = h1 THEN r[1] ELSE IF sp[2] = h2 THEN r[2] ELSE {}]] :
     r \in [{1, 2} -> SUBSET Lines]}
=============================================================================
