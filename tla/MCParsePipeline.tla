-------------------------- MODULE MCParsePipeline --------------------------
(* Small instances of ParsePipeline for TLC: file a of module 1 and file b *)
(* of module 2, which both define the one symbol in some contents.         *)
EXTENDS ParsePipeline

CONSTANTS a, b

MCModuleOf == [p \in Paths |-> IF p = b THEN 2 ELSE 1]

(* Content 1 defines the symbol on line 1, content 2 does not define it,   *)
(* content 3 defines it on line 2, and so on.                              *)
MCTuOf ==
  [f \in Files |-> [c \in Contents |->
     [defs |-> [s \in Symbols |-> CASE c % 3 = 1 -> 1
                                    [] c % 3 = 2 -> NoLine
                                    [] OTHER -> 2],
      refs |-> [sp \in Symbols \X Paths |-> {}]]]]
=============================================================================
