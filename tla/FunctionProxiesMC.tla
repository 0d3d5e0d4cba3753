------------------------- MODULE FunctionProxiesMC -------------------------
(***************************************************************************)
(* FunctionProxies for TLC: seven signatures with every way to fail, three *)
(* of them that can be completed, and calls of functions of up to three    *)
(* parameters, two calls in two callbacks.                                 *)
(***************************************************************************)
EXTENDS FunctionProxies, TLC

CONSTANTS int, node, enum, packed,      \* types
          unary, binary, thunk, late, variadic, pair, multi,   \* functions
          integer, pointer, struct, handle   \* types of arguments and results

-----------------------------------------------------------------------------
MCRet  == unary :> int @@ binary :> node @@ thunk :> packed @@ late :> int
            @@ variadic :> node @@ pair :> node @@ multi :> int
MCArgs == unary :> <<node>> @@ binary :> <<node, enum>> @@ thunk :> <<>>
            @@ late :> <<node, packed, int>> @@ variadic :> <<int, int>>
            @@ pair :> <<int, node>> @@ multi :> <<>>
MCSize == integer :> 1 @@ pointer :> 2 @@ struct :> 3 @@ handle :> 2
MCFunctions ==
  {[sig |-> <<>>, result |-> integer], [sig |-> <<handle>>, result |-> handle],
   [sig |-> <<integer, struct>>, result |-> pointer],
   [sig |-> <<struct, pointer, integer>>, result |-> struct]}
=============================================================================
