--------------------------- MODULE LibraryLoadMC ---------------------------
(***************************************************************************)
(* The programs of ForeignTypesMC, and the import of two libraries.  They  *)
(* have a list of structs of which one has an enum and one a bit field; a  *)
(* struct that shares its name with a function, and a base type with       *)
(* another symbol; functions on structs, one with an argument of a base    *)
(* type that is not supported, and a symbol liballocs knows nothing of.    *)
(* In the second library there is a pointer to the enum, which kills the   *)
(* process that imports it when "flags" is not NULL.                       *)
(***************************************************************************)
EXTENDS ForeignTypesMC, ForeignLibrary

MCLibraryTypes ==
  {"int", "long", "wide", "bits", "enum", "flags*", "void", "node", "stat", "node*",
   "stat*", "void*", "opaque", "new", "stat()", "apply"}
MCLibraryKind == [t \in MCLibraryTypes |->
  CASE t \in {"int", "long"} -> "base"
    [] t = "wide" -> "unsupported"
    [] t = "bits" -> "bitfield"
    [] t = "enum" -> "enum"
    [] t = "void" -> "void"
    [] t \in {"node", "stat", "opaque"} -> "struct"
    [] t \in {"flags*", "node*", "stat*", "void*"} -> "pointer"
    [] OTHER -> "function"]
PartsWith(pointee) == [t \in MCLibraryTypes |->
  CASE t = "node" -> <<"node*", "enum", "flags*", "stat*", "long">>
    [] t = "stat" -> <<"bits", "int">>
    [] t = "flags*" -> <<pointee>>
    [] t = "node*" -> <<"node">>
    [] t = "stat*" -> <<"stat">>
    [] t = "void*" -> <<"void">>
    [] t = "new" -> <<"node*", "wide", "int">>
    [] t = "stat()" -> <<"int", "stat*">>
    [] t = "apply" -> <<"void", "void*", "stat", "opaque">>
    [] OTHER -> <<>>]
MCLibraryParts == {PartsWith("int"), PartsWith("enum")}
MCTypeNames == [t \in MCLibraryTypes |-> t]
MCSymbols ==
  {"list", "new_node", "stat_of", "apply_all", "flags", "level", "count",
   "secret"}
MCSymbolTypes == [s \in MCSymbols |->
  CASE s = "list" -> "node*"
    [] s = "new_node" -> "new"
    [] s = "stat_of" -> "stat()"
    [] s = "apply_all" -> "apply"
    [] s = "flags" -> "flags*"
    [] s = "level" -> "enum"
    [] s = "count" -> "long"
    [] OTHER -> NULL]
MCSymbolNames == [s \in MCSymbols |->
  CASE s = "stat_of" -> "stat" [] s = "flags" -> "long" [] OTHER -> s]
=============================================================================
