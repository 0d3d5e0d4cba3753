--------------------------- MODULE ForeignLibrary ---------------------------
(***************************************************************************)
(* The creation of types and the import of a library side by side.  They   *)
(* have no variable in common: a behaviour creates types of one of the     *)
(* programs of ForeignTypes, or imports a library.                         *)
(***************************************************************************)
EXTENDS ForeignTypes

CONSTANTS LibraryTypes, LibraryKind, LibraryParts, TypeNames, Symbols,
          SymbolTypes, SymbolNames, UnreadableSymbols   \* of LibraryLoad

VARIABLES component, parts, todo, module, types, bare, skipped, unread, error, calls
loadVars == <<parts, todo, module, types, bare, skipped, unread, error, calls>>

Import == INSTANCE LibraryLoad
  WITH Type <- LibraryTypes, Kind <- LibraryKind, Libraries <- LibraryParts,
       TypeName <- TypeNames, Symbol <- Symbols, SymbolType <- SymbolTypes,
       SymbolName <- SymbolNames, Unreadable <- UnreadableSymbols

ASSUME ImportAssumption == Import!Assumptions

-----------------------------------------------------------------------------
ComponentsInit ==
  /\ component \in {"types", "import"}
  /\ Import!Init /\ Init
  \* one of the programs will do while another component runs
  /\ component = "import" =>
       program = CHOOSE p \in Libraries \X Unions : TRUE
  /\ component = "types" => parts = CHOOSE p \in LibraryParts : TRUE

(* The import is over, or the process with it. *)
Imported == (Import!Loaded \/ Import!Crashed) /\ UNCHANGED loadVars

ComponentsNext ==
  /\ \/ component = "types" /\ Next /\ UNCHANGED loadVars
     \/ component = "import" /\ (Import!Next \/ Imported) /\ UNCHANGED vars
  /\ UNCHANGED component

(* InitType and PyType_Ready go on once they are called. *)
TypesStep == Step /\ UNCHANGED <<component, loadVars>>

ComponentsVars == <<vars, component, loadVars>>
ComponentsSpec ==
  ComponentsInit /\ [][ComponentsNext]_ComponentsVars /\ WF_ComponentsVars(TypesStep)

-----------------------------------------------------------------------------
(* While a library is imported, in whatever order its symbols come and     *)
(* whatever types cannot be handled on the way, every global whose type    *)
(* can be handled gets into the module, unless there was no reading it     *)
(* (library_loader.c:160); and so does, in the end, every struct and base  *)
(* type the globals are built from (library_loader.c:84), unless its name  *)
(* is taken or an exception is pending; "Field's foreign datatype is not   *)
(* handled" (composite_proxy.c:42) is only said of fields whose type is    *)
(* not.  An import that reads a pointer without pointee_type is not        *)
(* completed: the process ends there.                                      *)
ImportComplete ==
  /\ Import!TypeOK
  /\ Import!SymbolsPresent /\ Import!TypesPresent
  /\ Import!OnlyUnhandledSkipped

(* The import of a library does not end with an exception it could do      *)
(* without (library_loader.c:177), unless a pointer type has left one.     *)
NothingPending == Import!NothingPending
=============================================================================
