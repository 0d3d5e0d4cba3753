---------------------------- MODULE LibraryLoad ----------------------------
(***************************************************************************)
(* The import of a foreign library: every global symbol is added to the    *)
(* Python module together with the types its own type is built from        *)
(* (src/library_loader.c).  Types that cannot be handled are skipped, and  *)
(* the exceptions they raise dropped: the module follows the pending       *)
(* exception of the interpreter through the creation of types              *)
(* (src/foreign_type.c, address_proxy.c, composite_proxy.c,                *)
(* foreign_basetype.c), because ForeignBaseType_New takes any pending      *)
(* exception for its own.  What the types of the table are like is the     *)
(* subject of ForeignTypes.                                                *)
(***************************************************************************)
EXTENDS Integers, Sequences

CONSTANTS
  Type,        \* the types of a library
  Kind,        \* "base", "unsupported" (another base type), "bitfield", "enum",
               \* "void", "struct", "pointer" or "function"
  Libraries,   \* what the types may be built from: the members of structs,
               \* pointees, the results and arguments of functions, in order
  TypeName,    \* the name of a type in the module
  Symbol,      \* the global symbols of the library
  SymbolType,  \* the type liballocs knows for a symbol, or NULL
  SymbolName,
  Unreadable,  \* the symbols ft_getfrom may fail to make an object for (there
               \* may be no memory for any of them)
  NULL

(* Assumed of the constants. *)
Assumptions ==
  /\ Kind \in [Type -> {"base", "unsupported", "bitfield", "enum", "void",
                        "struct", "pointer", "function"}]
  /\ Libraries \subseteq [Type -> Seq(Type)]
  /\ \A lib \in Libraries, t \in Type :
       /\ Kind[t] = "pointer" => Len(lib[t]) = 1
       /\ Kind[t] \in {"base", "unsupported", "bitfield", "enum", "void"} =>
            lib[t] = <<>>
  /\ SymbolType \in [Symbol -> Type \cup {NULL}] /\ Unreadable \subseteq Symbol
  /\ NULL \notin Type /\ Type \cap Symbol = {}

VARIABLES
  parts,       \* what the types are built from, fixed for a library
  todo,        \* the symbols dl_iterate_syms has not visited yet
  module,      \* the attributes of the Python module
  types,       \* the types that have a ForeignTypeObject
  bare,        \* the pointer types whose pointee_type is NULL
  skipped,     \* the struct members left as unrecognised: <<struct, index>>
  unread,      \* history: the symbols that could not be read
  error,       \* whether an exception is pending
  calls        \* the calls in progress, the running one last
vars == <<parts, todo, module, types, bare, skipped, unread, error, calls>>

Unhandled(t) == Kind[t] \in {"unsupported", "bitfield", "enum"}
Named(t) == Kind[t] \in {"base", "void", "struct"}   \* is added to the module

(* A call is of a type or symbol, and has come to some point: 0 before any *)
(* loop, i before the i-th turn of it; for a symbol, 1 when its type is    *)
(* there and 2 when the process died reading its object.                   *)
Call(f, x, i) == [function |-> f, of |-> x, next |-> i]
AddUseful(t) ==
  Call("recursively_add_useful_types", t,
       IF Named(t) \/ Kind[t] = "unsupported" THEN 0 ELSE 1)

Idle == calls = <<>>
Top == calls[Len(calls)]
Loaded == todo = {} /\ Idle
Crashed == ~Idle /\ Top.function = "add_sym_to_module" /\ Top.next = 2
Running(f, x) == ~Idle /\ Top.function = f /\ Top.of = x
GoOn(f, x, i) == [calls EXCEPT ![Len(calls)] = Call(f, x, i)]
Return == SubSeq(calls, 1, Len(calls) - 1)

(* PyModule_AddObject, also over what has the name. *)
Bind(name, what) ==
  module' = [n \in DOMAIN module \cup {name} |->
               IF n = name THEN what ELSE module[n]]

Init ==
  /\ parts \in Libraries
  /\ todo = Symbol /\ module = <<>> /\ types = {} /\ bare = {} /\ skipped = {}
  /\ unread = {} /\ error = FALSE /\ calls = <<>>

-----------------------------------------------------------------------------
(* The types of which ForeignType_New makes none: ForeignBaseType_New      *)
(* rejects a bit field or a base type it has no functions for, and any     *)
(* base type while an exception is pending.                                *)
Rejected(t) ==
  t \notin types /\ (Unhandled(t) \/ (Kind[t] = "base" /\ error))

(* ForeignType_GetOrCreate otherwise: the table, ForeignType_New, and      *)
(* ForeignType_Init, which asks for the types a new one is built from.     *)
GetOrCreate(t, callers) ==
  /\ types' = types \cup {t}
  /\ calls' = IF t \notin types /\ Kind[t] \in {"pointer", "struct"}
              THEN Append(callers, Call("InitType", t, 1)) ELSE callers

(* InitType asks for the type of a member, or of what a pointer is to. *)
InitMember(t) ==
  LET i == Top.next IN
  /\ Running("InitType", t) /\ i \in DOMAIN parts[t]
  /\ ~Rejected(parts[t][i])
  /\ GetOrCreate(parts[t][i], GoOn("InitType", t, i + 1))
  /\ UNCHANGED <<parts, todo, module, bare, skipped, unread, error>>

(* A bug: the exception of a skipped member stays pending.                 *)
SkipSilently(t) ==
  LET i == Top.next IN
  /\ Running("InitType", t) /\ i \in DOMAIN parts[t]
  /\ Kind[t] = "struct" /\ Rejected(parts[t][i])
  /\ skipped' = skipped \cup {<<t, i>>} /\ error' = TRUE
  /\ calls' = GoOn("InitType", t, i + 1)
  /\ UNCHANGED <<parts, todo, module, types, bare, unread>>

(* There is none: a struct skips the member and drops the exception ... *)
SkipMember(t) ==
  LET i == Top.next IN
  /\ Running("InitType", t) /\ i \in DOMAIN parts[t]
  /\ Kind[t] = "struct" /\ Rejected(parts[t][i])
  /\ skipped' = skipped \cup {<<t, i>>} /\ error' = FALSE
  /\ calls' = GoOn("InitType", t, i + 1)
  /\ UNCHANGED <<parts, todo, module, types, bare, unread>>

(* ... and a pointer does without pointee_type and leaves it pending. *)
LosePointee(t) ==
  LET i == Top.next IN
  /\ Running("InitType", t) /\ i \in DOMAIN parts[t]
  /\ Kind[t] = "pointer" /\ Rejected(parts[t][i])
  /\ error' = TRUE /\ bare' = bare \cup {t}
  /\ calls' = GoOn("InitType", t, i + 1)
  /\ UNCHANGED <<parts, todo, module, types, skipped, unread>>

EndInitType(t) ==
  /\ Running("InitType", t) /\ Top.next \notin DOMAIN parts[t]
  /\ calls' = Return
  /\ UNCHANGED <<parts, todo, module, types, bare, skipped, unread, error>>

-----------------------------------------------------------------------------
(***************************************************************************)
(* recursively_add_useful_types: the type itself, by add_type_to_module,   *)
(* then the types it is built from; those of a struct only when it has     *)
(* just been added.                                                        *)
(***************************************************************************)

(* add_type_to_module: nothing for a name the module has; asking for one   *)
(* it does not have drops a pending exception, as it drops the one of a    *)
(* type that cannot be made.                                               *)
AddType(t) ==
  /\ Running("recursively_add_useful_types", t) /\ Top.next = 0
  /\ \/ /\ TypeName[t] \in DOMAIN module
        /\ calls' = Return
        /\ UNCHANGED <<types, error>>
     \/ /\ TypeName[t] \notin DOMAIN module /\ Unhandled(t)
        /\ calls' = Return /\ error' = FALSE
        /\ UNCHANGED types
     \/ /\ TypeName[t] \notin DOMAIN module /\ ~Unhandled(t)
        /\ GetOrCreate(t, GoOn("add_type_to_module", t, 0))
        /\ error' = FALSE
  /\ UNCHANGED <<parts, todo, module, bare, skipped, unread>>

EndAddType(t) ==
  /\ Running("add_type_to_module", t)
  /\ Bind(TypeName[t], t)
  /\ calls' = GoOn("recursively_add_useful_types", t, 1)
  /\ UNCHANGED <<parts, todo, types, bare, skipped, unread, error>>

(* A bug: types behind pointers are not added.                             *)
AddDirectPart(t) ==
  LET i == Top.next IN
  /\ Running("recursively_add_useful_types", t) /\ i \in DOMAIN parts[t]
  /\ calls' = IF Kind[t] = "pointer"
              THEN GoOn("recursively_add_useful_types", t, i + 1)
              ELSE Append(GoOn("recursively_add_useful_types", t, i + 1),
                          AddUseful(parts[t][i]))
  /\ UNCHANGED <<parts, todo, module, types, bare, skipped, unread, error>>

AddPart(t) ==
  LET i == Top.next IN
  /\ Running("recursively_add_useful_types", t) /\ i \in DOMAIN parts[t]
  /\ calls' = Append(GoOn("recursively_add_useful_types", t, i + 1),
                     AddUseful(parts[t][i]))
  /\ UNCHANGED <<parts, todo, module, types, bare, skipped, unread, error>>

EndAddParts(t) ==
  /\ Running("recursively_add_useful_types", t)
  /\ Top.next # 0 /\ Top.next \notin DOMAIN parts[t]
  /\ calls' = Return
  /\ UNCHANGED <<parts, todo, module, types, bare, skipped, unread, error>>

-----------------------------------------------------------------------------
(***************************************************************************)
(* add_sym_to_module: the types, then the type of the symbol itself and,   *)
(* when there is one, the object read from it.                             *)
(***************************************************************************)
Load(sym) ==
  LET t == SymbolType[sym] IN
  /\ Idle /\ sym \in todo
  /\ todo' = todo \ {sym}
  /\ calls' = IF t = NULL THEN <<>>
              ELSE <<Call("add_sym_to_module", sym, 0), AddUseful(t)>>
  /\ UNCHANGED <<parts, module, types, bare, skipped, unread, error>>

AddSymbol(sym) ==
  LET t == SymbolType[sym] IN
  /\ Running("add_sym_to_module", sym) /\ Top.next = 0
  /\ \/ Rejected(t) /\ error' = FALSE /\ calls' = Return /\ UNCHANGED types
     \/ /\ ~Rejected(t) /\ UNCHANGED error
        /\ GetOrCreate(t, GoOn("add_sym_to_module", sym, 1))
  /\ UNCHANGED <<parts, todo, module, bare, skipped, unread>>

(* The object is read: None for a NULL pointer, whatever its type.         *)
EndAddSymbol(sym) ==
  /\ Running("add_sym_to_module", sym) /\ Top.next = 1
  /\ Bind(SymbolName[sym], sym)
  /\ calls' = Return
  /\ UNCHANGED <<parts, todo, types, bare, skipped, unread, error>>

(* It cannot be: the symbol is left out, and any exception dropped.        *)
SymbolUnread(sym) ==
  /\ Running("add_sym_to_module", sym) /\ Top.next = 1
  /\ sym \in Unreadable
  /\ error' = FALSE /\ unread' = unread \cup {sym}
  /\ calls' = Return
  /\ UNCHANGED <<parts, todo, module, types, bare, skipped>>

(* A pointer that is not NULL is read through the pointee_type its type    *)
(* does not have (address_proxy.c:209, 242).                               *)
ReadCrashes(sym) ==
  /\ Running("add_sym_to_module", sym) /\ Top.next = 1
  /\ SymbolType[sym] \in bare
  /\ calls' = GoOn("add_sym_to_module", sym, 2)
  /\ UNCHANGED <<parts, todo, module, types, bare, skipped, unread, error>>

Next ==
  \/ \E t \in Type : \/ InitMember(t) \/ SkipMember(t) \/ LosePointee(t)
                     \/ EndInitType(t) \/ AddType(t) \/ EndAddType(t)
                     \/ AddPart(t) \/ EndAddParts(t)
  \/ \E sym \in Symbol : \/ Load(sym) \/ AddSymbol(sym) \/ EndAddSymbol(sym)
                         \/ SymbolUnread(sym) \/ ReadCrashes(sym)

Spec == Init /\ [][Next]_vars

-----------------------------------------------------------------------------
Calls ==
  [function : {"add_sym_to_module"}, of : Symbol, next : 0..2] \cup
  [function : {"recursively_add_useful_types", "add_type_to_module", "InitType"},
   of : Type, next : Nat]

(* A name stands for a symbol or a type of that name, and only members of  *)
(* structs that were made are skipped.                                     *)
TypeOK ==
  /\ parts \in Libraries
  /\ todo \subseteq Symbol
  /\ \A n \in DOMAIN module : \/ module[n] \in types /\ TypeName[module[n]] = n
                              \/ module[n] \in Symbol /\ SymbolName[module[n]] = n
  /\ types \subseteq Type /\ bare \subseteq types /\ unread \subseteq Unreadable
  /\ \A m \in skipped : m[1] \in types /\ m[2] \in DOMAIN parts[m[1]]
  /\ error \in BOOLEAN
  /\ calls \in Seq(Calls)

(* A pointer was made to a type that cannot be handled: the only way for   *)
(* an exception to stay pending.                                           *)
Disturbed == \E p \in types : Kind[p] = "pointer" /\ Unhandled(parts[p][1])

(* A base type lost to such an exception: another object has its name, so  *)
(* nothing has asked for it before its symbol did.                         *)
Lost(t) ==
  /\ Kind[t] = "base" /\ Disturbed
  /\ TypeName[t] \in DOMAIN module /\ module[TypeName[t]] # t

(* Every global visited that could be read and whose type can be handled   *)
(* is an attribute of the module, in whatever order the symbols came and   *)
(* whatever types could not be handled on the way.                         *)
SymbolsPresent ==
  Idle => \A sym \in Symbol \ todo : SymbolType[sym] # NULL =>
    \/ SymbolName[sym] \in DOMAIN module /\ module[SymbolName[sym]] \in Symbol
    \/ sym \in unread \/ Unhandled(SymbolType[sym]) \/ Lost(SymbolType[sym])

(* Something else may have the name of the type. *)
SharesName(t) ==
  \/ \E u \in Type \ {t} : Named(u) /\ TypeName[u] = TypeName[t]
  \/ \E sym \in Symbol : SymbolName[sym] = TypeName[t]

(* The set holds the types of the symbols, the types these are built from  *)
(* and so on, but for structs that share their name with something.        *)
HoldsUseful(S) ==
  /\ \A sym \in Symbol : SymbolType[sym] # NULL => SymbolType[sym] \in S
  /\ \A t \in S : \/ Kind[t] = "struct" /\ SharesName(t)
                  \/ \A i \in DOMAIN parts[t] : parts[t][i] \in S

(* Once the library is loaded so is every struct and base type that the    *)
(* symbols are built from: a program can make the arguments of functions.  *)
TypesPresent ==
  Loaded => \E S \in SUBSET Type :
    HoldsUseful(S) /\ \A t \in S : Named(t) => TypeName[t] \in DOMAIN module

(* "Field's foreign datatype is not handled" (composite_proxy.c:42) is     *)
(* only said of fields whose type is not, and of base types that met a     *)
(* pending exception.                                                      *)
OnlyUnhandledSkipped ==
  \A m \in skipped : LET t == parts[m[1]][m[2]]
                     IN  Unhandled(t) \/ (Kind[t] = "base" /\ Disturbed)

(* exec_module returns None, so no exception may be pending by then: the   *)
(* import of a library does not fail over a type it could do without,      *)
(* unless there is a pointer to one.                                       *)
NothingPending == error => Disturbed
=============================================================================
