# A verification development for pycallocs

pycallocs lets Python use C libraries without bindings: it asks liballocs for
the types of a library, makes Python types for them, and gives Python *proxy*
objects that read and write C memory in place. Memory is then owned by Python
and by C at the same time. This directory holds TLA+ modules of the parts where
that is hard to get right, TLC configurations that check them on small
instances, and proofs that hold for every instance.

Run inside this directory, for instance, `tlc -config ProxyLifetimeMC.cfg
ProxyLifetimeMC` and `tlapm ProxyLifetimeProofs.tla`; the table in section 12
names the module of every configuration.

Sections 2 to 11 describe the modules, 12 the runs, 13 where the code does otherwise
than it says, 14 the proofs and 15 what is left out.

## 1. The system

| Part | State it keeps | Operations |
|---|---|---|
| Proxies, `proxy.c` | `proxy_dict`: chunk address → base proxy, not owned; `proxy_pointing_addr_dict`: address of a pointer → base proxy of the chunk it points to, owned; per proxy `p_ptr` and Python's reference counter | `Proxy_Register`, `Proxy_Unregister`, `Proxy_GetOrCreateBase`, `Proxy_AddRefTo`, `proxy_addref`, `proxy_delref`, `proxy_dealloc`, `Proxy_GetFrom`, `Proxy_CopyFrom`, `Proxy_StoreInto`, `Proxy_TraverseRef` |
| Composite proxies, `composite_proxy.c` | field tables of struct types | constructor, `__init__`, fields, traverse and clear, `NewType`, `InitType` |
| Address and array proxies, `address_proxy.c` | `ap_length` per proxy, `pointee_type` per type | items, slices, constructor, `__init__`, decoding and storing of pointers, traverse and clear, `NewType`, `InitType` |
| Foreign types, `foreign_type.c` | `typdict`, the table of all type objects | `ForeignType_GetOrCreate`, `ForeignType_New`, `ForeignType_Init`, `.ptr`, `.array`, `.fun` |
| Function proxies, `function_proxy.c` | call information set up on the first call; closures | calls from Python to C and from C to Python |
| Base types, `foreign_basetype.c` | none | conversion of integers, characters, floats |
| Library loader, `library_loader.c` | the Python module of a library | a symbol and its types are entered in the module |
| Bounds, `minicrunch.c` | none (not in the `sources` of `setup.py`) | length of the array a pointer points to |
| `allocs_module.c`, `elflib.py` | none | initialisation, import hook |

How they interact: the loader asks for the types of symbols, the table creates
them and the types they refer to. Python calls constructors and attribute
functions of the proxies. Each pointer store, from Python
(`__notify_ptr_write` in `addrproxy_storeinto`) or from C (instrumented when it
was compiled), makes liballocs call back `proxy_delref` and `proxy_addref`;
each free of a chunk makes it call `proxy_delref` for its pointer fields.
CPython calls `tp_dealloc`, `tp_traverse` and `tp_clear`.

What is hard here:

* There are no threads (everything runs under CPython's interpreter lock), but
  every reference that is dropped may start a cascade: the proxy is freed, its
  chunk with it, the references of the fields of the chunk are dropped, and so
  on, nested in the C stack in the middle of the operation that began it.
* A chunk has two kinds of owner that do not know each other.
* The cyclic collector works on the same references at times nobody chose.
* `__init__` can run again on an object that is in use; a constructor can fail
  half way.
* C types refer to one another in cycles, and type creation recurses over them,
  through pycallocs and through CPython's `PyType_Ready`.
* Everything that allocates a Python object may run the collector, and with it
  finalisers, which are Python code: they decode pointers and call functions in
  the middle of the creation of a proxy, of a type or of call information.
* Whether an exception is pending is a variable of the interpreter that every
  function may set, clear or trust.

The hazards this brings are listed, at their lines, in `PROJECT.json`.

## 2. ProxyLifetime

Models `proxy.c` and what goes through it in `composite_proxy.c` and
`address_proxy.c`.

*State.* Chunks are heap allocations; a chunk lives while its set of `policies`
is not empty: `manual` (C has still to call free) and `gc` (a base proxy is
registered). `field` is the pointer stored at each place: the pointer fields of
chunks (`Slot`, each with its `Owner`) and the pointer variables of C (`Var`).
Offsets inside a chunk are not told apart: a pointer is the chunk it points
into. Proxies are created and freed; `p_ptr[p] = NULL` means that `p` does not
exist now. `pointing_dict` is `proxy_pointing_addr_dict`; its keys are places
and proxies (the address of the member `p_ptr`, with which a proxy for a part of
a chunk keeps the base alive). `pyrefs` counts the references Python code holds,
`leaked` those two places of the code take and never give back. An initialisation
is `init_obj`, `init_todo` (fields still to be initialised) and `init_attrs`, whether
it is reading them from the attributes of an object.
`frame`, `caller` and `pc` are the C stack of nested `tp_dealloc` calls.
`leaked`, `condemned` and `forgotten` are history, used by properties only (and by
`Readable`, see below).

*Actions and code.*

| Actions | Code |
|---|---|
| `Construct`, `InitStore`, `InitZero`, `EndInit`, `InitFail` | the constructors of structs and arrays and `Proxy_CopyFrom`: malloc (arbitrary content), `Proxy_Register`, detach of the manual policy, then `__init__` field by field, each stored (and notified) or zeroed (not notified); a value that cannot be converted ends it |
| `ReadAttribute`, `AttributesFail` | the loop over attributes of `compositeproxy_init`: `PyObject_GetAttrString` returns a new reference that is never given back (`composite_proxy.c:108`), stored or not; when an attribute is missing or does not fit, all fields are initialised again from the arguments |
| `Reinit` | `obj.__init__(...)` on an existing object; only where `Reinits` |
| `CallbackLeaks` | `closureproxy_call`, which gives back neither its tuple of arguments nor the result of the callable (`function_proxy.c:373-385`) |
| `BeginStore`, `FinishStore` (from `SetField`, `InitStore`, `CWrite`) | `addrproxy_storeinto` and instrumented C stores: `proxy_delref` for the old pointer, everything that sets off, then `proxy_addref` for the new one and the write |
| `ReturnBase`, `ReturnDerived` | `addrproxy_getfrom`, `Proxy_GetFrom`, items and slices: the base proxy of the chunk (created if there is none) or a new proxy that keeps it alive |
| `PyIncref`, `PyDecref` | Python code copies and drops references |
| `Unregister`, `Sweep`, `EndSweep`, `Unmap`, `DropOwnRef`, `FreeObject` | `proxy_dealloc` in its order: detach of the policy, liballocs lets go of the fields of a chunk it frees, `proxy_dict` forgets the address, the proxy's own entry, `tp_free` |
| `CMalloc`, `CWrite`, `CFree`, `CFreeSweep`, `CFreeEnd` | C code that obeys the rules of C; external |
| `Collect`, `ClearStart`, `ClearSlot`, `ClearEnd` | CPython's collector with generations; what it finds is what `tp_traverse` reports, what it does is `tp_clear` (`Proxy_TraverseRef` with `Proxy_ClearRef`) |

Only the start of an operation needs `Idle`; its remaining steps are `Runtime`,
so the nesting of deallocations in stores, initialisers, frees and collections
is all there. liballocs and CPython are not part of the repository and are
modelled from how the code uses them: liballocs calls `proxy_delref` for the old
target and `proxy_addref` for the new one only for chunks with the gc policy,
frees a chunk with its last policy, and notifies the pointer fields of what it
frees; CPython's collector looks at base proxies (`proxy_is_gc`), ages the
survivors, and starts to track a dictionary when a tracked object enters it.

C is assumed to obey its own rules: it touches memory it owns or points to,
loads a pointer into a variable that holds NULL, and frees nothing it has an
untracked pointer to. Were a load to overwrite a live pointer
(`head = head->next`), the order "delref, then addref" could free the new
target; the assertion at `proxy.c:20` forces that order.

*Properties* (all invariants unless said otherwise).

* `CountsExact`: each reference counter is the number of references that exist, those
  that were leaked at the two places above among them: no other path loses one or gives
  one back twice.
* `EntriesSound`: each recorded pointer keeps alive the registered base proxy
  of a chunk that is alive.
* `PolicyHasProxy`: gc policy and usable base proxy come together.
* `HeldMemoryAlive`: memory Python holds a proxy to is not freed.
* `NoDangling`: no readable pointer points to freed memory. "Readable"
  (`Readable`) leaves out fields that are not initialised yet, chunks whose last
  proxy is being deallocated, and what a collection has taken; the last
  exception is what `LifetimeExtended` is about.
* `NoStaleEntries`: where `Reinits` is false, so that no field is initialised a second
  time (by another `__init__`, or after attributes some of which were stored before one
  did not fit), only pointers that are in memory are recorded.
* `ClearedIsFreed`: what the collector takes it frees, unless C owns some of it.
* `OperationsEnd` (liveness): every operation comes to an end.

*Statements of the code that do not hold.* `FreshFrom` (the assertion at
`proxy.c:20`), `LifetimeExtended` (the comment at `proxy.c:89`) and
`CyclesReclaimed` (what `tests/gc_struct_cycle.py` expects of the collector);
each has a run that shows the counterexample, explained under "findings" in
`PROJECT.json`. `FreshFrom` holds where `Reinits` is false: as an invariant of
TwoFields.cfg it is not violated.

## 3. ForeignTypes

Models `ForeignType_GetOrCreate` and the `NewType` and `InitType` functions of
structs, pointers and arrays. `related` is what the types refer to and `unions` says
which composite types have all their members at offset 0; both are chosen in
`Init`, among `Libraries` and `Unions`, so one run covers many programs. `stack` is the C
stack of `InitType` and `PyType_Ready` calls: `Create` enters a new type and
calls `InitType` on it; `CreateMember`, `ResolveMember` and `SkipMember` are the
loop over the members (one member for pointers and arrays); `EndInitType` ends
in `PyType_Ready` for types with a proxy type of their own; `ReadyBase` and
`EndReady` are CPython's, which readies the base first and then fixes the
ancestors (`tp_mro`) for good. Function types count as plain: making one creates
no other type (their types are looked up on the first call).

* `TableFinished`: when the outermost call returns, every type in the table is
  finished, however the types refer to one another.
* `PointerInherits`: a pointer to a struct is readied after the struct and has
  all its ancestors (also if the struct itself is half way through `InitType`).
* `FirstMemberUnlessCyclic`: a struct is a subtype of its first member unless that
  leads back to the struct, whichever of the other types are unions.
* `RequestsReturn` (liveness): the recursion ends.
* Violated: `FirstMember`, the comment at `composite_proxy.c:335` without that
  restriction, and `PointeeFilled`, the comment at `address_proxy.c:377`.

## 4. ManagedHeap and HeapRefinement

`ManagedHeap` is what the code of section 2 is for, without any of its means: a
heap whose chunks are claimed by C (`owned`), by Python (`held`) and by recorded
pointers (`recorded`), where a chunk can only be freed when nobody claims it.
`HeapRefinement` maps the state of `ProxyLifetime` to it: a chunk is alive while
it has a policy, owned while it has the manual one, held while Python holds a
proxy to it or a reference to one was leaked (`Keeps`), and a recorded pointer claims
the chunk of the base proxy its entry names.

* `ImplementsHeap`: every behaviour of `ProxyLifetime` is, through that mapping,
  one of `ManagedHeap`: each step of an operation changes the claims of one party,
  and no chunk goes while it is claimed.
* `AbandonedReclaimed` (liveness): a chunk nobody claims is freed or claimed again, so
  that there is always a later moment without such chunks, on every path through
  constructors that fail, stores, loads and deallocations. A reference that was leaked
  is a claim that never ends: what an attribute or a callback has leaked stays for ever,
  and of that nothing is said (section 13). Chunks in a cycle claim one another; what
  becomes of them is `CyclesReclaimed`.

## 5. BaseCreation

`ProxyLifetime` creates a base proxy in one step. `BaseCreation` takes
`Proxy_GetOrCreateBase` and `Proxy_GetFrom` apart where they allocate. `calls` is
the C stack of decodings; each is creating the type of the chunk (`"type"`), the
base proxy (`"base"`, while `creating_base` is set) or the proxy it returns
(`"proxy"`). Between any two steps a finaliser may decode (`Decode`), drop
proxies (`Drop`, with `Dealloc`) or call C (`CMalloc`, `CFree`). `Lookup` is the
part of the function before its first allocation.

* `RegisteredOnce`: no chunk is registered twice (the assertion at `proxy.c:80`),
  unless it was decoded inside the creation of its own type. The history variable
  `raced` records that; what else finalisers decode does no harm.
* `BaseKept`: a base stays registered while Python, a proxy or a decoding in
  progress refers to it.
* `HeldAliveUninterrupted`: what Python holds is alive, until a decoding begins
  inside the creation of a base (`interrupted`). Decodings inside the creation of a
  type or of a proxy do no harm.

C frees no chunk a decoding is about, because it is C's caller that decodes.

## 6. FunctionSetup

Models `funproxytype_setup`, which the first call of a function, or the first
closure for its type, runs. `Enter` is the test whether there is anything to do;
`RetFound` and `RetFails` the type of the result; `Argument` one turn of the loop
over the arguments; `Finish`, `Prepared` and `Undone` its end. `arrays` are the
`ff_argtypes` arrays malloc has returned, with what they hold, so that a pointer
to a freed one can be told from one to an array in use; `refs` counts the
references to types. A type is known once it was created; creating one may run a
finaliser, and so `Enter` again (`Creating`).

* `AllOrNothing`: between calls exactly what complete function types use is
  taken, however often a set-up failed and was tried again. A type has one reference
  for each place of a complete function type that holds it (`Uses`).
* `SetupContract`: a set-up that returns success has left everything in place,
  nested ones too.
* `NoStaleArray`: freed arrays are not touched, and replaced ones not either, as long
  as finalisers call no function of a type that is being set up, or no set-up fails.

## 7. ForeignCall

Models `funproxy_call` and `closureproxy_call`. `stack` is the C stack: a call
that stores its arguments (`"store"`), one that is in C (`"C"`), a closure that
runs Python code (`"closure"`). `Call` is the first pass over the arguments, which
takes the data pointers and adds up the size of the buffer (`ArgSize`, from the
running sum `BytesTaken`); `SkipArg`, `StoreArg` and `StoreFails` are the second pass,
in which Python code may run; `EnterC`, `Callback`, `CallableReturns`, `LeaveC` are the
way into C and back. `err` is the pending exception. Types have sizes; values are
`"native"` (its data can be used in place), `"converted"` or `"bad"`.

A call begins with `funproxytype_setup`. Its steps are in section 6; what the call
sees of them is here: `SetupFails`, or a type that is `ready`. A parameter or result
that points to something unhandled, an enumeration say, is `Hollow`: its type is made
without `pointee_type`, and although the set-up succeeds the exception of
`foreign_type.c:149` stays set (`LeftBySetup`). Conversions that look at
`PyErr_Occurred` (`Checked`) take it for their own failure; the others go on, and the
call remembers it (`pending`). Decoding a pointer, of an argument of a callback or of a
result, may create the type of what it points to and leave an exception in the same way
(`LeftByDecoding`).

What the code reads of a NULL ends the program (`Crash`, `crashed`): the missing
`pointee_type` of a hollow type, when an argument is compared with it (`CallCrashes`),
when one is decoded for a callback (`CallbackCrashes`), when a result is (`ResultCrashes`)
or when a callable returns something for it (`CallableFails`); and the NULL that
`closureproxy_call` passes to `ft_storeinto` when its callable has raised
(`CallableRaises`), which fails with an exception for integers, floats and `void`
(`NullSafe`) and is read for pointers, structs, truth values and characters. Where it
fails, C goes on without a result (`Unstored`).

* `ArgsComplete`: C is entered with every argument in its object or in bytes of
  the buffer that it shares with no other.
* `ResultXorError`: NULL is returned with an exception only, and an exception only
  with NULL, unless a callback of the call failed or the type of a pointer to something
  unhandled was made for it; the latter only where there are such types.

## 8. Closures

Models the constructor and the deallocation of closures (`Create`, `CreateFails`,
`Dealloc`) with their registration, the references of Python, and the pointers
stored to them (`StorePointer`). `Managed` are the closures whose code lies in
memory liballocs manages: libffi takes it from mmap, so in the program as it runs there
are none. The run that passes has one closure of each kind.

* `CallableKept`: a callable has one reference per closure that can call it.
* `RegisteredLive` (proved, not run): exactly the live closures are registered.
* Violated: `StoredCallable`, that a closure a struct points to can be called, as
  `tests/closure_lifetime.py` relies on. With `Managed = {}` the pointer is not recorded,
  and the code goes with the last proxy.

## 9. Bounds and ArrayView

`Bounds` is the computation of the length of the array a pointer points to:
`addrproxy_initlength` (`Length`) and `__fetch_bounds_internal` of `minicrunch.c`
(`FetchBounds`) with its callback (`bounds_cb`), over types as trees of structs,
arrays and scalars. `Spanning` is liballocs' search for the subobjects at an
address. The caches of `minicrunch.c` are left out, and so are the addresses of
which no allocator knows anything but that they are bad. `PointerLengths` makes a
state of each pointer and compares the length with a definition that looks at all
subobjects at once.

* `WithinAllocation`: a length never reaches past the allocation.
* `LengthOfArray` (`WholeArray` and `SingleCell`): "Compute the length of the
  pointed array (= 1 for pointer to single cell)", `address_proxy.c:204`, for
  pointees that are no characters and arrays smaller than an `unsigned int` can
  count.

`ArrayView` models items, slices, constructors, `__init__` and decoding of
pointers, on memory of one cell per item. A view (`proxy`) has `p_ptr`,
`ap_length` and the base it keeps; `Owner` says whether an array was made by
Python, by C, or is a global in static memory; `Slack` is what malloc adds to a
chunk. The length of a decoded pointer is a constant, `DecodedLength`, of which
`DecodedLengthAssumption` says no more than what `PointerLengths` checks: it is a natural
number and never reaches past the array. In the run it is `Bounds!Length`, and
TLC evaluates the assumption for it, so the two modules meet in the run, while the
proofs about views hold for any way of computing lengths that keeps to it.
`MallocAssumption` says that allocations do not overlap.

* `ViewsExist`: whatever is sliced from whatever, a view that Python can use shows
  items of an array that exists, and slicing it finds its base proxy.
* `NoJunk`: no item a view shows is memory nobody wrote.
* `SlicedLikeList`: a slice shows the items a slice of a Python list would keep.
* `WritesInView`: assignments and `__init__` change no item outside the view, for
  indices that are not negative.

`Decode` returns the base proxy itself when its type fits (`Structs`, and pointers to
`void`), which for a pointer to a later item shows the array from its start. That is
what the code sets out to do; no property is about it.

## 10. CompositeInit and BaseTypes

`CompositeInit` is `compositeproxy_init`: which argument becomes which field. The
result of an initialiser is a function of the memory and the call
(`InitFrom`), made of the loops over attributes (`FromAttributes`) and over
arguments (`FromArguments`); the actions are the constructor, `__init__` again, and
the release. A call has positional arguments and keywords, or is the conversion of
one object: a dictionary, an object with attributes, a struct, a plain value.

* `FieldsAsGiven`: a handled field holds what the call gives it by Python's rules
  of binding, or zero, although an attempt to read attributes may have written
  some fields before it gave up; and no handled field Python can read was left as
  malloc returned it (`NoJunk` of `CompositeInit`).

`BaseTypes` is `foreign_basetype.c` on bytes of `ByteRange` values: which types are
handled, what is read, what a store accepts and writes. `Power` has the weights of the
bytes. `Assumptions` says of the constants what holds of C: a byte has an even number
of values, at least two, and no number is wider than a `long long`.

* `ReadsBack`: what was stored without an exception is read back, and numbers that
  are read can be stored (`NumbersStorable`).
* `StoresInPlace`: a store writes its own bytes only.

## 11. LibraryLoad and ForeignLibrary

`LibraryLoad` models `libloader_exec`, `add_sym_to_module` and all they call, one step
at a time, down to the exceptions each function leaves pending. `calls` is the stack of
the functions in progress, each with what it is for and the turn its loop has come to;
`module`, `types` and `error` are the attributes of the module, the table of types and
the pending exception. `Load` is a symbol that `dl_iterate_syms` comes to, in any order;
`AddType` to `EndAddParts` are `recursively_add_useful_types`, `InitMember` to
`EndInitType` the recursion of `ForeignType_GetOrCreate` and `ForeignType_Init`, and
`AddSymbol`, `EndAddSymbol` the rest of `add_sym_to_module`. A symbol of `Unreadable`
may be one `ft_getfrom` makes no object for: it is left out and the exception dropped
(`SymbolUnread`). A pointer type without `pointee_type` is `bare`; reading a symbol of such
a type that is not NULL ends the program (`ReadCrashes`, `Crashed`). `ForeignLibrary`
puts it beside `ForeignTypes`, which says what the types of the table are like, and states:

* `ImportComplete`: unless the import crashes, every global (`SymbolsPresent`) and every
  struct or base type it is built from (`TypesPresent`) is in the module, unless it cannot
  be handled, could not be read or its name is taken, and only members that cannot be
  handled are skipped (`OnlyUnhandledSkipped`). Base types may be lost to a pending
  exception (`Lost`).
* `NothingPending`: no exception is pending while a library is imported, unless there is
  a pointer to something that cannot be handled (`Disturbed`, see section 13).

Array types count as pointers to their items here: both have one part and add
nothing to the module. The types that reading a pointer to the heap creates are not
entered here: that decoding is section 5.

## 12. The runs

| Run | Module | Configuration | Instance | Shows |
|---|---|---|---|---|
| `proxy_lifetime` | ProxyLifetimeMC | ProxyLifetimeMC.cfg | two chunks with one pointer field each (lists, self references, cycles of two), three proxies, one C variable, `__init__` again, two generations; 4.4 million states | type invariant and six invariants |
| `two_fields` | HeapRefinementMC | TwoFields.cfg | a chunk with two fields and one without any, two proxies, one leaked reference, no second `__init__`; 1.2 million states | `CountsExact`, `NoStaleEntries`, `ImplementsHeap`, `AbandonedReclaimed`, `OperationsEnd` |
| `fresh_from`, `lifetime_extended`, `cycles_reclaimed` | ProxyLifetimeMC | FreshFrom.cfg, LifetimeExtended.cfg, CyclesReclaimed.cfg | small instances | counterexamples |
| `foreign_types` | LibraryLoadMC | ForeignTypesMC.cfg | two composites with up to two members out of themselves, their pointers, an array of pointers, a base type, an enum and a pointer to it: 1197 programs, each of them with the larger composite a struct and a union; types requested in any order. Two libraries of eight symbols over sixteen types, one with a pointer to an enum, two of the symbols such that they may not be readable. 755 thousand states | sections 3 and 11 |
| `first_member`, `pointee_filled` | ForeignTypesMC | FirstMember.cfg, PointeeFilled.cfg | the programs above | counterexamples |
| `base_creation` | BaseCreationMC | BaseCreation.cfg | decodings nested three deep, of a type that exists or not; 14 thousand states | section 5 |
| `function_proxies` | FunctionProxiesMC | FunctionProxies.cfg | seven signatures with each way to fail (result or argument without type or encoding, refused by libffi, no single result), three that can be completed in set-ups three deep; four functions of up to three parameters and every kind of result, one with a pointer to an enum, nested four deep (two calls, two callbacks); three closures, one in managed memory, and two fields; 695 thousand states | sections 6, 7, 8 |
| `stored_callable` | FunctionProxiesMC | StoredCallable.cfg | the same, no closure in managed memory | counterexample |
| `foreign_data` | ForeignDataMC | ForeignData.cfg | two arrays next to one another, one of Python and one of structs of C, and two views; every pointer into some twenty allocations, as nine pointee types; a struct of two handled fields and one that is not, every form of call; three bytes of four values and every handled type of one and two bytes; 50 thousand states, 13.5 million steps | sections 9 and 10 |

*Sums.* Models that share no variable and no action are checked side by side: in
`ForeignLibrary`, `FunctionProxies` and `ForeignData` the variable `component` is
chosen in the initial state, and a behaviour is one of that component while the
variables of the others stay as they began; `ForeignDataMC` adds `PointerLengths` to
`ForeignData`, whose recursive operators keep it out of the module of the proofs. So
nothing is multiplied, and a property of one component is as good as checked alone.
What the components do to each other is in the modules themselves: `ArrayView` takes its
lengths from `Bounds`, `LibraryLoad` creates types, `ForeignCall` is nested with closures.

*Bounds.* In `ProxyLifetime`, `MaxHeld` bounds the references Python has to proxies, over
all of them, and `MaxShared` those to a proxy it has another reference to. Two references,
to one proxy or to two, tell a counter from a flag (`proxy_lifetime` has both cases); what
else exists is kept by entries. `MaxLeaked` bounds the leaked ones: a leaked reference
does nothing more, so one shows what it does to counters and to what it keeps; `two_fields`
has it, and `ReadAttribute` and `CallbackLeaks` never fire in the other. `MaxPyRef` bounds
the references of Python to a closure in `Closures`. `OldestGen` is 1 (two generations;
CPython has three): what matters is whether the dictionary is younger than what is
collected, and whether an object can age past it. Two chunks make cycles through another
chunk and through itself, and nested deallocations (in `two_fields`, where only one chunk
has fields, through itself); three proxies are two bases and one proxy inside a chunk.
Proxies are symmetric, and so are chunks with as many fields; liveness runs do without
symmetry. `MaxDepth` bounds nested decodings, set-ups and calls: three deep is an
operation inside an operation inside an operation, and each looks only at its own frame
and at variables all share. `MaxArray` in `FunctionSetup` is more than the arrays that can
be in use at once. In `BaseTypes` a byte has four values and a `long long` 64: what the
code does depends on limits of widths, all of which are met. `UIntRange` in `Bounds`
stands for the 2^32 values of an `unsigned int` and is larger than every allocation of
`PointerLengths`. `Index` in `ArrayView` leaves out negative indices (see below), which
the other properties need not survive. The proofs have no bounds.

*Fairness.* `OperationsEnd`, `AbandonedReclaimed` and `RequestsReturn` assume only
that C code, once begun, runs on (weak fairness of `Runtime`, of `TypesStep`): nothing
blocks in it. `CyclesReclaimed` assumes besides that the collector runs every
generation again and again, the most a program can hope for, so that its failure
is not for want of collections.

*Deadlock* is checked in every run. Where the code has nothing more to do, a
behaviour may end, and the ends are named: `Imported` when all symbols are loaded,
`ClosuresEnded` when no address is left for a closure (addresses are not used again),
`Ended` and `Aborted` when an assertion has failed and the process with it, `Crashed` (of
`ForeignCall` and of the import) when a NULL has been read.

Each property is checked against a mutant of the model: operators marked "Mutant"
or "A bug" in the modules are definitions with a plausible bug (a reference not
counted, a policy not attached, a write not announced, a loop that ends early),
listed in `PROJECT.json`, under which the property fails.

## 13. Where the code does otherwise than it says

Six statements of the code have a run of their own with a counterexample
(`fresh_from`, `lifetime_extended`, `cycles_reclaimed`, `first_member`,
`pointee_filled`, `stored_callable`). The others are known from the models too. For each, the
property above is stated for the case in which it holds, and giving a constant
another value shows the counterexample.

* *Base registered twice* (`proxy.c:140`). `Proxy_GetOrCreateBase` looks into
  `proxy_dict`, creates the type of the chunk, and sets `creating_base` only then. A
  finaliser that runs in between and decodes a pointer to the same chunk registers a
  base; the outer call registers a second, which `proxy.c:80` asserts cannot be.
  `RegisteredOnce` without `raced`, that is `~failed`, is violated in `BaseCreation`.
* *No base inside the creation of a base* (`proxy.c:119`). While `creating_base` is
  set every caller gets NULL, not only the recursive one: a finaliser's proxy does not
  keep its chunk alive. `HeldAlive` of `BaseCreation` is violated when decodings nest.
* *Set-up entered again* (`function_proxy.c:199`). A set-up that fails inside one of
  the same type frees the array the outer one fills. `NoStaleArray` with `MaxDepth` 2
  and a signature that cannot be completed.
* *Attributes leak* (`composite_proxy.c:108`). `PyObject_GetAttrString` returns a new
  reference that is never given back. An attribute that is a proxy keeps its counter and
  its chunk for ever: `ReadAttribute` counts it in `leaked`, and without that term
  `CountsExact` is violated in `two_fields`.
* *Callbacks leak* (`function_proxy.c:373-385`). The tuple of arguments and the result of
  the callable are never given back: `CallbackLeaks`, with the same effect.
* *Half of the attributes* (`composite_proxy.c:112`). When an attribute does not fit after
  others were stored, the fields are initialised again, and those that get nothing are
  zeroed by memset: stale entries stay, as after a second `__init__` (`fresh_from`).
* *Keys leak* (`proxy.c:283-288`). `Proxy_TraverseRef` returns without giving back its key
  when it was called to clear. An int object is lost for each field the collector clears;
  the modules do not count ints.
* *Exceptions left by set-ups* (`function_proxy.c:254`). A function with a pointer to an
  enum among its parameters is set up with success and an exception: the call goes on,
  fails at the first number it converts, or returns a value with an exception set.
  `ResultXorError` without `pending` is violated in `function_proxies`.
* *NULL dereferenced* (`address_proxy.c:42, 209, 242, 289, 353`, `proxy.c:237`). The
  import of a library crashes on a global pointer to an enum that is not NULL
  (`ReadCrashes`), calls on a parameter or result of that type, and closures whose callable
  raises when they are to return a pointer, a struct, a truth value or a character
  (`CallableRaises`).
* *Result not checked* (`function_proxy.c:385`). For the other types `closureproxy_call`
  lets C go on with a result nobody stored and an exception that is set: `Unstored`.
* *No closure* (`function_proxy.c:412`). `ffi_closure_alloc` can return NULL for want of
  memory, which is not looked at. The modules have no closure without code.
* *Bounds in an unsigned int* (`include/minicrunch.h:6`). Arrays of 2^32 bytes and
  more get the wrong length: `Large` above `UIntRange` in `PointerLengths`.
* *Character arrays* (`minicrunch.c:167`). For pointers to characters the bounds are
  those of the allocation: an array that is the first member of a struct gets the
  length of the struct, one further inside length 1. `Pointees` set to `"char"`.
* *Slices without base* (`address_proxy.c:70`). Arrays in static memory have none, so
  slicing them fails the assertion: `Owner <- PythonAndStatic`. The same happens to
  an empty slice at the end of a chunk, which is why `ViewsExist` speaks of views with
  items.
* *Negative indices* (`address_proxy.c:90`). `addrproxy_ass_item` has no lower limit,
  and CPython adds the length once: assigning to an index below minus the length
  writes in front of the array. `Index <- Behind` violates `WritesInView`.
* *Struct elements* (`address_proxy.c:251`). A pointer to the second struct of an array
  decodes to the base proxy, which starts at the first: `Decode` for the chunks of
  `Structs`, of which the run has one. The code means to do so and trusts liballocs to type
  arrays as arrays.
* *Unions* (`composite_proxy.c:159`). Members without argument are zeroed over the one
  that was given. `Place <- UnionPlace` violates `FieldsAsGiven`.
* *Objects without the first attribute* (`composite_proxy.c:102`). When the attributes
  of an object do not match, the code goes on with the object as the first positional
  argument, for which `i < nargs` asks the position among all fields. If the first field
  is one that is not handled, nobody takes the object: the fields are zeroed and the
  call succeeds. `Handled <- {"y"}` violates `FieldsAsGiven`; where the first field is
  handled the theorem `FieldsAlwaysAsGiven` says it cannot happen.
* *Arguments ignored* (`composite_proxy.c:164`). Neither "Too many positional
  arguments" nor "Invalid keyword arguments" is ever raised, since the number of
  initialised fields cannot exceed that of arguments; `FromArguments` has no such
  error.
* *Unrecognised fields* (`composite_proxy.c:109`). The loop over attributes does not
  skip them, unlike the loop over arguments, and calls through a NULL type: the outcome
  `"crash"`, for an object that has an attribute of that name.
* *Pending exceptions* (`foreign_basetype.c:288`). `AddressProxy_InitType` leaves one
  behind for a pointer to an enum (`address_proxy.c:415`), and `ForeignBaseType_New`
  takes it for its own: the next new base type is refused and a member skipped for
  good. It takes a pointer to something that cannot be handled, `Disturbed`, which one
  of the libraries of the run has: `Disturbed == FALSE` violates `NothingPending` and
  `ImportComplete`.
* *Characters above 127* (`foreign_basetype.c:142`). A byte that was read from a signed
  char is refused when stored back, as the number is taken as unsigned on the way;
  `NumbersStorable` is stated for numbers only.

## 14. The proofs

All of them hold for every value of the constants, under the named assumptions of
the modules, unless a hypothesis is mentioned.

`ProxyLifetimeProofs` proves `TypeCorrect`, `CountsAlwaysExact`,
`PolicyAlwaysHasProxy`, `EntriesAlwaysSound` and `HeldMemoryAlwaysAlive`, for every
number of chunks, fields, variables and proxies, any assignment of fields to
chunks, any bound on Python's references and any number of generations. They share
one inductive invariant, `IInv`. The properties are not inductive by
themselves: that a counter is right does not say that the object it belongs to
exists, nor that the proxy a deallocation returns to was suspended in a state
that fits. `IInv` adds `Shape`: which proxies exist and what their counters may
be; that the frames of the deallocation stack form a chain whose members are
exactly the proxies that are being deallocated, all without references
(`Stacked`); that `proxy_dict` and the policies fit together (`Registry`); where
in a free the fields of a chunk may still be set (`Sweeping`); that entries name
base proxies and each proxy inside a chunk has one (`EntriesBase`, `Anchored`);
that what the collector has still to clear exists (`Collecting`). `Building`
ties the initialiser to its object. There is a lemma per action and one for each
way a counter changes (`DropRef`, `TakeRef`); cardinalities come from
`FiniteSetTheorems`.

The module has three parts. The second proves `HeapImplemented`: `ProxyLifetime`
implements `ManagedHeap`. The initial states map to the initial state; for each action a lemma
says which action of the heap, or which stutter, it is through the mapping. The
steps that free a chunk are where `IInv` is needed: that nobody claims the chunk
follows from the exactness of the counters (a proxy that is being deallocated has
no references, so neither Python nor an entry has one) and from `Registry`.
`ClaimedAlwaysAlive` takes a property of the abstract heap back to the code: what C
owns, what Python holds and what a recorded pointer points to exists.

`CountsAlwaysExact` is about the references that exist, which include those that were
leaked: they keep their proxies, so for `IInv` they are references like Python's own
(a proxy that is being deallocated has none). What the theorem excludes is any other
loss, and any reference given back twice.

The third part, about pointers in memory, proves `NeverDangling`. Its invariant, `PInv`,
adds to `IInv` what the pointers in memory mean. `Tracked`: a pointer the program can read
is to memory C owns or has an entry, and that entry is for the chunk the pointer is to;
with `EntriesSound` the chunk is alive. It is not inductive alone, since a store is
announced before it is done: between `proxy_delref` and `proxy_addref` a cascade of
deallocations runs. So `ValueSafe` says where the pointer that is being stored was taken
from (a proxy Python holds, a variable of C, a field of an object Python holds) and that
what it was taken from outlasts the cascade. `Fresh` says that nobody but its constructor
knows a new object: that is why a constructor that fails half way, over fields with junk
in them, leaves nothing behind. `Phases` and `Initialising` say which operations can be
under way together.

The rest of the third part is about the collector and proves
`CondemnedAlwaysFreed`. Its invariant, `CInv`, says of each
chunk a collection has condemned that nothing leads to it except fields of condemned
chunks, through every step of `tp_clear` and the deallocations nested in it
(`Unreachable`), and that a slot whose entry the collector took has none
(`ForgottenBare`). When the pass is over no entry is left for such a chunk, so its
counter would have been zero and it is gone. `EntriesNeverStale` is the converse of
`Tracked`: where `__init__` never runs again (`Reinits` is false) every entry names
what is in memory. From its invariant, `FitInv`, follow two results that no run needs
to check any more: `FreshWithoutReinit`, the assertion at `proxy.c:20` under that
hypothesis (without it the run `fresh_from` violates it), and `NothingHalfCleared`,
`ClearedIsFreed` without its condition on stale entries.

`BaseCreationProofs` proves the three properties of its run, for any number of chunks,
proxies and types and any depth of nesting. `AlwaysRegisteredOnce`: the invariant,
`IInv`, says that the flag is set exactly while a decoding is creating a base, that
those which began later create nothing, and, as long as `raced` is false, that the
chunks still to be registered are different ones and have no base. `BaseAlwaysKept`:
its invariant, `KInv`, says that each entry of `proxy_dict` is for the chunk of its
proxy and that every anchor and every decoding in progress refers to a registered base;
a drop takes only proxies nobody refers to (`DropTakesUnreferenced`).
`UninterruptedHeldAlive` takes from it that every proxy Python holds has its memory;
`HInv` adds that, as long as `interrupted` is false, only the running decoding creates a
base, every other has one before it makes its proxy, and each proxy held is a base or
keeps one of the same chunk.

`FunctionSetupProofs` proves `NothingLost`, `SetupKeepsContract` and `ArrayNeverStale`
for all signatures and all sets of types that cannot be used. The runs check the three
as `AllOrNothing`, `SetupContract` and `NoStaleArray` of `FunctionProxies`. For
set-ups that do not nest (`MaxDepth = 1`) the invariant, `AInv`, says that the array of
the running set-up is filled as far as it has come and ended (`OnTheWay`), that each
array in use belongs to one function type (`Owned`), and what the counter of each type
is made of: its places in complete function types and those the running set-up has
behind it (`Counted`). The last is what makes giving back exact: `Undone` drops one
reference for each entry up to the end of the array, and the array ends behind the
argument that failed. For set-ups inside set-ups, `SetupKeepsContract` and
`ArrayNeverStale` hold to any depth if every set-up can be completed (`Completable`).
`NInv` says that only the innermost set-up and those of other function types have
arrays to themselves (`Apart`), and that once a function type was completed inside an
outer set-up of its own, all its types are known, so the outer one, which starts an
array of its own, runs on without interruption (`Settled`). The hypothesis is needed:
with a signature that fails, an inner set-up frees the array of the outer one
(section 13).

`ForeignCallProofs` proves `ArgumentsComplete`, `NullMeansException` and the types of
`ForeignCall`, for every set of types, all signatures and any number of nested calls (the
run checks them as `ArgsComplete` and `ResultXorError` of `FunctionProxies`). The
invariant, `FInv`, says of every call on the stack, not only of the running one, that its
buffer is filled exactly as far as the arguments already placed take (`Sound`). The two
passes over the arguments then agree: what is placed last ends where the first pass
stopped adding. `WellNested` says who is above whom on the stack, and `Raised` where an
exception that is set can be: on its way through Python code, left in C by a callback that
failed, or left in a call by its set-up (`pending`). Those two are the cases in which a
call returns a value and leaves an exception; `OnlyPending` is the lemma that a call which
converts an argument has no exception but one its set-up has left. A crash ends the
behaviour and returns nothing. The sum is a recursive function, of which nothing is known
before it is shown that its defining equation has a solution (`BytesTakenDefined`). That
takes induction, which the module derives in the form the provers can use, about a set
rather than a predicate (`SetInduction`), from the library's theorem that finite sets are
well-founded under strict inclusion. Sizes are natural numbers here, whereas `argsize` is
an `unsigned`: the theorem is about calls whose arguments take less than 4 GB of the C
stack.

`FunctionProxiesProofs` begins with `Closures` and proves `CallableAlwaysKept` and
`RegistryAlwaysLive`, whichever closures are in managed memory. `StoredCallable` does not
hold of the program (section 8), and nothing is proved of it.

Its second part is about the whole of `FunctionProxies`, as the run checks it. A
behaviour of the whole is one of closures, one of calls, and one of set-ups, of one of
the two instances throughout (`ClosuresBehave`, `CallsBehave`, `SetupsBehave`): what a
behaviour is not about stands still in a state it may begin in. The theorems of the three
components are then cited for the instances, with the assumptions of `FunctionProxies` for
their hypotheses, and give the six properties of the run about function types and calls:
`ComponentsTypeCorrect`, `SetupsKeepContract`, `SetupsLoseNothing`,
`SetupsUseNoStaleArray`, `CallsHaveArguments` and `CallsReturnNullOnException`. That
signatures of nested set-ups can be completed is an assumption there
(`NestedAssumption`), on the second instance only: section 13 has the reason.

`ForeignLibraryProofs` begins with `ForeignTypes` and proves `TypeCorrect`,
`TableAlwaysFinished`, `PointerAlwaysInherits` and `FirstMemberInheritedUnlessCyclic` for
every set of types, every way they refer to one another and any of them being unions. The
invariant says of each type: members the loop has passed have been found or left out
(`Passed`); a type in the table whose loop or whose `PyType_Ready` is not done has a call
on the stack (`Pending`); a pointer's base is set before `PyType_Ready` runs on it
(`PointerBase`); bases are structs (`BaseComposite`). `Pending` is what makes an empty
stack imply finished types. The last theorem is `FirstMemberUnlessCyclic` and has an
invariant of its own, `FirstInv`. A struct misses its first member as an ancestor only if
`PyType_Ready` runs on it before its loop has passed that member. By `Pending` its
`InitType` is then still on the stack, below, and `Inside` says that all calls above an
`InitType` that waits for its first member are for types that member refers to, directly
or not (`Reaches`): so it leads back to the struct.

The second part is about the import, of any library: `ImportAlwaysComplete` and
`ImportLeavesNothing`, and `TypesBesidesImport` about the whole. That a recursion over
types comes to all of them would take an induction over what they are built from, which
may be cyclic; the invariant does without. A set of types is `Followed` when every type of
it is in the module, or is not one that is added and has all its parts in the set; the
union of these sets is `Covered`. It grows with the module, a type that has been added is
covered, and so is a pointer or function all parts of which are. Each call that has made
another waits for the one type it has asked for (`Asked`), a call of
`recursively_add_useful_types` has the parts it has passed covered, and when it returns so
is its own type (`StackInv`). Then the type of a symbol is covered, or waited for by the
call at the bottom of the stack (`SymbolInv`), and the members of a struct in the module
are covered, or their loop runs (`StructInv`), unless something else gave the struct its
name. With no call left only the first half of each remains, and `Covered` is the set
`TypesPresent` asks for. A symbol itself can only be lost with its type (`Lost`), since
`add_type_to_module` has already asked for it, with no exception pending, unless its name
was taken; or because it could not be read (`unread`), which is an excuse for that symbol
alone and not for the types it is built from. An import that crashes ends with calls on
the stack, and the theorem says nothing of it.

`ForeignDataProofs` begins with `ArrayView` and proves `TypeCorrect`, `ViewsAlwaysExist`,
`ShownIsAllocated`, `NeverJunk`, `SlicesLikeLists` and `WritesAlwaysInView`, for chunks of
any sizes wherever they lie, any number of views, any sequences and any bounds of slices.
None of the properties is inductive by itself: that a view is of an array that exists
depends on who keeps the array. The invariant says that a base proxy is for a chunk that
exists, is not static, and shows the whole of it (`Bases`); that whoever is held by a view
exists (`Kept`); that a view with items shows items of one chunk and holds its base proxy,
unless the chunk is static (`Viewing`); that nothing is unwritten in chunks that exist
(`Written`); and which view has failed the assertion (`Asserted`). `Viewing` and `Kept`
are why a slice of a slice finds a base proxy although what it was taken from may be gone,
and why the chunk is freed with the last view only. `SlicesLikeLists` is about
`PySlice_AdjustIndices` as the code uses it: clamping both ends (`ClampInside`) keeps
exactly the items a list would.

Two of these have hypotheses, and each is needed: the case it leaves out is one of
section 13. `ViewsAlwaysExist` is for programs without arrays in static memory, whose
slices find no base; for all programs `ShownIsAllocated` says the rest of it.
`WritesAlwaysInView` is for indices that are not negative.

The second part of `ForeignDataProofs` is about base types, of any width: `ValuesReadBack`
and `StoresStayInPlace`. The invariant, `BInv`, says that the bytes of the last store are
the digits of its number in base `ByteRange` (`Spelled`). That the getter, which adds up
bytes times their weights, has the number again is division with remainder, one digit
after the other (`NextDigit`, `UnsignedValue`), and two's complement gives back the sign
of whatever passed the checks (`MeantFits`). That what is read can be stored needs
`ByteRange` to be even: with an odd one the least negative number would have no place.
Both recursive functions, the weights and the sum, are shown to have solutions by one
lemma, `Recursion`: the function that makes each value from the one before is data there,
not an operator, so the provers can use it.

The third part is about the whole of `ForeignData`, whose behaviours are behaviours of
each component (`ArraysBehave`, `StructsBehave`, `BaseTypesBehave`): `DataTypeCorrect` and
`FieldsFollowCalls`, which takes the theorems below and their hypotheses to the property
as the run checks it.

`CompositeInitProofs` proves `TypeCorrect`, `FieldsAlwaysAsGiven` and `FieldsNeverJunk`,
for composites of any number of fields and any calls (the run checks the last two as
`FieldsAsGiven` of `ForeignData`). Both loops of the code are recursive functions on
the numbers of fields, shown to have solutions by `SetInduction` as in
`ForeignCallProofs`. Up to field `i` a loop has filled each handled field with the value
meant for it, or stopped there (`Fills`), so a loop that was not stopped has filled all
(`LoopEnd`). What the attributes of an object wrote before one was missing does no harm,
since the loop over arguments writes every handled field again, or fails: this is where
the object itself, as the first argument, must meet a field that refuses it
(`FirstHandled`, section 13). `FieldsAlwaysAsGiven` is for structs (`Disjoint`), as the
members of a union overwrite one another, and for fields with some memory (`Occupied`).
`FieldsNeverJunk` holds for unions too, if structs that are copied have been written
(`CopiesWritten`). `WellFormed` says what the arguments of a call are: a sequence of
objects of the four kinds.

Only model-checked:

* liveness (out of the prover's reach): `OperationsEnd`, `RequestsReturn`,
  `AbandonedReclaimed`;
* everything in `Bounds` and `PointerLengths`, which are RECURSIVE
  operators over types, in whose modules the prover has no SMT solver: what they
  compute for every type needs induction over types. Of `Bounds` the proofs of
  `ForeignDataProofs` use the named assumption of section 9 only;
* that `PointerLengths` in `ForeignDataMC` does not disturb the others, which share no
  variable with it (for `ForeignLibrary`, `FunctionProxies` and `ForeignData` it is
  proved).

## 15. Not modelled

* `repr` and error texts: formatting.
* The contents of the ABI encodings `function_proxy.c` makes for libffi, with sizes
  and alignments: what they must be is libffi's to say.
* Values of floating point types.
* Reading the symbol table of an ELF file, `dlopen` and `dlclose`.
* The reference counts of type objects: the table keeps each of them for ever, so
  they are never deallocated, and `funproxytype_dealloc` never runs.
* Python objects that change while they are read, such as a list that shrinks while
  its items are stored into an array.
* Allocations that fail, where the code does not look: `ffi_closure_alloc`, and the
  copies of a callback's arguments. The int objects that serve as keys of dictionaries.
* A base proxy for a chunk that is a single pointer: liballocs types allocations as
  arrays.
* The code liballocs, libffi and CPython run, beyond what the code in the
  repository relies on; the depth of the C stack.
* `allocs_module.c`, which registers the types in a straight line, `elflib.py`, which
  finds a file by its name, the build and the tests.

Offsets and sizes inside chunks are abstracted in `ProxyLifetime` (a pointer is the
chunk it points into) and concrete in `ArrayView` and `Bounds`; static memory has no
lifetime and appears in `ArrayView` only.
