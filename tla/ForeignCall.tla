---------------------------- MODULE ForeignCall ----------------------------
(***************************************************************************)
(* Calls between Python and C: funproxy_call and closureproxy_call of      *)
(* function_proxy.c.                                                       *)
(*                                                                         *)
(* Python calls a C function: each argument is either passed as a pointer  *)
(* into the Python object, or converted into a buffer of the call.  The C  *)
(* function may call back a closure, and so run Python code again, which   *)
(* may call the next C function; converting an argument can run Python     *)
(* code too.                                                               *)
(*                                                                         *)
(* The first call of a function sets its type up (FunctionSetup has the    *)
(* steps; here is what the call sees of them).  The type of a pointer to   *)
(* something unhandled, an enumeration say, is made all the same: it stays *)
(* hollow, without its pointee_type, and the exception stays set although  *)
(* the set-up reports success.  Exceptions that nobody looks at, and what  *)
(* the code reads of a NULL, are what the rest of a call has to deal with. *)
(* Not here: a callback whose arguments cannot be copied for want of       *)
(* memory.                                                                 *)
(***************************************************************************)
EXTENDS Naturals, Sequences, SequencesExt

CONSTANTS
  Type,          \* types of parameters and results
  Size,          \* their sizes
  DataPtr,       \* the types with ft_getdataptr: pointers and structs
  Storable,      \* the types values can be converted to: base types, structs
  Pointer,       \* the pointers
  Hollow,        \* those to a type that is not handled: no pointee_type
  Checked,       \* types whose ft_storeinto fails while an exception is set
  NullSafe,      \* types whose ft_storeinto(NULL) fails; of others it crashes
  Functions,     \* the functions: sig, their parameters, and result
  ClosuresFail,  \* whether callables raise or return what cannot be stored
  MaxDepth,      \* bound: calls in progress
  NULL

(* Where an argument of a call is: in its object, or at an offset of the   *)
(* buffer of the call.                                                     *)
InObject == [in |-> "object", offset |-> 0]
InBuffer(n) == [in |-> "buffer", offset |-> n]
Place == [in : {"object", "buffer"}, offset : Nat]

(* Assumed of the constants. *)
Assumptions ==
  /\ DataPtr \cup Storable = Type /\ Size \in [Type -> Nat \ {0}]
  /\ Hollow \subseteq Pointer
  /\ Functions \subseteq [sig : Seq(Type), result : Type]
  /\ ClosuresFail \in BOOLEAN
  /\ NULL \notin Place

VARIABLES
  stack,     \* calls in progress, the running one last
  err,       \* a Python exception is set
  ready,     \* the functions whose type is set up
  crashed,   \* NULL was read
  returned   \* what funproxy_call returned in the last step, or NULL

vars == <<stack, err, ready, crashed, returned>>

(* What Python may pass for a parameter: an object whose data can be used  *)
(* as it is, one that has to be converted, one that cannot be.             *)
Arguments(t) == {"bad"} \cup {a \in {"native"} : t \in DataPtr}
                        \cup {a \in {"converted"} : t \in Storable}

CallFrame ==
  [kind : {"store", "C"}, sig : Seq(Type), result : Type,
   args : Seq({"native", "converted", "bad"}), ff_args : Seq(Place \cup {NULL}),
   argsize : Nat, cur_arg : Nat, i : Nat, unstored : BOOLEAN, pending : BOOLEAN]
ClosureFrame == [kind : {"closure"}, result : Type]
Result == [null : BOOLEAN, err : BOOLEAN, unstored : BOOLEAN, pending : BOOLEAN]

(* Every frame has its fields, and a frame of Python code is at the bottom *)
(* of the stack or above one of C.                                         *)
TypeOK ==
  /\ \A k \in 1..Len(stack) : /\ stack[k] \in CallFrame \cup ClosureFrame
                              /\ stack[k].kind = "closure" =>
                                   k > 1 /\ stack[k - 1].kind = "C"
  /\ err \in BOOLEAN /\ ready \subseteq Functions /\ crashed \in BOOLEAN
  /\ returned = NULL \/ returned \in Result

Init == stack = <<>> /\ err = FALSE /\ ready = {} /\ crashed = FALSE /\ returned = NULL

Idle == stack = <<>>
Top  == stack[Len(stack)]
Pop  == stack' = Front(stack)
SetTop(f) == stack' = Append(Front(stack), f)
At(kind) == ~crashed /\ ~Idle /\ Top.kind = kind
Crash == crashed' = TRUE /\ returned' = NULL /\ UNCHANGED <<stack, err, ready>>

(* Python code runs at the top level, in a callable, and when an argument  *)
(* is converted.                                                           *)
Converting ==
  At("store") /\ Top.i <= Len(Top.sig) /\ Top.args[Top.i] = "converted"
PythonRuns == ~crashed /\ (Idle \/ At("closure") \/ Converting)

Failure == [null |-> TRUE, err |-> TRUE, unstored |-> FALSE, pending |-> FALSE]

(* What err may be once the type of fn is set up: making a hollow type     *)
(* leaves an exception, unless another function has had it made.           *)
Uses(fn) == Range(fn.sig) \cup {fn.result}
LeftBySetup(fn) ==
  IF \E t \in Uses(fn) \cap Hollow : \A g \in ready : t \notin Uses(g)
  THEN BOOLEAN ELSE {FALSE}

(* What err may be once pointers among some types are decoded: the type of *)
(* what one points to may have to be made, and have a hollow one in it.    *)
LeftByDecoding(types) ==
  {err} \cup {e \in {TRUE} : types \cap Pointer # {} /\ Hollow # {}}

(* The bytes the first n arguments take in the buffer; an argument whose   *)
(* own data is used takes none.                                            *)
BytesTaken(sig, args) ==
  LET sum[n \in 0..Len(sig)] ==
        IF n = 0 THEN 0
        ELSE sum[n - 1] + (IF args[n] = "native" THEN 0 ELSE Size[sig[n]])
  IN  sum

(* Mutant: the buffer is sized for the types without ft_getdataptr only. *)
ArgSizeByType(sig, args) ==
  BytesTaken(sig, [i \in 1..Len(sig) |->
                     IF sig[i] \in DataPtr THEN "native" ELSE args[i]])[Len(sig)]

(* The size of the buffer. *)
ArgSize(sig, args) == BytesTaken(sig, args)[Len(sig)]

-----------------------------------------------------------------------------
(* Python calls a function for the first time, and its type cannot be set  *)
(* up.                                                                     *)
SetupFails(fn) ==
  /\ PythonRuns /\ ~err /\ Len(stack) < MaxDepth
  /\ fn \notin ready
  /\ err' = TRUE /\ returned' = Failure
  /\ UNCHANGED <<stack, ready, crashed>>

(* It is called with the wrong number of arguments. *)
CallWrongly(fn) ==
  /\ PythonRuns /\ ~err /\ Len(stack) < MaxDepth
  /\ ready' = ready \cup {fn}
  /\ err' = TRUE /\ returned' = Failure
  /\ UNCHANGED <<stack, crashed>>

(* An argument that is no proxy of the exact type of a hollow parameter is *)
(* compared with its pointee_type.                                         *)
Compared(fn, args) ==
  \E i \in 1..Len(fn.sig) : fn.sig[i] \in Hollow /\ args[i] # "native"

(* It is called: the first pass over the arguments takes data pointers.    *)
Call(fn, args) ==
  /\ PythonRuns /\ ~err /\ Len(stack) < MaxDepth
  /\ \A i \in 1..Len(fn.sig) : args[i] \in Arguments(fn.sig[i])
  /\ ~Compared(fn, args)
  /\ ready' = ready \cup {fn}
  /\ \E left \in LeftBySetup(fn) :
       /\ err' = left
       /\ stack' = Append(stack,
            [kind |-> "store", sig |-> fn.sig, result |-> fn.result, args |-> args,
             ff_args |-> [i \in 1..Len(fn.sig) |->
                            IF args[i] = "native" THEN InObject ELSE NULL],
             argsize |-> ArgSize(fn.sig, args), cur_arg |-> 0, i |-> 1,
             unstored |-> FALSE, pending |-> left])
  /\ returned' = NULL /\ UNCHANGED crashed

CallCrashes(fn, args) ==
  /\ PythonRuns /\ ~err /\ Len(stack) < MaxDepth
  /\ \A i \in 1..Len(fn.sig) : args[i] \in Arguments(fn.sig[i])
  /\ Compared(fn, args)
  /\ Crash

(* The second pass: an argument that is in place already is skipped. *)
SkipArg ==
  /\ At("store") /\ Top.i <= Len(Top.sig) /\ Top.args[Top.i] = "native"
  /\ SetTop([Top EXCEPT !.i = @ + 1])
  /\ returned' = NULL /\ UNCHANGED <<err, ready, crashed>>

(* ft_storeinto succeeds: the argument is in the buffer.  An exception the *)
(* set-up has left goes unnoticed if the type is not one that looks.       *)
StoreArg ==
  /\ Converting
  /\ err => Top.pending /\ Top.sig[Top.i] \notin Checked
  /\ SetTop([Top EXCEPT !.ff_args[Top.i] = InBuffer(Top.cur_arg),
                        !.cur_arg = @ + Size[Top.sig[Top.i]],
                        !.i = @ + 1])
  /\ returned' = NULL /\ UNCHANGED <<err, ready, crashed>>

(* Mutant: no exception is set. *)
StoreFailsSilently ==
  /\ At("store") /\ Top.i <= Len(Top.sig) /\ Top.args[Top.i] = "bad"
  /\ Pop
  /\ returned' = [Failure EXCEPT !.err = err]
  /\ UNCHANGED <<err, ready, crashed>>

(* ft_storeinto fails, on a bad argument, in the Python code it runs or on *)
(* the exception the set-up has left: the call returns NULL.               *)
StoreFails ==
  /\ Converting \/ (At("store") /\ Top.i <= Len(Top.sig) /\ Top.args[Top.i] = "bad")
  /\ err' = TRUE
  /\ Pop
  /\ returned' = Failure
  /\ UNCHANGED <<ready, crashed>>

(* ffi_call: the C function starts. *)
EnterC ==
  /\ At("store") /\ Top.i > Len(Top.sig)
  /\ SetTop([Top EXCEPT !.kind = "C"])
  /\ returned' = NULL /\ UNCHANGED <<err, ready, crashed>>

(* The C function calls a closure of the type of fn, which the constructor *)
(* of the closure has set up: the arguments are copied into a tuple and    *)
(* the callable runs, also when an exception has been left before.         *)
Callback(fn) ==
  /\ At("C") /\ Len(stack) < MaxDepth
  /\ stack' = Append(stack, [kind |-> "closure", result |-> fn.result])
  /\ err' \in LeftByDecoding(Range(fn.sig))
  /\ returned' = NULL /\ UNCHANGED <<ready, crashed>>

(* A pointer of a hollow type, not NULL, is decoded for the tuple. *)
CallbackCrashes(fn) ==
  /\ At("C") /\ Len(stack) < MaxDepth
  /\ Range(fn.sig) \cap Hollow # {}
  /\ Crash

(* The callable returns and the result is stored for C. *)
CallableReturns ==
  /\ At("closure") /\ ~err
  /\ Pop /\ returned' = NULL /\ UNCHANGED <<err, ready, crashed>>

(* C goes on without a result: closureproxy_call has no way to tell it. *)
Unstored ==
  /\ err' = TRUE
  /\ stack' = Append(SubSeq(stack, 1, Len(stack) - 2),
                     [stack[Len(stack) - 1] EXCEPT !.unstored = TRUE])
  /\ returned' = NULL /\ UNCHANGED <<ready, crashed>>

(* The callable raises, so NULL is stored as its result: that fails for an *)
(* integer, a float or nothing, which set an exception again, and reads    *)
(* the NULL for a pointer, a struct, a truth value or a character.         *)
CallableRaises ==
  /\ ClosuresFail /\ At("closure")
  /\ IF Top.result \in NullSafe THEN Unstored ELSE Crash

(* What the callable returns cannot be stored; for a hollow type it is     *)
(* compared with the pointee_type.                                         *)
CallableFails ==
  /\ ClosuresFail /\ At("closure")
  /\ IF Top.result \in Hollow THEN Crash ELSE Unstored

(* Python code handles an exception. *)
Catch ==
  /\ PythonRuns /\ err
  /\ err' = FALSE /\ returned' = NULL /\ UNCHANGED <<stack, ready, crashed>>

(* The C function returns, and its result is made a Python object; that    *)
(* may leave an exception too.                                             *)
LeaveC ==
  /\ At("C")
  /\ Pop
  /\ err' \in LeftByDecoding({Top.result})
  /\ returned' = [null |-> FALSE, err |-> err', unstored |-> Top.unstored,
                  pending |-> Top.pending \/ err' # err]
  /\ UNCHANGED <<ready, crashed>>

(* No object can be made: there is no memory for it. *)
ResultFails ==
  /\ At("C")
  /\ Pop
  /\ err' = TRUE /\ returned' = Failure
  /\ UNCHANGED <<ready, crashed>>

(* The result is a pointer of a hollow type, not NULL. *)
ResultCrashes == At("C") /\ Top.result \in Hollow /\ Crash

(* Nothing follows a crash. *)
Crashed == crashed /\ UNCHANGED vars

Next ==
  \/ \E fn \in Functions :
       \/ SetupFails(fn) \/ CallWrongly(fn)
       \/ \E args \in [1..Len(fn.sig) -> {"native", "converted", "bad"}] :
            Call(fn, args) \/ CallCrashes(fn, args)
       \/ Callback(fn) \/ CallbackCrashes(fn)
  \/ SkipArg \/ StoreArg \/ StoreFails \/ EnterC
  \/ CallableReturns \/ CallableRaises \/ CallableFails \/ Catch
  \/ LeaveC \/ ResultFails \/ ResultCrashes \/ Crashed

Spec == Init /\ [][Next]_vars

-----------------------------------------------------------------------------
Bytes(f, i) == f.ff_args[i].offset .. (f.ff_args[i].offset + Size[f.sig[i]] - 1)

(* A C function is entered with all of its arguments: each is the data of  *)
(* its object or was converted into bytes of the buffer, inside its bounds *)
(* and shared with no other argument, although the buffer is sized in one  *)
(* pass and filled in another, with Python code running in between.        *)
ArgsComplete ==
  \A k \in 1..Len(stack) : stack[k].kind = "C" =>
    LET f == stack[k]
        n == Len(f.sig)
    IN  /\ \A i \in 1..n : f.ff_args[i] = InObject <=> f.args[i] = "native"
        /\ \A i \in 1..n : f.args[i] = "converted" =>
             /\ f.ff_args[i] # NULL
             /\ Bytes(f, i) \subseteq 0 .. (f.argsize - 1)
             /\ \A j \in 1..n : j # i /\ f.args[j] = "converted" =>
                  Bytes(f, i) \cap Bytes(f, j) = {}
        /\ \A i \in 1..n : f.args[i] # "bad"

(* A call returns NULL with an exception set, and a value with none, as    *)
(* CPython demands of every call, at any depth of calls and callbacks.     *)
(* There are two exceptions, and no others: a call one of whose own        *)
(* callbacks has failed, and one during which the type of a pointer to     *)
(* something unhandled was made, in its set-up or for its result.  They    *)
(* return a value and leave the exception set.                             *)
ResultXorError ==
  returned # NULL =>
    /\ returned.null => returned.err
    /\ returned.err => returned.null \/ returned.unstored \/ returned.pending
    /\ returned.pending => Hollow # {}
=============================================================================
