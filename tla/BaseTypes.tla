----------------------------- MODULE BaseTypes -----------------------------
(***************************************************************************)
(* The base types: which of them ForeignBaseType_New handles, and how      *)
(* their values are read from memory and stored into it                    *)
(* (src/foreign_basetype.c).  Memory is a row of bytes in little-endian    *)
(* order, and a byte has ByteRange values (256 in the code, fewer here so  *)
(* that all contents of memory can be looked at).                          *)
(*                                                                         *)
(* A type is a record of its DWARF encoding, its size in bytes and its     *)
(* size in bits, which is smaller for a bit field.  A Python object is a   *)
(* record with its class, and n, an int, or s, the bytes or the code       *)
(* points of a bytes object or of a string.                                *)
(***************************************************************************)
EXTENDS Integers, Sequences

CONSTANTS
  ByteRange,   \* the values of a byte
  BitsOfByte,  \* log2 of it
  MemSize,     \* the bytes of memory looked at
  BaseType,    \* the base types of a library
  Object,      \* the Python objects programs store
  LongRange    \* the values of C's unsigned long long

VARIABLES
  mem,     \* the bytes
  last     \* the last store: its type, place and object and whether it failed
vars == <<mem, last>>

Int_(n) == [class |-> "int", n |-> n]
Bytes(s) == [class |-> "bytes", s |-> s]

Place(t) == 1 .. MemSize - t.size + 1
Power[k \in Nat] == IF k = 0 THEN 1 ELSE ByteRange * Power[k - 1]
Range_(t) == Power[t.size]

Init == mem = [b \in 1 .. MemSize |-> 0] /\ last = <<>>

-----------------------------------------------------------------------------
IsChar(t) == t.enc \in {"signed_char", "unsigned_char"}
Signed(t) == t.enc \in {"signed", "signed_char"}

(* ForeignBaseType_New: the encodings and sizes with accessors; bit fields *)
(* are rejected.                                                           *)
Handled(t) ==
  /\ t.bits = BitsOfByte * t.size
  /\ \/ t.enc = "boolean"
     \/ /\ t.enc \in {"address", "unsigned", "signed", "signed_char",
                      "unsigned_char"}
        /\ t.size \in {1, 2, 4, 8}

(* No number is wider than a long long, and what programs store is an      *)
(* object of Python.                                                       *)
Assumptions ==
  /\ ByteRange = 2 ^ BitsOfByte /\ ByteRange \in Nat \ {0, 1} /\ ByteRange % 2 = 0
  /\ MemSize \in Nat \ {0} /\ LongRange \in Nat
  /\ \A t \in BaseType :
       /\ t.size \in Nat \ {0}
       /\ (Handled(t) /\ t.enc # "boolean") => Range_(t) <= LongRange
  /\ \A x \in Object :
       \/ x.class = "int" /\ x.n \in Int
       \/ x.class \in {"bytes", "str"} /\ x.s \in Seq(Int)
       \/ x.class = "none"

(***************************************************************************)
(* The getters: a number in the width of the type, and the bytes           *)
(* themselves for a character.                                             *)
(***************************************************************************)
Unsigned(t, at) ==
  LET low[i \in 0 .. t.size] ==
        IF i = 0 THEN 0
        ELSE low[i - 1] + mem[at + i - 1] * Power[i - 1]
  IN low[t.size]

TwosComplement(t, u) ==
  IF Signed(t) /\ u >= Range_(t) \div 2 THEN u - Range_(t) ELSE u

GetFrom(t, at) ==
  CASE t.enc = "boolean" -> Int_(IF mem[at] = 0 THEN 0 ELSE 1)
    [] IsChar(t) -> Bytes([i \in 1 .. t.size |-> mem[at + i - 1]])
    [] OTHER -> Int_(TwosComplement(t, Unsigned(t, at)))

(* char_to_long: the number of a character, <<>> when it is none.          *)
CharToLong(x) ==
  CASE x.class \in {"bytes", "str"} -> IF Len(x.s) = 1 THEN x.s ELSE <<>>
    [] x.class = "int" -> <<x.n>>
    [] OTHER -> <<>>
Number(t, x) ==
  IF IsChar(t) THEN CharToLong(x)
  ELSE IF x.class = "int" THEN <<x.n>> ELSE <<>>

(* A bug: numbers are checked against the largest unsigned value only.     *)
FitsUnsigned(t, n) == n >= -(LongRange \div 2) /\ n < Range_(t)

(* The overflow checks of PyLong_AsLongLong and its unsigned counterpart   *)
(* and those of the width of the type.                                     *)
Fits(t, n) ==
  IF Signed(t)
  THEN /\ n >= -(LongRange \div 2) /\ n < LongRange \div 2
       /\ n >= -(Range_(t) \div 2) /\ n < Range_(t) \div 2
  ELSE n >= 0 /\ n < LongRange /\ n < Range_(t)

Converts(t, x) ==
  \/ t.enc = "boolean"
  \/ (Number(t, x) # <<>> /\ Fits(t, Number(t, x)[1]))

IsTrue(x) ==
  CASE x.class = "int" -> x.n # 0
    [] x.class \in {"bytes", "str"} -> x.s # <<>>
    [] OTHER -> FALSE

(* A bug: the value is written in the width of a long long.                *)
StoreWide(t, at, x) ==
  LET n == IF t.enc = "boolean" THEN IF IsTrue(x) THEN 1 ELSE 0
           ELSE Number(t, x)[1]
  IN /\ Converts(t, x)
     /\ mem' = [b \in 1 .. MemSize |->
                  IF b >= at
                  THEN ((n % LongRange) \div Power[b - at]) % ByteRange
                  ELSE mem[b]]
     /\ last' = [type |-> t, at |-> at, value |-> x, ok |-> TRUE]

(***************************************************************************)
(* The setters: the number in the width of the type, or an exception and   *)
(* nothing written.  A boolean is one byte whatever its type says.         *)
(***************************************************************************)
StoreInto(t, at, x) ==
  LET truth == t.enc = "boolean"
      n == IF truth THEN IF IsTrue(x) THEN 1 ELSE 0 ELSE Number(t, x)[1]
      size == IF truth THEN 1 ELSE t.size
  IN /\ mem' = IF Converts(t, x)
               THEN [b \in 1 .. MemSize |->
                       IF b \in at .. at + size - 1
                       THEN ((n % Range_(t)) \div Power[b - at])
                            % ByteRange
                       ELSE mem[b]]
               ELSE mem
     /\ last' = [type |-> t, at |-> at, value |-> x, ok |-> Converts(t, x)]

Next == \E t \in {u \in BaseType : Handled(u)} :
          \E at \in Place(t), x \in Object : StoreInto(t, at, x)
Spec == Init /\ [][Next]_vars

-----------------------------------------------------------------------------
(* Bytes are bytes, and a store is of a Python object in a type, somewhere *)
(* in memory.                                                              *)
TypeOK ==
  /\ mem \in [1 .. MemSize -> 0 .. ByteRange - 1]
  /\ last # <<>> =>
       /\ last.type \in BaseType /\ Handled(last.type)
       /\ last.at \in Place(last.type) /\ last.value \in Object

(* What the store of x in a type leaves to be read: the number itself,     *)
(* the truth of x, or for a character the bytes of its number.             *)
Denotes(t, x, y) ==
  CASE t.enc = "boolean" -> y = Int_(IF IsTrue(x) THEN 1 ELSE 0)
    [] IsChar(t) -> \E u \in 0 .. Range_(t) - 1 :
         /\ TwosComplement(t, u) = CharToLong(x)[1]
         /\ \A i \in 1 .. t.size :
              y.s[i] = (u \div Power[i - 1]) % ByteRange
    [] OTHER -> y = Int_(x.n)

(* A value that was stored without an exception is the value that is read  *)
(* back, at the limits of every width and for both signs: nothing is       *)
(* truncated silently.                                                     *)
ReadsBack ==
  (last # <<>> /\ last.ok) =>
     Denotes(last.type, last.value, GetFrom(last.type, last.at))

(* A store changes no byte outside the value, so not the next item of an   *)
(* array or the next field, and one that raises an exception changes none. *)
StoreKept ==
  \A b \in 1 .. MemSize : mem'[b] # mem[b] =>
    last'.ok /\ b \in last'.at .. last'.at + last'.type.size - 1

(* Numbers and truth values read from memory can be stored back.           *)
NumbersStorable ==
  \A t \in BaseType : (Handled(t) /\ ~IsChar(t)) =>
    \A at \in Place(t) : Converts(t, GetFrom(t, at))
=============================================================================
