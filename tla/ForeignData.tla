---------------------------- MODULE ForeignData ----------------------------
(***************************************************************************)
(* The data of C programs as Python sees it: array proxies, the            *)
(* initialisation of structs and base types side by side.  They share no   *)
(* variable, so a behaviour is one of one of them, chosen at the           *)
(* beginning.  CompositeInit is taken with its proofs, for the theorems    *)
(* about the whole.                                                        *)
(***************************************************************************)
EXTENDS ArrayView

CONSTANTS
  StructFields, FieldPlace, StructCells, HandledFields, FieldValues, StructCalls,
                                      \* of CompositeInit
  ByteRange, BitsOfByte, MemSize, BaseType, Object, LongRange   \* of BaseTypes

VARIABLES component,                  \* what this behaviour is about
          object, call, outcome,      \* of CompositeInit
          bytes, last                 \* of BaseTypes
structVars == <<object, call, outcome>>
baseVars == <<bytes, last>>

-----------------------------------------------------------------------------
Structure == INSTANCE CompositeInitProofs
  WITH Field <- StructFields, Place <- FieldPlace, Cell <- StructCells,
       Handled <- HandledFields, Value <- FieldValues, Call <- StructCalls

Base == INSTANCE BaseTypes WITH mem <- bytes

ASSUME StructureAssumption == Structure!Assumptions /\ Structure!WellFormed
ASSUME BaseAssumption == Base!Assumptions

-----------------------------------------------------------------------------
DataInit ==
  /\ component \in {"arrays", "structs", "base types"}
  /\ Init /\ Structure!Init /\ Base!Init

(* The assertion that fails ends the process. *)
Ended == asserted # NULL /\ UNCHANGED vars

DataNext ==
  /\ \/ /\ component = "arrays" /\ (Next \/ Ended)
        /\ UNCHANGED <<structVars, baseVars>>
     \/ component = "structs" /\ Structure!Next /\ UNCHANGED <<vars, baseVars>>
     \/ component = "base types" /\ Base!Next /\ UNCHANGED <<vars, structVars>>
  /\ UNCHANGED component

DataSpec == DataInit /\ [][DataNext]_<<component, vars, structVars, baseVars>>

-----------------------------------------------------------------------------
(* The variables of all components are well-formed. *)
DataTypeOK == TypeOK /\ Structure!TypeOK /\ Base!TypeOK

(* After a successful initialisation each handled field holds what the     *)
(* call gives it, by whatever route, and no handled field Python code can  *)
(* read is memory nobody has written, also after __init__ calls that fail  *)
(* half-way (composite_proxy.c:118).                                       *)
FieldsAsGiven == Structure!FieldsAsGiven /\ Structure!NoJunk

(* What a base type stored without an exception is what it reads back, at  *)
(* the limits of every width, and numbers that are read can be stored      *)
(* (foreign_basetype.c:37).                                                *)
ReadsBack == Base!ReadsBack /\ Base!NumbersStorable

(* The store of a base type changes its own bytes only, and none when it   *)
(* raises an exception (foreign_basetype.c:37).                            *)
StoresInPlace == [][Base!StoreKept]_baseVars
=============================================================================
