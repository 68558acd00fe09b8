-------------------------------- MODULE Objects --------------------------------
(***************************************************************************)
(* Runtime values (object.h, object.c): the tagged Object structs.  A C    *)
(* int64_t is an integer of IntWidth bits here, so that wrap-around and    *)
(* the asymmetric range can be met with small numbers.                     *)
(***************************************************************************)
EXTENDS Integers

CONSTANT IntWidth          \* 64 in the program

ASSUME IntWidthAssumption == IntWidth \in Nat \ {0}

MinInt == -(2 ^ (IntWidth - 1))
MaxInt == 2 ^ (IntWidth - 1) - 1
Ints   == MinInt .. MaxInt

ObjectTypes == { "NULL", "INT64", "BOOL" }

\* A NULL Object*: "no value", whose type the binder calls OBJECT_TYPE_NULL.
NullObject  == [type |-> "NULL"]
Int64(i)    == [type |-> "INT64", i64 |-> i]
Bool(b)     == [type |-> "BOOL", bool |-> b]

Int64s  == { Int64(i) : i \in Ints }
Bools   == { Bool(b) : b \in BOOLEAN }
Objects == Int64s \cup Bools                \* what an Object* that is not NULL points to

(***************************************************************************)
(* Arithmetic of the evaluator on int64_t.  Overflow is undefined in C;    *)
(* the builds of CMakePresets.json leave the two's complement instruction  *)
(* in place (UBSan, when enabled, prints a report and continues), so the   *)
(* result is reduced modulo 2^IntWidth.                                    *)
(***************************************************************************)
Wrap(i) == ((i - MinInt) % (2 ^ IntWidth)) + MinInt

\* idiv raises SIGFPE for these operands: there is no quotient to store.
DivisionTraps(a, b) == b = 0 \/ (a = MinInt /\ b = -1)

Abs(i) == IF i < 0 THEN -i ELSE i

\* C division truncates towards zero; TLA+'s \div rounds down.
Quotient(a, b) ==
    IF (a < 0) = (b < 0) THEN Abs(a) \div Abs(b) ELSE -(Abs(a) \div Abs(b))
================================================================================
