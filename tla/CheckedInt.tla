------------------------------ MODULE CheckedInt ------------------------------
(***************************************************************************)
(* StoreUInt and OperUInt (Type.h): unsigned integers that report an       *)
(* overflow.  An OperUInt has half the width of a StoreUInt, so that its   *)
(* sums and products fit one.  add() sums first, modulo 2^64, and tells    *)
(* from the result whether it wrapped; minus() compares first.             *)
(*                                                                         *)
(* A StoreUInt is followed through any sequence of its operations;         *)
(* exact is the integer they amount to, without a width.  Comparisons,     *)
(* quotients and remainders cannot overflow and are left out.              *)
(***************************************************************************)
EXTENDS Integers, TLAPS

CONSTANT Base              \* the range of oper_uint_base; 2^32 in the code

Size == Base * Base        \* the range of store_uint_base
Store == 0 .. Size - 1
Oper == 0 .. Base - 1

VARIABLES
  impl,                    \* the StoreUInt's value
  ok,                      \* what the last operation returned
  exact                    \* history: the integer the operations amount to

vars == <<impl, ok, exact>>

Wrapped(n) == n % Size

(* A StoreUInt is made of a number of its width; 0 by default. *)
Init == impl \in Store /\ ok = TRUE /\ exact = impl

(* add(other) *)
Add(other) ==
  LET ret == Wrapped(impl + other) IN
  \/ /\ \/ ret < impl
        \/ ret < other
     /\ ok' = FALSE
     /\ UNCHANGED <<impl, exact>>
  \/ /\ ~(ret < impl \/ ret < other)
     /\ ok' = TRUE /\ impl' = ret
     /\ exact' = exact + other

(* minus(other) *)
Minus(other) ==
  \/ /\ other > impl
     /\ ok' = FALSE
     /\ UNCHANGED <<impl, exact>>
  \/ /\ ~(other > impl)
     /\ ok' = TRUE /\ impl' = Wrapped(impl - other)
     /\ exact' = exact - other

(* operator+ and operator*: a StoreUInt of two OperUInts. *)
Plus(left, right) ==
  /\ impl' = Wrapped(left + right)
  /\ exact' = left + right /\ UNCHANGED ok

Times(left, right) ==
  /\ impl' = Wrapped(left * right)
  /\ exact' = left * right /\ UNCHANGED ok

(* toOper: the value, if an OperUInt can have it. *)
ToOper == IF impl > Base - 1 THEN [ok |-> FALSE, impl |-> 0] ELSE [ok |-> TRUE, impl |-> impl]

Next ==
  \/ \E other \in Store : Add(other) \/ Minus(other)
  \/ \E left, right \in Oper : Plus(left, right) \/ Times(left, right)

Spec == Init /\ [][Next]_vars

-----------------------------------------------------------------------------
(* The value never wraps: whatever is added, subtracted, summed and        *)
(* multiplied, it is the integer these operations amount to.               *)
Exact == impl = exact /\ impl \in Store

(* An operation is refused only if its result would not fit.               *)
RefusedForRange ==
  [][\A other \in Store :
       /\ Add(other) /\ ~ok' => exact + other \notin Store
       /\ Minus(other) /\ ~ok' => exact - other \notin Store]_vars

-----------------------------------------------------------------------------
(* The range is the square of the operands' range, and not empty. *)
LEMMA SizeIsNat ==
  ASSUME Base \in Nat, Base > 1
  PROVE  Size \in Nat /\ Size > 1 /\ Base < Size
BY DEF Size

(* A number below the range is not changed by wrapping, and one below      *)
(* twice the range is lowered by it.                                       *)
LEMMA WrappedIs ==
  ASSUME Base \in Nat, Base > 1, NEW n \in Nat
  PROVE  /\ n < Size => Wrapped(n) = n
         /\ n >= Size /\ n < 2 * Size => Wrapped(n) = n - Size
<1>1. Size \in Nat /\ Size > 1
  BY SizeIsNat
<1>2. ASSUME NEW s \in Nat, s > 1
      PROVE  /\ n < s => n % s = n
             /\ n >= s /\ n < 2 * s => n % s = n - s
  OBVIOUS
<1> QED BY <1>1, <1>2 DEF Wrapped

(* The test of add() tells exactly the sums that do not fit. *)
LEMMA AddIsChecked ==
  ASSUME Base \in Nat, Base > 1, NEW a \in Store, NEW b \in Store
  PROVE  /\ Wrapped(a + b) < a \/ Wrapped(a + b) < b <=> a + b >= Size
         /\ a + b < Size => Wrapped(a + b) = a + b
<1>1. Size \in Nat /\ Size > 1
  BY SizeIsNat
<1>2. a \in Nat /\ b \in Nat /\ a < Size /\ b < Size
  BY <1>1 DEF Store
<1>3. a + b \in Nat /\ a + b < 2 * Size
  BY <1>1, <1>2
<1>4. ASSUME NEW n \in Nat, n = a + b
      PROVE  /\ n < Size => Wrapped(n) = n
             /\ n >= Size /\ n < 2 * Size => Wrapped(n) = n - Size
  BY WrappedIs
<1> QED BY <1>1, <1>2, <1>3, <1>4

(* Operands of half the width have a sum and a product that fit. *)
LEMMA OperandsFit ==
  ASSUME Base \in Nat, Base > 1, NEW a \in Oper, NEW b \in Oper
  PROVE  /\ a + b \in Nat /\ a + b < Size
         /\ a * b \in Nat /\ a * b < Size
<1>1. a \in Nat /\ b \in Nat /\ a <= Base - 1 /\ b <= Base - 1
  BY DEF Oper
<1>2. a * b <= (Base - 1) * (Base - 1)
  <2>1. a * b <= a * (Base - 1)
    BY <1>1
  <2>2. a * (Base - 1) <= (Base - 1) * (Base - 1)
    BY <1>1
  <2> QED BY <1>1, <2>1, <2>2
<1>3. (Base - 1) * (Base - 1) < Size
  BY DEF Size
<1>4. a + b < Size
  <2>1. (Base - 1) + (Base - 1) < Base * Base
    OBVIOUS
  <2> QED BY <1>1, <2>1 DEF Size
<1>5. a * b \in Nat
  BY <1>1
<1> QED BY <1>1, <1>2, <1>3, <1>4, <1>5 DEF Size

(* toOper refuses exactly what an OperUInt cannot have, and gives the rest *)
(* as it is.                                                               *)
LEMMA ToOperIsChecked ==
  ASSUME Base \in Nat, Base > 1, impl \in Store
  PROVE  /\ ToOper.ok <=> impl \in Oper
         /\ ToOper.ok => ToOper.impl = impl
BY SizeIsNat DEF ToOper, Store, Oper

(* A StoreUInt is exact, for every width. *)
THEOREM StoreIsExact ==
  ASSUME Base \in Nat, Base > 1
  PROVE  Spec => []Exact
<1>1. Init => Exact
  BY DEF Init, Exact
<1>2. Exact /\ [Next]_vars => Exact'
  <2> SUFFICES ASSUME Exact, [Next]_vars PROVE Exact'
    OBVIOUS
  <2>0. Size \in Nat /\ Size > 1
    BY SizeIsNat
  <2>1. ASSUME NEW other \in Store, Add(other) PROVE Exact'
    <3>1. CASE ok' = FALSE /\ UNCHANGED <<impl, exact>>
      BY <3>1 DEF Exact
    <3>2. CASE /\ ~(Wrapped(impl + other) < impl \/ Wrapped(impl + other) < other)
               /\ impl' = Wrapped(impl + other) /\ exact' = exact + other
      <4>1. impl + other < Size /\ Wrapped(impl + other) = impl + other
        BY <2>0, <3>2, AddIsChecked DEF Exact, Store
      <4> QED BY <2>0, <3>2, <4>1 DEF Exact, Store
    <3> QED BY <2>1, <3>1, <3>2 DEF Add
  <2>2. ASSUME NEW other \in Store, Minus(other) PROVE Exact'
    <3>1. CASE ok' = FALSE /\ UNCHANGED <<impl, exact>>
      BY <3>1 DEF Exact
    <3>2. CASE /\ ~(other > impl)
               /\ impl' = Wrapped(impl - other) /\ exact' = exact - other
      <4>1. impl - other \in Nat /\ impl - other < Size
        BY <2>0, <3>2 DEF Exact, Store
      <4>2. Wrapped(impl - other) = impl - other
        BY <4>1, WrappedIs
      <4> QED BY <2>0, <3>2, <4>1, <4>2 DEF Exact, Store
    <3> QED BY <2>2, <3>1, <3>2 DEF Minus
  <2>3. ASSUME NEW left \in Oper, NEW right \in Oper, Plus(left, right) \/ Times(left, right)
        PROVE  Exact'
    <3>1. /\ left + right \in Nat /\ left + right < Size
          /\ left * right \in Nat /\ left * right < Size
      BY OperandsFit
    <3>2. Wrapped(left + right) = left + right /\ Wrapped(left * right) = left * right
      BY <3>1, WrappedIs
    <3> QED BY <2>0, <2>3, <3>1, <3>2 DEF Plus, Times, Exact, Store
  <2>4. CASE UNCHANGED vars
    BY <2>4 DEF Exact, vars
  <2> QED BY <2>1, <2>2, <2>3, <2>4 DEF Next
<1> QED BY <1>1, <1>2, PTL DEF Spec

(* An operation that reports an overflow would have had one. *)
THEOREM StoreRefusesForRange ==
  ASSUME Base \in Nat, Base > 1
  PROVE  Spec => RefusedForRange
<1>1. Exact /\ [Next]_vars =>
        [\A other \in Store :
           /\ Add(other) /\ ~ok' => exact + other \notin Store
           /\ Minus(other) /\ ~ok' => exact - other \notin Store]_vars
  <2> SUFFICES ASSUME Exact, NEW other \in Store
               PROVE  /\ Add(other) /\ ~ok' => exact + other \notin Store
                      /\ Minus(other) /\ ~ok' => exact - other \notin Store
    OBVIOUS
  <2>0. Size \in Nat /\ Size > 1 /\ other \in Nat /\ exact \in Nat /\ impl = exact
    BY SizeIsNat DEF Exact, Store
  <2>1. Add(other) /\ ~ok' => exact + other \notin Store
    BY <2>0, AddIsChecked DEF Add, Exact, Store
  <2>2. Minus(other) /\ ~ok' => exact - other \notin Store
    BY <2>0 DEF Minus, Exact, Store
  <2> QED BY <2>1, <2>2
<1> QED BY <1>1, StoreIsExact, PTL DEF Spec, RefusedForRange
=============================================================================
