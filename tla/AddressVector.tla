--------------------------- MODULE AddressVector ---------------------------
(***************************************************************************)
(* The list of addresses of 8/: fillServerAddressList adds the lines of    *)
(* dns.url to a vector whose size and capacity are uint8_t.                *)
(***************************************************************************)
EXTENDS Naturals

CONSTANT MaxLines
ASSUME VectorAssumption == MaxLines \in Nat

VARIABLES
  lines,    \* lines of dns.url not read yet
  size, capacity,
  block,    \* elements the last realloc() made room for
  outside   \* whether an element was written outside of them
vectorVars == <<lines, size, capacity, block, outside>>

VectorTypeOK ==
  /\ lines \in 0..MaxLines
  /\ size \in 0..255 /\ capacity \in 0..255 /\ block \in 0..255
  /\ outside \in BOOLEAN

VectorInit ==  \* vectorInit(&addr_list, 0)
  /\ lines = MaxLines
  /\ size = 0 /\ capacity = 0 /\ block = 0
  /\ outside = FALSE

(* (uint8_t)round(capacity * 1.5).  What does not fit is undefined in C;   *)
(* gcc keeps the lowest byte.                                              *)
Rounded(c) == ((3 * c + 1) \div 2) % 256

GrownByFactor(s, c) == Rounded(c)  \* bug: ++capacity left out

Grown(s, c) == IF Rounded(c) = s THEN (Rounded(c) + 1) % 256 ELSE Rounded(c)

VectorAdd ==
  /\ lines > 0 /\ ~outside
  /\ lines' = lines - 1
  /\ IF size = capacity
       THEN capacity' = Grown(size, capacity) /\ block' = capacity'
       ELSE UNCHANGED <<capacity, block>>
  /\ outside' = (size >= block')
  /\ size' = (size + 1) % 256

VectorSpec == VectorInit /\ [][VectorAdd]_vectorVars

(* Up to 210 lines are written inside the memory there is.  The 211th is   *)
(* not: 210 grows to 315, which a uint8_t cannot hold (vector.c 19-28).    *)
HoldsTheLines == outside => size > 210
=============================================================================
