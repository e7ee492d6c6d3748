------------------------------ MODULE UnitSum ------------------------------
(***************************************************************************)
(* The sum of a function with natural values over a finite domain, written *)
(* as the number of its units: f contributes f[i] distinct units for every *)
(* i of its domain.  A sum in this form needs no recursion, so that what a *)
(* single payment does to the sum of all the obligations of a contract can *)
(* be proved from the cardinality theorems alone.                          *)
(***************************************************************************)
EXTENDS Integers, FiniteSets

UnitsAt(f, i) == {i} \X (1 .. f[i])

Units(f) == UNION {UnitsAt(f, i) : i \in DOMAIN f}

Total(f) == Cardinality(Units(f))
=============================================================================
