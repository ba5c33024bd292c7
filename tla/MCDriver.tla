------------------------------ MODULE MCDriver ------------------------------
(* Two workers, identifiers of two counter bits, three slots: duration 5   *)
(* with transactions of two seconds is one stamp too many, duration 4 fits.*)
EXTENDS Driver

const_Workers   == {1, 2}
const_Durations == {4, 5}
const_Longest   == {1, 2}
=============================================================================
