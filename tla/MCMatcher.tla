------------------------------ MODULE MCMatcher ------------------------------
(* Matcher with lots of two units, a rate factor that does not divide all  *)
(* rates, and an odd quantity.                                             *)
EXTENDS Matcher
=============================================================================
