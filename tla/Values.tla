------------------------------- MODULE Values -------------------------------
(* What the file format and the station endpoint have in common.           *)

CONSTANTS
  Empty,  \* the empty text
  Nil     \* no value: a nil *Config, a missing parameter, what is no JSON

=============================================================================
