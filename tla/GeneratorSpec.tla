---------------------------- MODULE GeneratorSpec ----------------------------
(***************************************************************************)
(* What a code-generation backend promises (the Backend trait of          *)
(* fidlgen_banjo, src/devices/tools/fidlgen_banjo/src/backends/mod.rs, and *)
(* the same trait of banjo): codegen(ir) writes a header and a body to its *)
(* writer and returns Ok(()), or returns an Err.  Seen from outside it is  *)
(* one step.  The file is a sequence of output items; HeaderOf and BodyOf  *)
(* are the items a backend derives from an input, Untranslatable says the  *)
(* input holds a declaration the backend cannot generate.                  *)
(***************************************************************************)
EXTENDS Sequences, SequencesExt

CONSTANTS
  Inputs,              \* the IRs or ASTs codegen may be called with
  HeaderOf(_),         \* the items of the header written for an input
  BodyOf(_),           \* the items of the body written for an input
  Untranslatable(_)    \* the input has a declaration codegen rejects

VARIABLES
  input,     \* the argument of codegen
  file,      \* what the writer holds once codegen has returned
  result     \* "none" before the return, then "Ok" or "Err"

vars == <<input, file, result>>

Init ==
  /\ input \in Inputs
  /\ file = <<>>
  /\ result = "none"

(***************************************************************************)
(* A translatable input gives the whole file and Ok.  Whatever the input,  *)
(* a failing writer stops the output part-way and codegen returns Err.  An *)
(* untranslatable input is rejected after the header was written, so the   *)
(* writer holds at most the header.                                         *)
(***************************************************************************)
Generate ==
  /\ result = "none"
  /\ \/ /\ ~Untranslatable(input)
        /\ file' = HeaderOf(input) \o BodyOf(input)
        /\ result' = "Ok"
     \/ /\ Untranslatable(input)
        /\ file' \in Prefixes(HeaderOf(input))
        /\ result' = "Err"
     \/ /\ file' \in Prefixes(HeaderOf(input) \o BodyOf(input))
        /\ file' # HeaderOf(input) \o BodyOf(input)
        /\ result' = "Err"
  /\ UNCHANGED input

Spec == Init /\ [][Generate]_vars /\ WF_vars(Generate)

=============================================================================
