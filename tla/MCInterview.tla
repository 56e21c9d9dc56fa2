---------------------------- MODULE MCInterview ----------------------------
(***************************************************************************)
(* An instance of Interview.  The inputs cover every class an answer can   *)
(* be in: empty, an option, a letter, a year, a level, a language with a   *)
(* test and one without.                                                   *)
(***************************************************************************)
EXTENDS Interview

\* One letter, right twice and wrong once, and two languages.
inputs == {"", "1", "2", "B", "2010", "B2", "english"}
years == {"2010"}
Code(t) == IF t = "english" THEN "en" ELSE "other"
languageOf == [t \in inputs |-> Code(t)]
=============================================================================
