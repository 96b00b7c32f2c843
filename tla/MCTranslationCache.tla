-------------------------- MODULE MCTranslationCache --------------------------
(***************************************************************************)
(* TranslationCache for TLC: two pids, so that a kernel stack is unmapped  *)
(* and mapped again while its process is gone, and two frames and two      *)
(* programs, so that a stale translation or instruction can be told from   *)
(* the current one.                                                        *)
(***************************************************************************)
EXTENDS TranslationCache

MC_Frame == {1, 2}
MC_Program == {3, 4}
===============================================================================
