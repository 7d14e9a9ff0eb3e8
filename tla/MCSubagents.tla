---------------------------- MODULE MCSubagents ----------------------------
(* Subagents with two children and a handful of inputs. *)
EXTENDS Subagents, TLC

InterchangeableChildren == Permutations(Children)
=============================================================================
