-------------------------- MODULE MCOperatorConfig --------------------------
(***************************************************************************)
(* The JustInTimeConfig controller on a small instance.                    *)
(***************************************************************************)
EXTENDS OperatorConfig

CONSTANTS worker, review  \* two readers

Having(e) == [expression |-> e]

\* An expression is broken, mended, taken away and given again.
Changing == <<Having("valid"), Having("invalid"), Having("valid"), Having("none"),
              Having("valid")>>

Bounds == [failure |-> 2, crash |-> 1]
=============================================================================
