------------------------------ MODULE JitConfig ------------------------------
(***************************************************************************)
(* What the JustInTimeConfig controller gives the rest of the operator,    *)
(* without saying how: a configuration file that holds one published       *)
(* version or cannot be read, and a global name pattern that a published   *)
(* version compiled to, or none.  Neither goes back to an older version,   *)
(* and a version is saved only after an expression has been dealt with.    *)
(***************************************************************************)
EXTENDS Naturals, Sequences

CONSTANT Configs  \* the versions the JustInTimeConfig takes, one after the other

VARIABLES config,   \* the version that is published
          file,     \* the version whose roles the file holds, 0 when it cannot be read
          pattern   \* the version whose expression is compiled, 0 for none

\* namespaceAllowedRegex of a version: it compiles, it does not, or there is none.
Expressions == {"valid", "invalid", "none"}

Expression(v) == Configs[v].expression

ASSUME JitConfigAssumption ==
  /\ Len(Configs) \in Nat \ {0}
  /\ \A v \in 1..Len(Configs) : Expression(v) \in Expressions

Published == 1..config

JitConfigInit == config = 1 /\ file = 0 /\ pattern = 0

Publish ==
  /\ config < Len(Configs)
  /\ config' = config + 1
  /\ UNCHANGED <<file, pattern>>

\* An expression that does not compile leaves no pattern at all.
Compile ==
  \E v \in Published :
    /\ file <= v /\ pattern <= v
    /\ \/ Expression(v) = "valid"   /\ pattern' = v
       \/ Expression(v) = "invalid" /\ pattern' = 0
    /\ UNCHANGED <<config, file>>

\* The expression of v, or of a version before it, has been dealt with: it is the pattern
\* or, if there was none, it left the pattern as it was.
DealtWith(v) ==
  \E u \in 1..v : /\ pattern <= u
                  /\ Expression(u) = "none" \/ (Expression(u) = "valid" /\ pattern = u)

Save ==
  \E v \in Published :
    /\ file <= v /\ DealtWith(v)
    /\ file' = v
    /\ UNCHANGED <<config, pattern>>

\* A write of the file fails half way.
Lose == file' = 0 /\ UNCHANGED <<config, pattern>>

\* The process starts again; the file may be on a volume that outlives it.
StartAgain == pattern' = 0 /\ file' \in {file, 0} /\ UNCHANGED config

JitConfigNext == Publish \/ Compile \/ Save \/ Lose \/ StartAgain

JitConfigSpec == JitConfigInit /\ [][JitConfigNext]_<<config, file, pattern>>
=============================================================================
