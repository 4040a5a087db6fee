-------------------------- MODULE MCDefinitionRows --------------------------
\* Small instances of DefinitionRows for TLC.
EXTENDS DefinitionRows

\* One occurrence in each paycheck.
Single == [o \in 1..2 |-> o]

\* The rule runs on or starts late.
LateRun == {1..2, 2..2}

\* The figure an owner may type.
ZeroPrice == {0}

=============================================================================
