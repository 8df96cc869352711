-------------------------------- MODULE MCMDL --------------------------------
EXTENDS MDL, TLC

CONSTANT Alter      \* the contexts that change tables; the others write rows

\* Every table may be written to and altered.
MCWanted == [c \in Context |-> Key \X {IF c \in Alter THEN "SNW" ELSE "SW"}]

Symmetry == Permutations(Context \ Alter) \cup Permutations(Alter)
              \cup Permutations(Key)

=============================================================================
