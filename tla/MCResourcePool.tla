--------------------------- MODULE MCResourcePool ---------------------------
\* Small instances of ResourcePool.
EXTENDS ResourcePool, TLC

\* The two special users of the starter: one continues as new (and then returns
\* like a plain one), one fails after its first activity.
MixedInputs == {[fail |-> "never", can |-> TRUE],
                [fail |-> "first", can |-> FALSE]}
PlainInputs == {[fail |-> "never", can |-> FALSE]}

Symmetric == Permutations(Users)
=============================================================================
