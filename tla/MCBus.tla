-------------------------------- MODULE MCBus --------------------------------
(* Instances of Bus for TLC. *)
EXTENDS Bus, TLC

\* Handlers deal with what callbacks raise, and no unsubscribe is repeated; or
\* handlers raise too, on_close functions as well, or unsubscribes are repeated.
MCManners == {[raises |-> {"callback"}, repeats |-> 0],
              [raises |-> {"callback", "handler"}, repeats |-> 1],
              [raises |-> {"callback", "handler", "on_close"}, repeats |-> 0],
              [raises |-> {"callback", "handler", "on_close"}, repeats |-> 1]}

\* Nothing raises, but an unsubscribe is repeated.
Repeating == {[raises |-> {}, repeats |-> 1]}

Symmetry == Permutations(Subscribers)
==============================================================================
