------------------------------- MODULE MCPlugins -------------------------------
(* Plugins on a small instance: two users, one with the watchdog and the      *)
(* coalescer, one with a plugin whose hooks fail and that takes the latter's   *)
(* name.                                                                      *)
EXTENDS Plugins, TLC

CONSTANTS u1, u2, log, dog, coal

TwoUsers   == {u1, u2}
AllPlugins == {log, dog, coal}
AllNames   == {"dog", "bulk"}
NameOf     == (log :> "bulk") @@ (dog :> "dog") @@ (coal :> "bulk")
TheirWants == (u1 :> <<log>>) @@ (u2 :> <<dog, coal>>)
WithHooks  == {log, dog}
FailingOne == {log}
================================================================================
