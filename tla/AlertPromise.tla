---------------------------- MODULE AlertPromise ----------------------------
(***************************************************************************)
(* What the weekly alerting promises of each event (a threshold of a week, *)
(* or the reset that ends one): it is announced at most once.  An event is *)
(* owed when a message that covers it waits; the message is kept when its  *)
(* channels have come to an end, or expires.  An event that expired may be *)
(* owed once more, one whose message was kept never is.                    *)
(***************************************************************************)
CONSTANT Events

VARIABLE promise

PromiseStates == {"none", "owed", "kept", "expired"}

Init == promise = [e \in Events |-> "none"]

Moves == {<<"none", "owed">>, <<"owed", "kept">>, <<"owed", "expired">>,
          <<"expired", "owed">>}

(* A step may move several events, each on its own way. *)
Next ==
    /\ promise' \in [Events -> PromiseStates]
    /\ \A e \in Events : promise'[e] = promise[e]
                           \/ <<promise[e], promise'[e]>> \in Moves

Spec == Init /\ [][Next]_promise
=============================================================================
