----------------------------- MODULE MCEventQueue -----------------------------
(***************************************************************************)
(* A few events at a few times, and a word they set and add to.            *)
(***************************************************************************)
EXTENDS EventQueueProperties

MCActions == {[kind |-> "callback", arg |-> 0], [kind |-> "set", arg |-> 5],
              [kind |-> "add", arg |-> 1]}

=============================================================================
