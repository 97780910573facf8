---------------------------- MODULE MCAppServer ----------------------------
(* Instances of AppServer for TLC.                                         *)
EXTENDS AppServer

(* Notifications of both sizes, responses to initialize and to turn/start, *)
(* one of which is too large to be retained, and a frame that is refused.  *)
FramesOfATurn ==
    {[kind |-> "notification", id |-> 0, large |-> l] : l \in BOOLEAN}
    \cup {[kind |-> "answer", id |-> i, large |-> FALSE] : i \in Id}
    \cup {[kind |-> "answer", id |-> TurnStart, large |-> TRUE],
          [kind |-> "bad", id |-> 0, large |-> FALSE]}
=============================================================================
