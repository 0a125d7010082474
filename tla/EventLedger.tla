---- MODULE EventLedger ----
(***************************************************************************)
(* What the raw event path promises about one callback of the market data  *)
(* client, whatever its queue, its publisher and its spool do: the         *)
(* callback is in one place at a time, it moves along Moves only, and      *)
(* "lost" is reached from the memory of a process that ended, never from a *)
(* place that survives it.  Durable facts stay durable: what is in the     *)
(* topic or quarantined stays there, and what is in the spool leaves it    *)
(* for the topic alone (docs/market-event-contracts-v1.md:35, "No source   *)
(* callback may silently drop a raw event").                               *)
(***************************************************************************)
CONSTANT Events
VARIABLE place

Places == {"unseen", "memory", "superseded", "published", "spooled", "quarantined", "lost"}

Moves == ({"unseen"} \X {"memory", "quarantined"})
           \cup ({"memory"} \X {"superseded", "published", "spooled", "quarantined", "lost"})
           \cup {<<"spooled", "published">>}

Init == place = [e \in Events |-> "unseen"]

Next == /\ place' \in [Events -> Places]
        /\ \A e \in Events : place'[e] # place[e] => <<place[e], place'[e]>> \in Moves

Spec == Init /\ [][Next]_place
====
