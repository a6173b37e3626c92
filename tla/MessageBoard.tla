---------------------------- MODULE MessageBoard ----------------------------
(***************************************************************************)
(* What the message store promises, without saying how: a conversation is  *)
(* a board to which messages are posted, from which they are retracted or  *)
(* removed, and whose content becomes durable in the order of posting.     *)
(* MessagePersistence implements it with a RAM store, a queue, a single    *)
(* writer and tombstones in the database.                                  *)
(***************************************************************************)
EXTENDS Naturals

CONSTANT Ids                 \* messages, natural numbers in the order they are posted

VARIABLES content,           \* what the message has to show
          durable            \* the messages a restart cannot lose

boardVars == <<content, durable>>

Live == {"text", "retracted"}

BoardTypeOK == /\ content \in [Ids -> {"unsent", "gone"} \cup Live]
               /\ durable \subseteq Ids

Init == /\ content = [m \in Ids |-> "unsent"]
        /\ durable = {}

Post(m) == /\ content[m] = "unsent"
           /\ \A n \in Ids : n < m => content[n] # "unsent"
           /\ content' = [content EXCEPT ![m] = "text"]
           /\ UNCHANGED durable

\* A message becomes durable only after every earlier one that still exists.
Persist(m) == /\ content[m] \in Live
              /\ \A n \in Ids : n < m => content[n] = "gone" \/ n \in durable
              /\ durable' = durable \cup {m}
              /\ UNCHANGED content

Retract(m) == /\ content[m] = "text"
              /\ content' = [content EXCEPT ![m] = "retracted"]
              /\ UNCHANGED durable

Remove(m) == /\ content[m] \in Live
             /\ content' = [content EXCEPT ![m] = "gone"]
             /\ durable' = durable \ {m}

\* A restart loses exactly the posted messages that are not durable yet.
Restart == /\ content' = [m \in Ids |-> IF content[m] = "unsent" \/ m \in durable
                                        THEN content[m] ELSE "gone"]
           /\ UNCHANGED durable

Next == \/ \E m \in Ids : Post(m) \/ Persist(m) \/ Retract(m) \/ Remove(m)
        \/ Restart

Spec == Init /\ [][Next]_boardVars
=============================================================================
