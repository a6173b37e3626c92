-------------------------- MODULE MCMessageService --------------------------
(* One account that sends with one or two clientIds, lists and deletes.    *)
EXTENDS MessageService, TLC

CONSTANTS ann, c1, c2

MCAccounts == {ann}
MCTwoSends == {<<ann, c1>>, <<ann, c2>>}
MCOneSend == {<<ann, c1>>}

Undeleted ==
  /\ hiddenDB = {} /\ \A m \in Ids : tombstone[m] = "none"
  /\ \A a \in Deleters : deletion[a].pc = "idle"

\* Bounds: two requests run at a time, after a restart one.  Once the clock has moved
\* messages are only sent and listed.  A restart is followed on when the first message
\* was accepted before the clock had moved.
MCFewRequests ==
  /\ Cardinality({s \in Sends : send[s].pc # "idle"} \cup {a \in Readers : fetch[a].pc # "idle"}
                 \cup {<<a>> : a \in {b \in Deleters : deletion[b].pc # "idle"}})
       <= IF crashes = 0 THEN 2 ELSE 1
  /\ crashes = 0 /\ clock > 1 => Undeleted
  /\ crashes > 0 => createdAt[1] = 1

\* The clientIds are interchangeable.
MCSymmetry == Permutations({c1, c2})
=============================================================================
