------------------------------ MODULE Receipts ------------------------------
(***************************************************************************)
(* The receipts of the messages in the store of MessagePersistence.  The   *)
(* writer creates them together with the record; the recipients raise      *)
(* them, one message at a time (updateReceipt) or the whole conversation   *)
(* (updateConversationReceipt), from several devices at once.              *)
(*                                                                         *)
(* All messages are of one sender, who has no receipts.                    *)
(***************************************************************************)
EXTENDS MessagePersistence

CONSTANTS Recipients,      \* the other accounts that are, or may become, members
          Requests,        \* the conversation requests that may run at once
          Erasable         \* bound: the messages that may be deleted

ASSUME ErasableAssumption == Erasable \subseteq Ids

VARIABLES
  members,      \* the recipients that are active members of the conversation
  receipt,      \* message_receipt.status of each message and recipient, or none
  ack,          \* what each request does and has found
  attended,     \* history: who has been a member ever since the message was accepted
  acked,        \* history: what a request to set it to read was answered 204 for
  lowered       \* history: what updateReceipt turned from read into delivered

receiptVars == <<persistVars, members, receipt, ack, attended, acked, lowered>>
receiptHistory == <<attended, acked, lowered>>

Statuses == {"delivered", "read"}
NoOne == "nobody"
NoAck == [pc |-> "idle", account |-> NoOne, status |-> "read", due |-> {}]

ReceiptsTypeOK ==
  /\ TypeOK
  /\ members \subseteq Recipients
  /\ receipt \in [Ids -> [Recipients -> {"none", "sent"} \cup Statuses]]
  /\ ack \in [Requests -> [pc : {"idle", "set", "find", "update"},
                           account : Recipients \cup {NoOne},
                           status : Statuses, due : SUBSET Ids]]
  /\ attended \in [Ids -> SUBSET Recipients]
  /\ acked \subseteq Ids \X Recipients
  /\ lowered \subseteq Ids \X Recipients

ReceiptsInit ==
  /\ Init
  /\ members = Recipients
  /\ receipt = [m \in Ids |-> [a \in Recipients |-> "none"]]
  /\ ack = [r \in Requests |-> NoAck]
  /\ attended = [m \in Ids |-> {}]
  /\ acked = {} /\ lowered = {}

-----------------------------------------------------------------------------
(* The store.                                                              *)

AcceptForMembers ==
  /\ Accept
  /\ attended' = [attended EXCEPT ![accepted'] = members]
  /\ UNCHANGED <<members, receipt, ack, acked, lowered>>

\* Faulty: the receipts are created outside the IF of the transaction.
CreatedAlways(m) == tombstone[m] # "everyone"
\* Faulty: a retracted message gets no receipts.
CreatedUnmarked(m) == tombstone[m] = "none" /\ row[m] = "none"
\* The record, and with it the receipts, are created once.
Created(m) == tombstone[m] # "everyone" /\ row[m] = "none"

ReceiptsAfterPersist(m) ==
  [a \in Recipients |-> IF Created(m) /\ a \in members THEN "sent" ELSE receipt[m][a]]

PersistWithReceipts ==
  /\ PersistCommit
  /\ receipt' = [receipt EXCEPT ![writing] = ReceiptsAfterPersist(writing)]
  /\ UNCHANGED <<members, ack, receiptHistory>>

ReceiptsBackground ==
  /\ \/ Take \/ PersistDone \/ PersistLost \/ MarkDone \/ MarkLost
     \/ \E m \in Erasable, mode \in Modes : MarkCommit(m, mode)
  /\ UNCHANGED <<members, receipt, ack, receiptHistory>>

ReceiptsCrash ==
  /\ Crash
  /\ ack' = [r \in Requests |-> NoAck]
  /\ UNCHANGED <<members, receipt, receiptHistory>>

Join(a) ==
  /\ a \notin members
  /\ members' = members \cup {a}
  /\ UNCHANGED <<persistVars, receipt, ack, receiptHistory>>

Leave(a) ==
  /\ a \in members
  /\ members' = members \ {a}
  /\ attended' = [m \in Ids |-> attended[m] \ {a}]
  /\ UNCHANGED <<persistVars, receipt, ack, acked, lowered>>

-----------------------------------------------------------------------------
(* updateReceipt                                                           *)

\* canAccessMessage: the record is there, and the account a member.
SetStart(r, a, m, status) ==
  /\ ack[r] = NoAck
  /\ Stored(m) /\ a \in members
  /\ ack' = [ack EXCEPT ![r] = [pc |-> "set", account |-> a, status |-> status, due |-> {m}]]
  /\ UNCHANGED <<persistVars, members, receipt, receiptHistory>>

\* The status is set, whatever it was and whoever is a member by now.
SetReceipt(r) ==
  \E m \in ack[r].due :
    LET a == ack[r].account
        old == receipt[m][a]
    IN /\ ack[r].pc = "set"
       /\ receipt' = [receipt EXCEPT ![m][a] = IF old = "none" THEN @ ELSE ack[r].status]
       /\ lowered' = IF receipt'[m][a] # "delivered" THEN lowered \ {<<m, a>>}
                     ELSE IF old = "read" THEN lowered \cup {<<m, a>>} ELSE lowered
       /\ ack' = [ack EXCEPT ![r] = NoAck]
       /\ \/ UNCHANGED acked
          \/ receipt'[m][a] = "read" /\ acked' = acked \cup {<<m, a>>}
       /\ UNCHANGED <<persistVars, members, attended>>

-----------------------------------------------------------------------------
(* readConversation and deliverConversation                                *)

\* isMember.  History: the messages that have a receipt by now.
AckStart(r, a, status) ==
  /\ ack[r] = NoAck
  /\ a \in members
  /\ ack' = [ack EXCEPT ![r] = [pc |-> "find", account |-> a, status |-> status,
                                due |-> {m \in Ids : receipt[m][a] # "none"}]]
  /\ UNCHANGED <<persistVars, members, receipt, receiptHistory>>

\* The condition of both queries: delivered raises what is sent, read what is not read.
Raises(status, old) == old = "sent" \/ (status = "read" /\ old = "delivered")

\* 204, or an error: only then may the client not rely on it.
Answered(r) ==
  /\ ack' = [ack EXCEPT ![r] = NoAck]
  /\ acked' = IF ack[r].status = "read" THEN acked \cup (ack[r].due \X {ack[r].account})
              ELSE acked
Failed(r) == ack' = [ack EXCEPT ![r] = NoAck] /\ UNCHANGED acked

\* Nothing to raise: 204 without an UPDATE.
AckFind(r) ==
  /\ ack[r].pc = "find"
  /\ IF \E m \in Ids : Raises(ack[r].status, receipt[m][ack[r].account])
     THEN ack' = [ack EXCEPT ![r].pc = "update"] /\ UNCHANGED acked
     ELSE Answered(r)
  /\ UNCHANGED <<persistVars, members, receipt, attended, lowered>>

\* The UPDATE raises what meets the condition by now.  Its answer may be lost.
AckUpdate(r) ==
  LET a == ack[r].account
      status == ack[r].status
  IN /\ ack[r].pc = "update"
     /\ receipt' = [m \in Ids |-> [receipt[m] EXCEPT ![a] =
                      IF Raises(status, @) THEN status ELSE @]]
     /\ lowered' = {x \in lowered : receipt'[x[1]][x[2]] # "read"}
     /\ Answered(r) \/ Failed(r)
     /\ UNCHANGED <<persistVars, members, attended>>

AckFails(r) ==
  /\ ack[r].pc # "idle"
  /\ Failed(r)
  /\ UNCHANGED <<persistVars, members, receipt, attended, lowered>>

ReceiptsNext ==
  \/ AcceptForMembers \/ PersistWithReceipts \/ ReceiptsBackground \/ ReceiptsCrash
  \/ \E a \in Recipients :
       \/ Join(a) \/ Leave(a)
       \/ \E r \in Requests, status \in Statuses :
            \/ AckStart(r, a, status)
            \/ \E m \in Ids : SetStart(r, a, m, status)
  \/ \E r \in Requests : SetReceipt(r) \/ AckFind(r) \/ AckUpdate(r) \/ AckFails(r)

ReceiptsSpec == ReceiptsInit /\ [][ReceiptsNext]_receiptVars

-----------------------------------------------------------------------------
(* Properties.                                                             *)

\* What readConversation or updateReceipt answered 204 for stays read, whatever the writer
\* repeats after a lost answer and the other devices report late; only an updateReceipt
\* that says delivered takes it back (messages.go:484 looks at no status).
AckedStaysRead ==
  \A x \in acked : receipt[x[1]][x[2]] = "read" \/ x \in lowered

\* The sender learns of every recipient: a stored message has a receipt of each account
\* that was a member from its acceptance to now, and what is not stored has none.  (With
\* the types of the variables.)
ReceiptsFollowRecord ==
  /\ ReceiptsTypeOK
  /\ \A m \in Ids, a \in Recipients :
       /\ Stored(m) /\ a \in attended[m] => receipt[m][a] # "none"
       /\ receipt[m][a] # "none" => Stored(m)
=============================================================================
