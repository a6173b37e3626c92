------------------------ MODULE MCMessagePersistence ------------------------
(* Small instance of MessagePersistence for model checking. *)
EXTENDS MessagePersistence
=============================================================================
