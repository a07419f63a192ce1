---------------------- MODULE MCPersistentPublisher ----------------------
(* Two messages: in a buffer of one the second overflows, in a buffer of   *)
(* two it queues behind the first.  In every mode one of them is published *)
(* with PublishAwaitAcknowledgement, the other with a receipt listener; in *)
(* direct mode also both with PublishAwaitAcknowledgement, so that         *)
(* drainAckTable can be stuck on one while the other waits.                *)
EXTENDS PersistentPublisher

One == {CHOOSE m \in Messages : TRUE}

MCSetups == {<<"direct", 0, One>>, <<"direct", 0, Messages>>, <<"reject", 1, One>>,
             <<"wait", 2, One>>}
==========================================================================
