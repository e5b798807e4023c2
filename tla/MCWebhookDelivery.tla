-------------------------- MODULE MCWebhookDelivery --------------------------
(* Constants of the WebhookDelivery runs.                                  *)
EXTENDS WebhookDelivery, TLC

(* Two chats; update 1 and 3 are messages of chat c1, 2 is one of c2, so   *)
(* an update of another chat lies between two of the same chat.            *)
ChatsOneTwoOne == [u \in Updates |-> IF u % 2 = 1 THEN "c1" ELSE "c2"]
OneChat == [u \in Updates |-> "c1"]

(* A message and a member change of one chat are in different queues.      *)
MessageThenMember == [u \in Updates |-> IF u = 1 THEN "message" ELSE "member"]
AllMessages == [u \in Updates |-> "message"]

Set(n, drop) == [op |-> "set", conns |-> n, drop |-> drop]
Delete(drop) == [op |-> "delete", conns |-> 0, drop |-> drop]
Stop == [op |-> "stop", conns |-> 0, drop |-> FALSE]

WorkerSymmetry == Permutations(Workers)

NoRequests == {}
SetOne == {Set(1, FALSE)}
AllRequests == {Set(0, FALSE), Set(5, TRUE), Delete(FALSE), Stop}
=============================================================================
