-------------------------- MODULE MCMessageWebhooks --------------------------
(* Instances of MessageWebhooks for TLC. *)
EXTENDS MessageWebhooks, TLC

CONSTANTS w1, w2, w3, w4, w5, w6, w7, e1, e2, e3, e4, e5, e6, r1, r2

\* A text posted twice under different requests, a reaction, a mail, a Slack message
\* and an external event, and a message that is not allowed.
Posts == (w1 :> e1) @@ (w2 :> e1) @@ (w3 :> e2) @@ (w4 :> e3) @@ (w5 :> e4) @@ (w6 :> e5)
         @@ (w7 :> e6)
Requested == (w1 :> r1) @@ (w2 :> r2) @@ (w3 :> None) @@ (w4 :> r1) @@ (w5 :> None)
             @@ (w6 :> r1) @@ (w7 :> r2)
SixKinds == (e1 :> "text") @@ (e2 :> "reaction") @@ (e3 :> "mail") @@ (e4 :> "slack")
          @@ (e5 :> "external") @@ (e6 :> "refused")

Scene(posts, messages, channel, sync, failed, delivered) ==
  [posts |-> posts, messages |-> messages, channel |-> channel,
   sync |-> sync, failed |-> failed, delivered |-> delivered]
Both == {"conv", "to"}
\* Deduplication; and the budget of a conversation whose failures may not name the
\* recipient, of a text without a known conversation, of mail, of an
\* answer rejected before its route was known, and of Slack.
SixScenes ==
  {Scene({w1, w2, w3}, 0, "message", Both, {Both}, {Both}),
   Scene({w1, w3}, 3, "message", Both, {Both, {"conv"}}, {Both}),
   Scene({w1}, 2, "message", {"to"}, {Both}, {Both}),
   Scene({w1, w2}, 1, "message", {"chat"}, {{"chat"}}, {}),
   Scene({w4}, 3, "message", {"to"}, {{"to"}}, {}),
   Scene({w5, w6, w7}, 1, "slack", Both, {Both}, {})}
==============================================================================
