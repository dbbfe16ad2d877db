-------------------------- MODULE MCRealtimeBridge --------------------------
(* Instances of RealtimeBridge for TLC. *)
EXTENDS RealtimeBridge, TLC

CONSTANTS c1, c2, h1, h2, h3, a1

SixCalls == (c1 :> "consult") @@ (c2 :> "consult") @@ (h1 :> "hangup") @@ (h2 :> "hangup")
            @@ (h3 :> "hangup") @@ (a1 :> "action")
\* Two consults and a hangup; a consult and a hangup with a response of the server's
\* own, with a send that fails, with a third call to hang up, and with an action.
Scene(made, talk, lost) == [calls |-> made, talk |-> talk, faults |-> lost]
FiveScenes ==
  {Scene({<<c1, h1, h2>>, <<c2>>}, 0, 0), Scene({<<c1>>, <<h1, h2>>}, 1, 0),
   Scene({<<c1>>, <<h1, h2>>}, 0, 1), Scene({<<c1, h1, h2, h3>>}, 0, 0),
   Scene({<<a1>>, <<h1, h2>>}, 0, 0)}
=============================================================================
