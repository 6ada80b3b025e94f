--------------------------- MODULE MCAppLifecycle ---------------------------
EXTENDS AppLifecycle, TLC

AllInputs == {[runtime |-> TRUE, hpa |-> "on"],
              [runtime |-> FALSE, hpa |-> "off"]}
AllOps == {"update", "scale", "env", "secrets", "webhook", "restart", "stop", "delete",
           "rollback", "redeploy"}

(* Either a call fails or the pods change, whichever comes first.          *)
OneTrouble == left'.fault + left'.turn > 0
(* The requests are interchangeable: the operation of the first comes no   *)
(* later in this list.                                                     *)
Listed == <<"update", "scale", "env", "secrets", "webhook", "restart", "stop", "delete",
            "rollback", "redeploy">>
Place(r) == CHOOSE i \in DOMAIN Listed : Listed[i] = req[r].op
InOrder ==
  LET first == CHOOSE r \in Requests : TRUE
  IN \A r \in Requests :
       req[first].op # "none" /\ req[r].op # "none" => Place(first) <= Place(r)
KeepsOrder == InOrder'
=============================================================================
