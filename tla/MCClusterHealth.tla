--------------------------- MODULE MCClusterHealth ---------------------------
(***************************************************************************)
(* A carousel's three services: the notifier, the publishing lag check,    *)
(* and the delivery lag check of two environments.                         *)
(***************************************************************************)
EXTENDS ClusterHealth

CONSTANTS pam, publishing, delivery, eu, us

EndpointsOf == [s \in {pam, publishing, delivery} |->
                    IF s = delivery THEN {eu, us} ELSE {eu}]
=============================================================================
