---------------------------- MODULE MCEckServer ----------------------------
(***************************************************************************)
(* Small instances of EckServer for TLC.                                   *)
(***************************************************************************)
EXTENDS EckServer, Sequences, TLC

CONSTANTS i1, i2, n1, n2, u1, h1, h2, v1, v2, s1, x1, x2

OneId        == {i1}
TwoIds       == {i1, i2}
OneName      == {n1}
TwoNames     == {n1, n2}
OneUser      == {u1}
OneHandler   == {h1}
TwoHandlers  == {h1, h2}
OneVersion   == {v1}
TwoVersions  == {v1, v2}
OneSize      == {s1}
OneXid       == {x1}
TwoXids      == {x1, x2}
OneLimit     == {2}
TwoLimits    == {2, 8}

OneDep  == {"logs"}
TwoDeps == {"logs", "logs-ingress"}

\* The names of the ingresses.  In TwoDeps the ingress of "logs" is called
\* like the other deployment.
MCIngressName == [d \in Deps |-> d \o "-ingress"]
MCIngresses   == Deps \cup {MCIngressName[d] : d \in Deps}

NoRoles   == {{}}
SomeRoles == {{}, {[User |-> u1, Role |-> "unknown"]},
              {[User |-> u1, Role |-> "unknown"], [User |-> u1, Role |-> "Viewer"]}}

\* Forms: both parts, and the cluster alone, as it is sent with Kibana switched
\* off.
BothParts   == {[es |-> [Version |-> v, Id |-> Nil],
                 kb |-> [Version |-> v, Size |-> s, Id |-> Nil]] :
                  v \in Versions, s \in Sizes}
ElasticOnly == {[es |-> [Version |-> v, Id |-> Nil], kb |-> Nil] : v \in Versions}
AnyParts    == BothParts \cup ElasticOnly

\* The form of an edit, which has the ids of the deployment it was opened on.
Edits == {[es |-> [Version |-> v, Id |-> x], kb |-> [Version |-> v, Size |-> s, Id |-> y]] :
            v \in Versions, s \in Sizes, x \in Xids, y \in Xids}
AnyForms == AnyParts \cup Edits
=============================================================================
