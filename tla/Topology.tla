------------------------------- MODULE Topology -------------------------------
(***************************************************************************)
(* The Zone -> Pod -> TOR -> Node tree of pkg/topology/types.go, as pure   *)
(* operators on a tree value.  Each map of Topology keeps the parent id:   *)
(* pods[p] is the pod's ZoneID, tors[r].pod the TOR's PodID, nodes[n] the  *)
(* node's TORID.  The child collections the code also fills (Zone.Pods,    *)
(* Pod.TORs, TOR.Nodes) are written in the same critical section as the   *)
(* parent id and are only read for statistics; they are the inverse of     *)
(* these maps and are not kept separately.  Names, labels, locations and   *)
(* timestamps are left out: no operation reads them to decide anything.    *)
(* Every operation returns [err, topo]; topo is unchanged on an error.     *)
(***************************************************************************)
EXTENDS Sequences, TLC

EmptyTopology ==
    [zones |-> {}, pods |-> [p \in {} |-> {}], tors |-> [r \in {} |-> {}],
     nodes |-> [n \in {} |-> {}]]

TopoResult(err, t) == [err |-> err, topo |-> t]

\* Topology.AddZone: refuses a zone id already present.
AddZone(t, z) ==
    IF z \in t.zones THEN TopoResult("ErrZoneExists", t)
    ELSE TopoResult("ok", [t EXCEPT !.zones = @ \cup {z}])

\* Topology.AddPod: the zone must exist; refuses a pod id already present.
AddPod(t, p, z) ==
    CASE z \notin t.zones          -> TopoResult("ErrZoneNotFound", t)
      [] p \in DOMAIN t.pods       -> TopoResult("ErrPodExists", t)
      [] OTHER -> TopoResult("ok", [t EXCEPT !.pods = (p :> z) @@ @])

\* Topology.AddTOR: the pod must exist; refuses a TOR id already present.
\* The TOR is created with the subnet list the caller set (empty).
AddTOR(t, r, p) ==
    CASE p \notin DOMAIN t.pods    -> TopoResult("ErrPodNotFound", t)
      [] r \in DOMAIN t.tors       -> TopoResult("ErrTORExists", t)
      [] OTHER -> TopoResult("ok", [t EXCEPT !.tors = (r :> [pod |-> p, subnets |-> <<>>]) @@ @])

\* Mutation of RegisterNode: re-registration not refused.
RegisterNodeUnchecked(t, n, r) ==
    IF r \notin DOMAIN t.tors THEN TopoResult("ErrTORNotFound", t)
    ELSE TopoResult("ok", [t EXCEPT !.nodes = (n :> r) @@ @])

\* Topology.RegisterNode: the TOR must exist; refuses a node id already
\* registered.
RegisterNode(t, n, r) ==
    CASE r \notin DOMAIN t.tors    -> TopoResult("ErrTORNotFound", t)
      [] n \in DOMAIN t.nodes      -> TopoResult("ErrNodeExists", t)
      [] OTHER -> TopoResult("ok", [t EXCEPT !.nodes = (n :> r) @@ @])

\* Topology.GetNodeTOR: [err, tor].
GetNodeTOR(t, n) ==
    CASE n \notin DOMAIN t.nodes          -> [err |-> "ErrNodeNotFound", tor |-> n]
      [] t.nodes[n] \notin DOMAIN t.tors  -> [err |-> "ErrTORNotFound", tor |-> n]
      [] OTHER -> [err |-> "ok", tor |-> t.nodes[n]]

\* Topology.AddSubnetToTOR: appends the text to the TOR's list unless the
\* very same text is already in it.
AddSubnetToTOR(t, r, s) ==
    CASE r \notin DOMAIN t.tors                    -> TopoResult("ErrTORNotFound", t)
      [] \E i \in DOMAIN t.tors[r].subnets :
            t.tors[r].subnets[i] = s               -> TopoResult("ErrSubnetExists", t)
      [] OTHER -> TopoResult("ok", [t EXCEPT !.tors[r].subnets = Append(@, s)])

=============================================================================
