------------------------------- MODULE MCFile -------------------------------
(***************************************************************************)
(* Instances of FileProvisioner for TLC.                                   *)
(***************************************************************************)
EXTENDS FileProvisioner, TLC

CDS(c, nodes) == [type |-> "CDS", name |-> c, value |-> nodes]
EDS(c, nodes) == [type |-> "EDS", name |-> c, value |-> nodes]
RDS(r, v) == [type |-> "RDS", name |-> r, value |-> v]

\* A route configuration in two versions, with a cluster of type EDS and one with
\* nodes; load assignments without a cluster (and with a resource that is ignored), for
\* the first cluster of a response and for another one.
MCContents ==
    {<<RDS("r", 1), CDS("a", 0)>>,
     <<RDS("r", 2), CDS("a", 1)>>,
     <<[type |-> "bad"], EDS("a", 1)>>,
     <<CDS("a", 0), EDS("a", 2)>>,
     <<CDS("b", 0), CDS("a", 0), EDS("a", 2)>>}

\* Nothing tells one file from another.
FileSymmetry == Permutations(Files)
=============================================================================
