---------------------------- MODULE MCDeclarations ----------------------------
(* Items for Declarations: an attribute that only its cluster reads, one that is
   reported, one of another type that is reported and validated; a command of
   either direction and one whose arguments are too long.  A device that is one
   battery cluster also measures, at and around the bounds. *)
EXTENDS Battery, TLC

MCAttrKinds ==
    {[access |-> {"Read"}, mem |-> "u8", type |-> "U8", validator |-> FALSE],
     [access |-> {"Read", "Report"}, mem |-> "u16", type |-> "U16", validator |-> FALSE],
     [access |-> {"Write", "Report"}, mem |-> "str", type |-> "CharStr", validator |-> TRUE]}

MCCmdKinds ==
    {[receive |-> TRUE, size |-> 1], [receive |-> FALSE, size |-> 1],
     [receive |-> FALSE, size |-> 101]}

\* What the theorems on LibraryFits and TypedValuesArrive ask of the kinds.
ASSUME MCKindsFit == KindsFit

\* Bound: a second cluster of the library only beside a first one.
MCNext ==
    \/ Described /\ Next
    \/ /\ device[1].clusters[1] \in Library
       /\ Described /\ \E c \in Library : AddLibraryCluster(c)
    \/ Measures

MCSpec == DeviceInit /\ [][MCNext]_<<vars, battery_vars>>

MCSymmetry ==
    Permutations(Eps) \cup Permutations(ClusterIds) \cup Permutations(AttrIds)
        \cup Permutations(CmdIds)

===============================================================================
