----------------------------- MODULE MCRegistry -----------------------------
(* Small instances of Registry for TLC.                                    *)
EXTENDS Registry

CONSTANT u1

\* Access configurations that messages carry.
Open == {AllowEverybody}
Restricted == {AllowNobody, AllowAnyOf({u1})}

\* Migrate versions of the checksums.
Unversioned == [h \in Hash |-> NoVersion]
SameVersion == [h \in Hash |-> 1]
============================================================================
