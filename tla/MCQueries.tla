----------------------------- MODULE MCQueries -----------------------------
(* Small instances of Queries for TLC.                                     *)
EXTENDS Queries

Event(type, attributes) == [type |-> type, attributes |-> attributes]

\* Attributes within, at and beyond the free tier, before and in events.
SomeResponses ==
  {[attrs |-> << >>, events |-> << >>],
   [attrs |-> <<1, 1>>, events |-> <<Event(1, <<1>>), Event(0, << >>), Event(1, <<2, 1>>)>>],
   [attrs |-> << >>, events |-> <<Event(1, <<2>>), Event(1, <<1>>)>>],
   [attrs |-> <<3>>, events |-> <<Event(2, <<1>>)>>]}
============================================================================
