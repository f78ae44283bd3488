------------------------------- MODULE MCMapEdit -------------------------------
(* Instances of MapEdit for TLC.  Of the places to come those of new points are *)
(* near A.                                                                      *)
EXTENDS MapEdit

CONSTANTS o1, o2

A == <<0, 1>>
B == <<0, 2>>
Point(p)   == [ends |-> <<p>>, path |-> 0, form |-> 0]
Line(p, q) == [ends |-> <<p, q>>, path |-> 0, form |-> 0]

\* A point with a line that begins and ends there, and two points with a line.
Ring      == <<Point(A), Line(A, A)>>
TwoPoints == <<Point(A), Point(B), Line(A, B)>>

NewPlaces == {<<n, 0>> : n \in 1..MaxEdits}
NearA == (NewPlaces \X {A}) \cup ({A} \X NewPlaces)
=============================================================================
