----------------------------- MODULE MCLibrary ------------------------------
(* Library with the folders of one user, a note of each of two users.       *)
EXTENDS Library

FirstOwnsFolders == [f \in Folders |-> 1]
EachOwnsOne == [n \in Notes |-> n]
=============================================================================
