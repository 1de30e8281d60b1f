------------------------------ MODULE AfiArchive ------------------------------
(* What an AFI container is to its reader: a list of members, each with a    *)
(* type and a content.  Members are added one at a time, and adding one does *)
(* not disturb those that are there.                                         *)
EXTENDS Integers, Sequences

VARIABLE members    \* the members, oldest first: [type, content]

Init == members = <<>>

Add(m) == members' = Append(members, m)

Next == /\ Len(members') = Len(members) + 1
        /\ Add(members'[Len(members) + 1])

Spec == Init /\ [][Next]_members
===============================================================================
