------------------------------- MODULE Directory -------------------------------
(***************************************************************************)
(* What the users of the watched directory are promised: a directory of    *)
(* files.  Only they change what is in it; tiering is nowhere to be seen.  *)
(***************************************************************************)
CONSTANTS Files, Versions, None

VARIABLE content    \* the content of each file, None if there is no such file

Init == content \in [Files -> Versions \cup {None}]

Create(f, v) == content[f] = None /\ content' = [content EXCEPT ![f] = v]

Write(f, v) == content[f] # None /\ content' = [content EXCEPT ![f] = v]

Delete(f) == content[f] # None /\ content' = [content EXCEPT ![f] = None]

Rename(f, g) ==
    /\ content[f] # None /\ content[g] = None
    /\ content' = [content EXCEPT ![f] = None, ![g] = content[f]]

Next == \E f \in Files : \/ \E v \in Versions : Create(f, v) \/ Write(f, v)
                         \/ Delete(f)
                         \/ \E g \in Files : Rename(f, g)

Spec == Init /\ [][Next]_content
==============================================================================
