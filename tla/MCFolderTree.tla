----------------------------- MODULE MCFolderTree -----------------------------
(***************************************************************************)
(* Small instances of FolderTree.                                          *)
(***************************************************************************)
EXTENDS FolderTree

CONSTANTS i1, p1, p2, p3

Patch(parent, pw, hint, cur) == [parent |-> parent, pw |-> pw, hint |-> hint, cur |-> cur]
Plan(f, is, pws, ps, h, a, u, s, c, e) ==
    [folders |-> f, items |-> is, passwords |-> pws, patches |-> ps, hashes |-> h, attempts |-> a,
     updates |-> u, serial |-> s, cascades |-> c, edits |-> e]

\* Moves into another folder.
Nestings(n) == {Patch(p, Same, Same, None) : p \in 1..n}

\* Passwords and hints, set, changed and removed, alone and together.
Secrets(pws, hints) == {Patch(Kept, pw, h, cur) : pw \in pws \cup {None, Same},
                                                  h \in hints \cup {None, Same}, cur \in pws \cup {None}}

\* A move to the root, and a first password.
Escapes(pws) == {Patch(Root, Same, Same, None)} \cup {Patch(Kept, pw, Same, None) : pw \in pws}

\* Moves that race, two and three at a time; two edits of a password and its hint; a cascade, an edit of a link and
\* an edit of a folder that cross, and each of the first two with a password that changes twice.
FolderPlans ==
    {Plan(3, {}, {}, Nestings(3), 0, 1, 2, 2, 0, 0),
     Plan(3, {}, {}, Nestings(3), 0, 1, 3, 1, 0, 0),
     Plan(1, {}, {p1, p2}, Secrets({p1}, {p2}), 2, 2, 2, 1, 0, 0),
     Plan(2, {i1}, {p1}, Escapes({p1}), 1, 1, 1, 1, 1, 1),
     Plan(2, {i1}, {p1}, Escapes({p1}), 2, 1, 1, 1, 1, 0),
     Plan(2, {i1}, {p1}, Escapes({p1}), 2, 1, 1, 1, 0, 1)}

\* Two edits of one folder's hint and password, which draw from three texts.
HintPlans == {Plan(1, {}, {p1, p2, p3}, Secrets({p1, p2, p3}, {p1, p2, p3}), 2, 2, 2, 1, 0, 0)}
===============================================================================
