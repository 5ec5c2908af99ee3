--------------------------- MODULE MCFileCommands ---------------------------
(* Instances of FileCommands: a volume with a folder of two texts and a text *)
(* that has the name of one of them.                                        *)
EXTENDS FileCommands, TLC

CONSTANTS c1, c2, a, b, d, x, y, z

OneClient == {c1}
TwoClients == {c1, c2}

InD == <<Name(d)>>
Tree ==
  (<<>> :> Folder) @@ (InD :> Folder) @@ (At(InD, Name(a)) :> Text({x}))
    @@ (At(InD, Name(b)) :> Text({z})) @@ (<<Name(b)>> :> Text({y}))

AllCommands == {"mkdir", "mkfile", "put", "rename", "rm", "paste", "duplicate",
                "archive", "extract", "zipdl"}
=============================================================================
