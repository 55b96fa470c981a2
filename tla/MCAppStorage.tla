---------------------------- MODULE MCAppStorage ----------------------------
(***************************************************************************)
(* An instance of AppStorage for TLC: an anonymous client and two users,   *)
(* of whom only one writes.                                                *)
(***************************************************************************)
EXTENDS AppStorage

CONSTANTS ann, bob, pw, wrong, x, y

Ask(kind, user, password, path, recursive, body) ==
    [kind |-> kind, user |-> user, password |-> password, path |-> path,
     recursive |-> recursive, body |-> body]

File(content) == << >> :> content

MCUnechoed == {<<3>>}

MCRequests ==
    {Ask("upload", Anonymous, pw, <<1>>, FALSE, File(x)),
     Ask("upload", Anonymous, pw, <<1, 2>>, FALSE, File(y)),
     Ask("upload", Anonymous, pw, << >>, FALSE, File(x)),
     Ask("upload", ann, pw, << >>, FALSE, <<2, 1>> :> x @@ <<1>> :> y),
     Ask("upload", Anonymous, pw, <<2>>, FALSE, [q \in {} |-> x]),
     Ask("upload", Anonymous, pw, <<3>>, FALSE, File(x)),
     Ask("upload", Anonymous, pw, Outside, FALSE, File(x)),
     Ask("upload", Anonymous, pw, FarOutside, FALSE, File(x)),
     Ask("upload", bob, pw, <<1>>, FALSE, File(y)),
     Ask("download", ann, pw, << >>, FALSE, File(x)),
     Ask("download", ann, wrong, << >>, FALSE, File(x)),
     Ask("download", Anonymous, pw, <<1>>, FALSE, File(x)),
     Ask("download", Anonymous, pw, <<3>>, FALSE, File(x)),
     Ask("list", ann, pw, << >>, TRUE, File(x)),
     Ask("list", Anonymous, pw, << >>, FALSE, File(x)),
     Ask("delete", Anonymous, pw, <<1>>, FALSE, File(x)),
     Ask("delete", ann, pw, << >>, FALSE, File(x)),
     Ask("delete", Anonymous, pw, Garbled, FALSE, File(x))}
=============================================================================
