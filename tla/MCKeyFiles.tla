---------------------------- MODULE MCKeyFiles ----------------------------
(* Two processes, one of them under sudo, in a fresh home, one an older    *)
(* sudo run has left directories in, and one whose .constle is a link.     *)
EXTENDS KeyFiles

CONSTANTS u, s

Dir(owner, open) == [NoDir EXCEPT !.is = "dir", !.owner = owner, !.open = open]
Mine    == Dir("user", FALSE)
Old(x)  == [NoFile EXCEPT !.is = "file", !.owner = x]

MCTrees ==
  {<<NoDir, NoDir, NoDir>>, <<Mine, Mine, Mine>>, <<Mine, Dir("root", FALSE), NoDir>>,
   <<Mine, Dir("root", TRUE), NoDir>>, <<Mine, Dir("other", TRUE), NoDir>>,
   <<[Mine EXCEPT !.is = "link"], NoDir, NoDir>>}

MCLeftovers == {NoFile, Old("user"), Old("root"), Old("other"), [Old("user") EXCEPT !.links = 2],
                [Old("user") EXCEPT !.is = "link"]}
=============================================================================
