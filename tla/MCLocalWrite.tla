---------------------------- MODULE MCLocalWrite ----------------------------
EXTENDS LocalWrite

CONSTANTS root, home, cwd, data, img, out, old, sub, view, alias, hatch

\* /home/{cwd, data/img, out/{old, sub/view -> data/img, hatch -> data}, alias -> out}
MCNodes == {root, home, cwd, data, img, out, old, sub, view, alias, hatch}
MCLinks == {view, alias, hatch}

MCParent ==
  [n \in MCNodes \ {root} |->
     CASE n = home -> root [] n = img -> data [] n = view -> sub
       [] n \in {old, sub, hatch} -> out [] OTHER -> home]
MCAbove[n \in MCNodes] == IF n = root THEN {root} ELSE {n} \cup MCAbove[MCParent[n]]
MCResolve ==
  [n \in MCNodes |-> CASE n = view -> img [] n = alias -> out [] n = hatch -> data [] OTHER -> n]
=============================================================================
