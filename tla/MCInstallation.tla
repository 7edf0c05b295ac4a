-------------------------- MODULE MCInstallation --------------------------
(***************************************************************************)
(* A receipt and two files, each of which may be replaced, created, deleted *)
(* or only read, and every plan for them; three releases, the last two with *)
(* one agent and with the Excel pack, and twelve commands users may give.   *)
(***************************************************************************)
EXTENDS Installation

O(op, policy, excel) == [op |-> op, policy |-> policy, excel |-> excel, source |-> FALSE,
                         remove |-> FALSE, latest |-> FALSE, dry |-> FALSE]
MCBundle == <<"x", "y", "y">>
MCDescends == {<<1, 2>>, <<2, 3>>, <<1, 3>>}
MCCompatible == ({1, 2, 3} \X {1, 2, 3}) \ {<<3, 1>>}
MCOptions ==
    {O("install", "managed", "keep"), [O("install", "managed", "keep") EXCEPT !.source = TRUE],
     O("install", "managed", "off"), O("install", "force", "on"),
     O("update", "managed", "keep"), O("update", "skip", "keep"),
     O("update", "managed", "on"), [O("update", "managed", "on") EXCEPT !.dry = TRUE],
     O("rollback", "managed", "keep"), [O("rollback", "skip", "keep") EXCEPT !.latest = TRUE],
     O("uninstall", "managed", "keep"), [O("uninstall", "managed", "keep") EXCEPT !.remove = TRUE]}
=============================================================================
