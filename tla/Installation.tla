---------------------------- MODULE Installation ----------------------------
(***************************************************************************)
(* An installation at its two grains: the commands of the release manager, *)
(* for which a transaction is one step or none (ManagerReleases), and the  *)
(* links and unlinks of one transaction (FileTransactions).                *)
(***************************************************************************)
EXTENDS FileTransactions

CONSTANTS Release, Bundle, Descends, Compatible, Excel, Options,
          MaxGenerations, MaxCommands, MaxUserEdits, MaxStops, MaxEnvs

\* The names a receipt has for no owner and for an agent that is gone, or of a user's own, are
\* nobody's bytes; no release has number zero, which stands for none.
ASSUME ReleaseAssumption ==
    /\ Release \subseteq Nat \ {0} /\ MaxGenerations \in Nat \ {0}
    /\ \A r \in Release : Bundle[r] \notin {"none", "custom", "nobody", "missing"}

VARIABLES receipt, tree, envs, live, pending, run, moved, touched, used
releases == <<receipt, tree, envs, live, pending, run, moved, touched, used>>

Releases == INSTANCE ManagerReleases WITH journal <- pending

InstallationInit ==
    \/ /\ Init
       /\ receipt = 0 /\ tree = 0 /\ envs = 0 /\ live = 0 /\ pending = 0
       /\ run = 0 /\ moved = 0 /\ touched = 0 /\ used = 0
    \/ /\ by = "releases" /\ Releases!Init
       /\ FilesInit /\ kind = [s \in Slot |-> "read"]
       /\ journal = <<>> /\ half = FALSE /\ mutated = {} /\ result = "none"
InstallationNext ==
    \/ by # "releases" /\ Next /\ UNCHANGED releases
    \/ by = "releases" /\ Releases!Next /\ UNCHANGED vars
InstallationSpec == InstallationInit /\ [][InstallationNext]_<<vars, releases>>

\* Property of the release manager: what the receipt says is so, but for what users changed
\* since ("The receipt commits last", docs/upgrades.md:212), and every generation it names can
\* be restored.
ReceiptIsTrue == by = "releases" => Releases!ReceiptIsTrue /\ Releases!GenerationsStand
\* Property of the release manager: a command takes only what the receipt says it may.
TakesOnlyItsOwn == [][by = "releases" => Releases!TakesOnly]_<<vars, releases>>
=============================================================================
