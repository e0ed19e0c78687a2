-------------------------------- MODULE Tools --------------------------------
(***************************************************************************)
(* The command line tools that keep a state file, each on its own, with    *)
(* commands in several shells, killed or failing at any step.              *)
(***************************************************************************)
EXTENDS FeedTools, ListTools, NodeTools

Init ==
  /\ tool \in {"deploy", "vault", "blog", "keyring", "rss", "fs", "share", "pinner", "relay"}
  /\ file = Absent
  /\ job = [p \in Shells |-> Idle]
  /\ commands = 0
  /\ dir = [n \in Names |-> None]
  /\ node = [stored |-> {}, feed |-> <<>>, served |-> {}, late |-> {}, lists |-> <<>>,
             issued |-> [n \in Names |-> 0]]
  /\ acked = {}
  /\ disturbed = {}

Next ==
  \/ \E p \in Shells :
       \/ FeedToolsNext(p) \/ ListToolsNext(p) \/ NodeToolsNext(p)
       \/ Truncate(p) \/ WriteOut(p) \/ Stop(p)
  \/ ServeLate \/ UserEdits

Spec == Init /\ [][Next]_vars

-----------------------------------------------------------------------------
(* No state file, and nothing about to be saved, refers to something that  *)
(* the node was not given: every tool uploads, creates and publishes       *)
(* before it records, whatever is killed, lost or overwritten.             *)
NothingDangles ==
  LET sound(value) == ~FeedToolsDangle(value) /\ ~NodeToolsDangle(value) IN
  /\ Strict => sound(file.value)
  /\ \A p \in Shells : job[p].at = "write" => sound(job[p].new)

(* What a state file has, in the form in which commands enter it.          *)
Items(value) ==
  CASE tool = "deploy" -> {value[i] : i \in DOMAIN value}
    [] tool = "vault" -> Pairs(value)
    [] tool \in {"keyring", "rss"} -> {EntryOf(value, value[i][1]) : i \in DOMAIN value}
    [] tool = "fs" -> Staged(value)
    [] tool = "share" -> {value[i].file : i \in DOMAIN value}
    [] tool = "pinner" -> {<<n, value.ref[n]>> : n \in DOMAIN value.ref}
    [] OTHER -> {}

(* What a command that succeeded has entered stays until a command takes it*)
(* out, as long as no two commands overlap and none is killed while it     *)
(* writes the file: two writers lose one entry, and a torn file is taken   *)
(* for an empty one (keyring, rss, share, pinner) or blocks the tool.      *)
AcknowledgedKept ==
  /\ disturbed \cap {"overlap", "cut"} = {}
  /\ \A p \in Shells : job[p].at # "write"
  /\ acked # {}
  => Strict /\ acked \subseteq Items(file.value)

=============================================================================
