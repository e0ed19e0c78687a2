------------------------------ MODULE StateFile ------------------------------
(***************************************************************************)
(* What the command line tools under examples/ have in common.  A command  *)
(* reads the tool's state file, calls the node, and writes the file over   *)
(* with os.WriteFile, which truncates it first.  Nothing locks the file:   *)
(* two commands may run at the same time, and a command may be killed, or  *)
(* give up after an error, between any two of its steps.                   *)
(*                                                                         *)
(* One tool runs in a behaviour; tool says which.  The modules that extend *)
(* this one add the commands of the tools.                                 *)
(***************************************************************************)
EXTENDS Naturals, Sequences, FiniteSets

CONSTANTS
  Shells,       (* where commands are run                                   *)
  MaxCommands,  (* bound: commands started                                  *)
  Names,        (* 1..n, in the order of the names: files, entries, keys    *)
  Contents,     (* what a file may hold; also the reference of an upload    *)
  None          (* no file, no entry                                        *)

ASSUME ConstantsAssumption ==
  MaxCommands \in Nat /\ Names \subseteq Nat /\ None \notin Contents \cup Names

VARIABLES
  tool,       (* the tool in use                                            *)
  file,       (* its state file                                             *)
  job,        (* job[p]: the command running in shell p, and where it is    *)
  commands,   (* number of commands started                                 *)
  dir,        (* dir[n]: the user's file n                                  *)
  node,       (* what the node holds                                        *)
  acked,      (* history: what commands that succeeded have entered         *)
  disturbed   (* history: what has gone wrong so far                        *)

vars == <<tool, file, job, commands, dir, node, acked, disturbed>>

Absent == [is |-> "absent"]
Torn == [is |-> "torn"]                    (* truncated and not yet written *)
Holding(value) == [is |-> "saved", value |-> value]

(* A tool that refuses to work without a readable file.                    *)
Strict == file.is = "saved"

(* A tool that takes a file it cannot read for an empty one.               *)
ForgetsAll(empty) == empty
Lenient(empty) == IF file.is = "saved" THEN file.value ELSE empty

Idle == [at |-> "idle"]

(* A command that has done its first steps: j.new is what it will save,    *)
(* j.acks what it will have entered then.                                  *)
Begin(p, j) ==
  /\ job[p] = Idle
  /\ commands < MaxCommands
  /\ job' = [job EXCEPT ![p] = j]
  /\ commands' = commands + 1
  /\ disturbed' = disturbed \cup {e \in {"overlap"} : \E q \in Shells : job[q] # Idle}
  /\ UNCHANGED <<tool, file, acked>>

(* os.WriteFile opens the file and truncates it.                           *)
Truncate(p) ==
  /\ job[p].at = "save"
  /\ file' = Torn
  /\ job' = [job EXCEPT ![p].at = "write"]
  /\ UNCHANGED <<tool, commands, dir, node, acked, disturbed>>

(* It writes at the start of the file.  If another command has written     *)
(* since the truncation, a longer text of its own may stick out behind.    *)
WriteOut(p) ==
  /\ job[p].at = "write"
  /\ file' \in {Holding(job[p].new)} \cup {f \in {Torn} : file # Torn}
  /\ acked' = job[p].acks
  /\ job' = [job EXCEPT ![p] = Idle]
  /\ UNCHANGED <<tool, commands, dir, node, disturbed>>

(* The command is killed, or one of its calls fails; an error is reported. *)
(* A feed update that it has sent may be served later: any other request   *)
(* served late only adds to what the node has.                             *)
Stop(p) ==
  LET sent == {q \in {p} : job[q].at = "publish"} IN
  /\ job[p] # Idle
  /\ job' = [job EXCEPT ![p] = Idle]
  /\ node' = [node EXCEPT !.late = @ \cup {[pub |-> job[q].pub, index |-> job[q].index] : q \in sent}]
  /\ disturbed' = disturbed \cup {"dropped"} \cup {e \in {"cut"} : job[p].at = "write"}
  /\ UNCHANGED <<tool, file, commands, dir, acked>>

(* The user writes or deletes a file.                                      *)
UserEdits ==
  /\ tool \in {"blog", "fs", "pinner"}
  /\ \E n \in Names, c \in Contents \cup {None} : dir' = [dir EXCEPT ![n] = c]
  /\ UNCHANGED <<tool, file, job, commands, node, acked, disturbed>>

=============================================================================
