--------------------------- MODULE IntegrationCheck ---------------------------
(***************************************************************************)
(* examples/integration-check: a program that runs every kind of call      *)
(* against a node that others use too, one check after the other, and goes *)
(* on after a check that failed.  Every call may be refused, or be served  *)
(* and its answer lost; both are a failed check.  The node shows the chain *)
(* and its feeds late.                                                     *)
(***************************************************************************)
EXTENDS Naturals, Sequences

CONSTANTS
  Polls,     (* polls of the batch list before the deadline of five minutes *)
  Tries,     (* look-ups of the feed, with growing pauses                   *)
  Others     (* bound: updates that other runs make to the same feed        *)

ASSUME BoundsAssumption == Polls \in Nat /\ Tries \in Nat /\ Others \in Nat

VARIABLES
  env,      (* BEE_BATCH_ID and BEE_SIGNER_HEX                              *)
  at,       (* the check to be made, or how the program ended               *)
  fail,     (* "some" check failed, or "none"                               *)
  locals,   (* the program's variables: the tag, references, the batch, and *)
            (* how often a loop has gone round                              *)
  bee,      (* what the node holds and has done                             *)
  skipped,  (* checks not made                                              *)
  cause     (* history: what may explain a difference found by a check      *)

checkVars == <<env, at, fail, locals, bee, skipped, cause>>

Checks == <<"info", "accounting", "postage", "createTag", "getTag", "deleteTag", "hash",
            "batch", "wait", "batchReads", "upload", "readBack", "pin", "getPin", "unpin",
            "soc", "stream", "encrypted", "feedUpdate", "feedFetch", "feedRetrievable",
            "pss", "addresses", "mine", "gsoc", "topUp", "dilute", "diluted", "end">>

Ends == {"exit0", "exit1", "exit2", "panic"}

(* The checks that are skipped unless the batch is usable.                 *)
Gated == {Checks[i] : i \in 10..28}

After == Checks[1 + CHOOSE i \in 1..(Len(Checks) - 1) : Checks[i] = at]

(* A definition between a helper's comment and the helper is a seeded fault*)
(* of it.                                                                  *)
Passes == at' = After /\ fail' = fail
Fails == at' = After /\ fail' = "some"
Dies == at' = "exit2" /\ fail' = fail

CheckInit ==
  /\ env \in [batch : {"none", "user", "zero", "bad"}, signer : {"none", "given", "bad"}]
  /\ at = "info"
  /\ fail = "none"
  /\ locals = [tag |-> 0, batch |-> "zero", usable |-> "no", data |-> "zero", mined |-> "no",
              round |-> 0]
  /\ bee \in [tags : {{}}, pins : {{}}, usable : SUBSET {"user"}, bought : {0},
               depth : {[b \in {"own", "user"} |-> 17]}, queued : {{}},
               toppedUp : {[b \in {"own", "user"} |-> 0]},
               feed : IF env.signer = "given" THEN {<<>>, <<"old">>, <<"old", "old">>}
                      ELSE {<<>>}]
  /\ skipped = {}
  /\ cause = {}

(* A check that reads and keeps nothing passes or fails as the node likes. *)
Reads ==
  /\ Passes \/ Fails
  /\ UNCHANGED <<env, locals, bee, skipped, cause>>

(* A call that changes the node to done: it is answered, and the program   *)
(* goes on with known; or its answer is lost, or it is refused.            *)
Calls(done, known) ==
  /\ \/ Passes /\ bee' = done /\ locals' = known
     \/ Fails /\ bee' \in {bee, done} /\ locals' = locals
  /\ UNCHANGED <<env, skipped, cause>>

Skip ==
  /\ at \in Gated /\ locals.usable = "no"
  /\ Passes
  /\ skipped' = skipped \cup {at}
  /\ UNCHANGED <<env, locals, bee, cause>>

Run(check) == at = check /\ (at \in Gated => locals.usable = "yes")

-----------------------------------------------------------------------------
NodeInfo == Run("info") /\ Reads
Accounting == Run("accounting") /\ Reads
Postage == Run("postage") /\ Reads

CreateTag == Run("createTag") /\ Calls([bee EXCEPT !.tags = {1}], [locals EXCEPT !.tag = 1])

(* Without a tag, tag 0 is asked for; the node has none.                   *)
GetTag ==
  /\ Run("getTag")
  /\ (Passes /\ locals.tag \in bee.tags) \/ Fails
  /\ UNCHANGED <<env, locals, bee, skipped, cause>>

DeleteTag ==
  /\ Run("deleteTag")
  /\ IF locals.tag \in bee.tags THEN Calls([bee EXCEPT !.tags = {}], locals)
     ELSE Fails /\ UNCHANGED <<env, locals, bee, skipped, cause>>

(* Computed from constant data, this does not fail.                        *)
Offline == Run("hash") /\ Passes /\ UNCHANGED <<env, locals, bee, skipped, cause>>

-----------------------------------------------------------------------------
(* An id of zeros is well formed.                                          *)
ReuseBatch ==
  /\ Run("batch") /\ env.batch # "none"
  /\ IF env.batch = "bad" THEN Fails ELSE Passes
  /\ locals' = [locals EXCEPT !.batch = IF env.batch = "user" THEN "user" ELSE "zero"]
  /\ UNCHANGED <<env, bee, skipped, cause>>

BuyStorage ==
  /\ Run("batch") /\ env.batch = "none"
  /\ Calls([bee EXCEPT !.bought = @ + 1], [locals EXCEPT !.batch = "own"])

(* One poll of the list of batches; the deadline is looked at after it.    *)
PassesOver == Passes
GivesUp == Fails
Forgets(round) == (round + 1) % Polls
Further(round) == round + 1
WaitUsable ==
  /\ Run("wait") /\ locals.batch # "zero"
  /\ \/ /\ locals.batch \in bee.usable
        /\ Passes
        /\ locals' = [locals EXCEPT !.usable = "yes", !.round = 0]
     \/ Fails /\ locals' = [locals EXCEPT !.round = 0]
     \/ /\ locals.batch \notin bee.usable
        /\ IF locals.round = Polls THEN GivesUp /\ locals' = [locals EXCEPT !.round = 0]
           ELSE at' = at /\ fail' = fail /\ locals' = [locals EXCEPT !.round = Further(@)]
  /\ UNCHANGED <<env, bee, skipped, cause>>

WaitNoBatch ==
  /\ Run("wait") /\ locals.batch = "zero"
  /\ Passes
  /\ skipped' = skipped \cup {at}
  /\ UNCHANGED <<env, locals, bee, cause>>

BatchReads == Run("batchReads") /\ Reads

-----------------------------------------------------------------------------
UploadData == Run("upload") /\ Calls(bee, [locals EXCEPT !.data = "uploaded"])

(* What was not uploaded is not found, nor can it be pinned.               *)
ReadBack ==
  /\ Run("readBack")
  /\ (Passes /\ locals.data # "zero") \/ Fails
  /\ UNCHANGED <<env, locals, bee, skipped, cause>>

Pin ==
  /\ Run("pin")
  /\ IF locals.data = "zero" THEN Fails /\ UNCHANGED <<env, locals, bee, skipped, cause>>
     ELSE Calls([bee EXCEPT !.pins = {locals.data}], locals)

GetPin ==
  /\ Run("getPin")
  /\ (Passes /\ locals.data \in bee.pins) \/ Fails
  /\ UNCHANGED <<env, locals, bee, skipped, cause>>

Unpin ==
  /\ Run("unpin")
  /\ IF locals.data \notin bee.pins THEN Fails /\ UNCHANGED <<env, locals, bee, skipped, cause>>
     ELSE Calls([bee EXCEPT !.pins = {}], locals)

(* Each writes and reads back an item of its own.                          *)
SocRoundTrip == Run("soc") /\ Reads
StreamRoundTrip == Run("stream") /\ Reads
EncryptedRoundTrip == Run("encrypted") /\ Reads

-----------------------------------------------------------------------------
(* The feed of a given signer has the updates of earlier runs.  The node   *)
(* finds its first v updates, usually all.                                 *)
Seen(v) == cause \cup {c \in {"lag"} : v < Len(bee.feed)}

FirstIndex(v) == 1
IndexAfter(v) == v + 1
FeedUpdate ==
  /\ Run("feedUpdate")
  /\ \/ env.signer = "bad" /\ Dies /\ UNCHANGED <<env, locals, bee, skipped, cause>>
     \/ /\ env.signer # "bad"
        /\ \E v \in 0..Len(bee.feed) :
             LET i == IndexAfter(v)
                 done == [bee EXCEPT !.feed = IF i > Len(@) THEN Append(@, "mine")
                                               ELSE [@ EXCEPT ![i] = "mine"]]
             IN  \/ Passes /\ bee' = done /\ cause' = Seen(v)
                 \/ Fails /\ bee' \in {bee, done} /\ cause' = Seen(v) \cup {"failed"}
        /\ UNCHANGED <<env, locals, skipped>>

(* Only an error is tried again: an update that is not the one just made   *)
(* ends the check.                                                         *)
FeedFetch ==
  /\ Run("feedFetch")
  /\ \/ \E v \in 1..Len(bee.feed) :
          /\ cause' = Seen(v) \cup {c \in {"mismatch"} : bee.feed[v] # "mine"}
          /\ IF bee.feed[v] = "mine" THEN Passes ELSE Fails
          /\ locals' = [locals EXCEPT !.round = 0]
     \/ /\ cause' = cause
        /\ IF locals.round + 1 < Tries
           THEN at' = at /\ fail' = fail /\ locals' = [locals EXCEPT !.round = @ + 1]
           ELSE Fails /\ locals' = [locals EXCEPT !.round = 0]
  /\ UNCHANGED <<env, bee, skipped>>

(* Here an error ends the check, and an update not found is tried again.   *)
FeedRetrievable ==
  /\ Run("feedRetrievable")
  /\ \/ bee.feed # <<>> /\ Passes /\ locals' = [locals EXCEPT !.round = 0]
     \/ Fails /\ locals' = [locals EXCEPT !.round = 0]
     \/ /\ locals.round + 1 < Tries
        /\ at' = at /\ fail' = fail /\ locals' = [locals EXCEPT !.round = @ + 1]
  /\ UNCHANGED <<env, bee, skipped, cause>>

-----------------------------------------------------------------------------
PssSmoke == Run("pss") /\ Reads

Addresses ==
  /\ Run("addresses")
  /\ Passes \/ Dies
  /\ UNCHANGED <<env, locals, bee, skipped, cause>>

Mine ==
  /\ Run("mine")
  /\ \/ Passes /\ locals' = [locals EXCEPT !.mined = "yes"]
     \/ Fails /\ locals' = locals
  /\ UNCHANGED <<env, bee, skipped, cause>>

(* A signer that was not mined has no public key to ask for.               *)
Gsoc ==
  /\ Run("gsoc")
  /\ IF locals.mined = "yes" THEN Passes \/ Fails ELSE at' = "panic" /\ fail' = fail
  /\ UNCHANGED <<env, locals, bee, skipped, cause>>

-----------------------------------------------------------------------------
TopUp == Run("topUp") /\ Calls([bee EXCEPT !.toppedUp[locals.batch] = @ + 1], locals)

AnyBatch == locals.batch # "zero"
MayDilute == locals.batch = "own"
Dilute ==
  /\ Run("dilute")
  /\ IF MayDilute
     THEN /\ \/ Passes /\ bee' = [bee EXCEPT !.queued = {locals.batch}]
             \/ /\ at' = "end" /\ fail' = "some"
                /\ bee' \in {bee, [bee EXCEPT !.queued = {locals.batch}]}
          /\ UNCHANGED <<env, locals, skipped, cause>>
     ELSE /\ at' = "end" /\ fail' = fail
          /\ skipped' = skipped \cup {at}
          /\ UNCHANGED <<env, locals, bee, cause>>

(* The depth is read back at once, when the chain may not have it yet.     *)
Diluted ==
  /\ Run("diluted")
  /\ IF bee.depth[locals.batch] = 18 THEN Passes \/ Fails ELSE Fails
  /\ UNCHANGED <<env, locals, bee, skipped, cause>>

End ==
  /\ at = "end"
  /\ at' = IF fail = "none" THEN "exit0" ELSE "exit1"
  /\ UNCHANGED <<env, fail, locals, bee, skipped, cause>>

Step ==
  \/ Skip \/ NodeInfo \/ Accounting \/ Postage
  \/ CreateTag \/ GetTag \/ DeleteTag \/ Offline
  \/ ReuseBatch \/ BuyStorage \/ WaitUsable \/ WaitNoBatch \/ BatchReads
  \/ UploadData \/ ReadBack \/ Pin \/ GetPin \/ Unpin
  \/ SocRoundTrip \/ StreamRoundTrip \/ EncryptedRoundTrip
  \/ FeedUpdate \/ FeedFetch \/ FeedRetrievable
  \/ PssSmoke \/ Addresses \/ Mine \/ Gsoc
  \/ TopUp \/ Dilute \/ Diluted \/ End

(* The chain: a batch that was bought becomes usable, a dilution is seen.  *)
NodeConfirms ==
  /\ \/ bee.bought > 0 /\ bee' = [bee EXCEPT !.usable = @ \cup {"own"}]
     \/ \E b \in bee.queued :
          bee' = [bee EXCEPT !.depth[b] = @ + 1, !.queued = @ \ {b}]
  /\ UNCHANGED <<env, at, fail, locals, skipped, cause>>

(* Another run with the same signer updates the feed.                      *)
OtherRun ==
  /\ env.signer = "given" /\ Len(bee.feed) < 3 + Others
  /\ "other" \notin {bee.feed[i] : i \in DOMAIN bee.feed}
  /\ bee' = [bee EXCEPT !.feed = Append(@, "other")]
  /\ cause' = cause \cup {"other"}
  /\ UNCHANGED <<env, at, fail, locals, skipped>>

CheckNext == Step \/ NodeConfirms \/ OtherRun

(* A call ends after the time-out of the HTTP client, a wait after its own. *)
CheckSpec == CheckInit /\ [][CheckNext]_checkVars /\ WF_checkVars(Step)

-----------------------------------------------------------------------------
(* Exit code 0 means that everything was checked: checks are skipped in    *)
(* silence only for a user's batch, which is not diluted, and for an id of *)
(* zeros.  A batch that could not be bought or never became usable is      *)
(* a failure that the exit code tells.                                     *)
SkipsExplained ==
  at = "exit0" => skipped \subseteq {"dilute"} \/ env.batch = "zero"

(* The program comes to an end: it waits for no batch, no update and no    *)
(* message for ever, whatever the node answers and the chain delays.       *)
Terminates == <>(at \in Ends)

(* What is bought and changed on the chain: a batch only without one of the*)
(* user's, once; a user's batch keeps its depth, and is topped up at most  *)
(* once.                                                                   *)
MoneySpent ==
  /\ bee.bought <= IF env.batch = "none" THEN 1 ELSE 0
  /\ bee.queued \subseteq {"own"} /\ bee.depth["user"] = 17 /\ bee.depth["own"] <= 18
  /\ \A b \in {"own", "user"} : bee.toppedUp[b] <= IF locals.batch = b THEN 1 ELSE 0

(* The feed check finds another payload than the one it has just written   *)
(* only if the node showed the feed late, another run wrote it, or the     *)
(* update failed; and never with a signer of its own.                      *)
FeedAgrees ==
  "mismatch" \in cause =>
    env.signer = "given" /\ cause \cap {"lag", "other", "failed"} # {}
=============================================================================
