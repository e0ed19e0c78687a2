------------------------------ MODULE FeedTools ------------------------------
(***************************************************************************)
(* The tools that publish what they upload through a feed:                 *)
(*   swarm-deploy  its file is the history of the sites it published,      *)
(*   swarm-vault   its file is an index, from names to encrypted uploads,  *)
(*   swarm-blog    its file is written once; posts are files of the user.  *)
(* All three refuse to run without a readable state file, and to set up a  *)
(* directory that has one.                                                 *)
(***************************************************************************)
EXTENDS StateFile

(* The file is there, as far as os.Stat knows, or it is not; what is saved *)
(* is empty.  The feed manifest created in between depends on nothing.     *)
Initialise(p, empty) ==
  /\ file = Absent
  /\ Begin(p, [at |-> "save", new |-> empty, acks |-> {}])
  /\ UNCHANGED <<dir, node>>

-----------------------------------------------------------------------------
(* A definition between a helper's comment and the helper is a seeded      *)
(* fault of it.                                                            *)

(* Where UpdateFeedWithReference starts, the uploads being done.           *)
RecordFirst == "save"
PublishFirst == "look"

(* The node stores content c, and the command goes on to its feed update.  *)
Upload(p, c, pub, new, acks) ==
  /\ Strict
  /\ Begin(p, [at |-> PublishFirst, pub |-> pub, new |-> new, acks |-> acks])
  /\ node' = [node EXCEPT !.stored = @ \cup c]
  /\ UNCHANGED dir

(* FindNextIndex.  The answer is that of a node which sees the first `seen`*)
(* updates: all of them, or fewer when it lags behind the network; none    *)
(* also when it answers 404, or fails with 500, which the code takes for a *)
(* feed without updates.  Other failures stop the command.                 *)
NewestIndex(seen) == IF seen = 0 THEN 0 ELSE seen - 1
NextIndex(seen) == seen
LookUp(p) ==
  /\ job[p].at = "look"
  /\ \E seen \in 0..Len(node.feed) :
       /\ job' = [job EXCEPT ![p] = [at |-> "publish", pub |-> @.pub, new |-> @.new,
                                     acks |-> @.acks, index |-> NextIndex(seen)]]
       /\ disturbed' = disturbed \cup {e \in {"astray"} : seen < Len(node.feed)}
  /\ UNCHANGED <<tool, file, commands, dir, node, acked>>

(* The node nd serves an update to an index: if the index is taken, it     *)
(* keeps one of the two.                                                   *)
Serves(nd, pub, index) ==
  \/ node' = [nd EXCEPT !.served = @ \cup {pub},
                        !.feed = IF index = Len(@) THEN Append(@, pub)
                                 ELSE [@ EXCEPT ![index + 1] = pub]]
  \/ /\ index < Len(nd.feed)
     /\ node' = [nd EXCEPT !.served = @ \cup {pub}]

(* The update is uploaded to its index.  Blog saves nothing.               *)
Publish(p) ==
  LET j == job[p] IN
  /\ j.at = "publish"
  /\ Serves(node, j.pub, j.index)
  /\ job' = [job EXCEPT ![p] = IF tool = "blog" THEN Idle
                               ELSE [at |-> "save", new |-> j.new, acks |-> j.acks]]
  /\ UNCHANGED <<tool, file, commands, dir, acked, disturbed>>

(* The node serves an update whose command has given up.  It is in the way *)
(* of others if its index is taken by now, or is about to be written to.   *)
ServeLate ==
  \E r \in node.late :
    /\ Serves([node EXCEPT !.late = @ \ {r}], r.pub, r.index)
    /\ disturbed' = disturbed \cup
         {e \in {"late"} : r.index < Len(node.feed) \/ \E q \in Shells : job[q].at = "publish"}
    /\ UNCHANGED <<tool, file, job, commands, dir, acked>>

-----------------------------------------------------------------------------
(* swarm-deploy                                                            *)

DeployInit(p) == tool = "deploy" /\ Initialise(p, <<>>)

DeployPush(p) ==
  /\ tool = "deploy"
  /\ \E site \in Contents :
       Upload(p, {site}, site, Append(file.value, site), acked \cup {site})

DeployRollback(p) ==
  /\ tool = "deploy" /\ Strict
  /\ \E i \in DOMAIN file.value :
       LET site == file.value[i]
       IN  Upload(p, {}, site, Append(file.value, site), acked)

DeployNext(p) == DeployInit(p) \/ DeployPush(p) \/ DeployRollback(p)

-----------------------------------------------------------------------------
(* swarm-vault.  LatestIndexRef is written and never read.                 *)

Pairs(index) == {<<n, index[n]>> : n \in {m \in Names : index[m] # None}}

VaultInit(p) == tool = "vault" /\ Initialise(p, [n \in Names |-> None])

(* publishIndex uploads the changed index and publishes it.                *)
PublishIndex(p, c, index) == Upload(p, c, index, index, Pairs(index))

VaultPut(p) ==
  /\ tool = "vault" /\ Strict
  /\ \E n \in Names, c \in Contents : PublishIndex(p, {c}, [file.value EXCEPT ![n] = c])

VaultRm(p) ==
  /\ tool = "vault" /\ Strict
  /\ \E n \in Names :
       file.value[n] # None /\ PublishIndex(p, {}, [file.value EXCEPT ![n] = None])

VaultNext(p) == VaultInit(p) \/ VaultPut(p) \/ VaultRm(p)

-----------------------------------------------------------------------------
(* swarm-blog                                                              *)

BlogInit(p) == tool = "blog" /\ Initialise(p, None)

BlogNew(p) ==
  /\ tool = "blog" /\ Strict /\ job[p] = Idle
  /\ \E n \in Names, c \in Contents : dir[n] = None /\ dir' = [dir EXCEPT ![n] = c]
  /\ UNCHANGED <<tool, file, job, commands, node, acked, disturbed>>

(* listPosts                                                               *)
Posts == {n \in Names : dir[n] # None}

BlogPublish(p) ==
  /\ tool = "blog" /\ Strict /\ Posts # {}
  /\ Begin(p, [at |-> "posts", posts |-> Posts])
  /\ UNCHANGED <<dir, node>>

(* The posts are read and rendered: each page, and its link in the index,  *)
(* come from the list.  One that is gone is an error.  The code reads them *)
(* one after the other; which edits in between a page shows matters to     *)
(* nothing here.                                                           *)
BlogRead(p) ==
  /\ job[p].at = "posts"
  /\ \A n \in job[p].posts : dir[n] # None
  /\ LET site == [n \in job[p].posts |-> dir[n]]
     IN  job' = [job EXCEPT ![p] = [at |-> "look", pub |-> site, new |-> None, acks |-> {}]]
  /\ UNCHANGED <<tool, file, commands, dir, node, acked, disturbed>>

BlogNext(p) == BlogInit(p) \/ BlogNew(p) \/ BlogPublish(p) \/ BlogRead(p)

FeedToolsNext(p) ==
  DeployNext(p) \/ VaultNext(p) \/ BlogNext(p) \/ LookUp(p) \/ Publish(p)

-----------------------------------------------------------------------------
(* A state file refers only to what the node has: a row of the deploy      *)
(* history was published before it was written, and an entry of the vault  *)
(* was uploaded.  It holds whatever is killed, lost or overwritten.        *)
FeedToolsDangle(value) ==
  \/ tool = "deploy" /\ \E i \in DOMAIN value : value[i] \notin node.served
  \/ tool = "vault" /\ \E n \in Names : value[n] \notin node.stored \cup {None}

(* Some of the feed's updates, in their order.                             *)
PartsOf(feed) ==
  {[i \in 1..Cardinality(S) |->
      feed[CHOOSE k \in S : Cardinality({l \in S : l <= k}) = i]] : S \in SUBSET DOMAIN feed}

(* The feed and the file agree: the deploy history lists updates of the    *)
(* feed in their order, and while no command runs and none was broken off, *)
(* the newest update is the site, or the index, that the file has.  An     *)
(* update published and not recorded (deploy) or a stale index published   *)
(* over a newer one (vault) would break it.  Three things do, and the      *)
(* property names them: commands that overlap, a look-up that misses       *)
(* updates (a 500 is enough: the command succeeds, having written over the *)
(* first update), and an update served late over another.                  *)
FeedFollowsFile ==
  /\ tool \in {"deploy", "vault"} /\ Strict
  /\ disturbed \cap {"overlap", "astray", "late"} = {}
  =>
    /\ tool = "deploy" => file.value \in PartsOf(node.feed)
    /\ (\A p \in Shells : job[p] = Idle) /\ disturbed = {} /\ node.feed # <<>> =>
         LET newest == node.feed[Len(node.feed)] IN
         IF tool = "vault" THEN newest = file.value
         ELSE file.value # <<>> /\ newest = file.value[Len(file.value)]

=============================================================================
