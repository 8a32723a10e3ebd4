----------------------------- MODULE MCPipeline -----------------------------
(* What happens behind the receiver, in two parts: two processors share    *)
(* both groups of Pipeline, or the worker and one closer of Closer turn    *)
(* forwarded events into records, while keys expire between closings or    *)
(* while the worker fails and files again.  The topic between the two      *)
(* parts is in both.                                                       *)
EXTENDS Pipeline, TLC

VARIABLES scenario,
          filed, cbatch, stage, bucket, schedule, identity, table, pc, ctodo, found, walked,
          groups, known, left, draft, out, old, failures

(* One tenant: what its policy decides, it decides for every record.       *)
MCTenantOf == [r \in Records |-> "t1"]

(* Two vendors report identifier 1 from windows 0 and 2; a third event of  *)
(* the same shape, with an identifier of its own, shares the later window. *)
(* Fetches of two.                                                         *)
Solo == INSTANCE Closer WITH
    Events <- {"f", "c", "n"}, Closers <- {"k"},
    VendorOf <- [f |-> "f5", c |-> "cloudflare", n |-> "cloudflare"],
    TimeOf <- [f |-> 1, c |-> 11, n |-> 12],
    IdsOf <- [f |-> {1}, c |-> {1}, n |-> {2}],
    ShapeOf <- [f |-> "/a", c |-> "/a", n |-> "/a"],
    NoShape <- "none", Window <- 5, Limit <- 2, FetchLimit <- 2, MaxFailures <- 1,
    Expires <- {"members", "identities"}, batch <- cbatch, todo <- ctodo

closing == <<filed, cbatch, stage, bucket, schedule, identity, table, pc, ctodo, found, walked,
             groups, known, left, draft, out, old, failures>>
allVars == <<vars, closing, scenario>>

MCInit == Init /\ Solo!Init /\ scenario \in {"normalize", "correlate", "refile"}

(* A call of the worker fails, or it dies, once: what a fetch left half    *)
(* filed is filed again.  The closer's calls do not fail: what it claimed  *)
(* and could not build stays unbuilt until another event schedules the     *)
(* window.                                                                 *)
Refile == \/ Solo!Worker \/ Solo!WorkerFailure \/ Solo!Tick("k")
          \/ \E k \in Solo!BucketKeys : Solo!ExpireMembers(k)

MCNext ==
    /\ UNCHANGED scenario
    /\ \/ scenario = "normalize" /\ Next /\ UNCHANGED closing
       \/ /\ scenario = "correlate" /\ UNCHANGED vars
          /\ Solo!Worker \/ Solo!Tick("k") \/ Solo!Expiry
       \/ scenario = "refile" /\ UNCHANGED vars /\ Refile

(* The fairness of both specifications.                                    *)
MCFairness ==
    /\ \A g \in Groups : \A p \in Processors :
          WF_allVars(scenario = "normalize" /\ Worker(g, p) /\ UNCHANGED <<closing, scenario>>)
    /\ \A g \in Groups :
          WF_allVars(/\ scenario = "normalize" /\ owner[g] = None
                     /\ \E p \in Processors : Assign(g, p)
                     /\ UNCHANGED <<closing, scenario>>)
    /\ WF_allVars(scenario # "normalize" /\ Solo!Worker /\ UNCHANGED <<vars, scenario>>)
    /\ WF_allVars(scenario # "normalize" /\ Solo!Tick("k") /\ UNCHANGED <<vars, scenario>>)

MCSpec == MCInit /\ [][MCNext]_allVars /\ MCFairness

-----------------------------------------------------------------------------
(* Pipeline!EveryRecordAccounted, and Closer!EveryEventRecorded where the  *)
(* closer's calls do not fail: every fit record is stored and forwarded,   *)
(* and every forwarded event gets into a record, although a fetch may have *)
(* been pushed and not scheduled, or scheduled in part, when it was cut    *)
(* off and filed again.                                                    *)
NothingIsLost ==
    /\ scenario = "normalize" => EveryRecordAccounted
    /\ scenario # "normalize" => Solo!EveryEventRecorded
=============================================================================
