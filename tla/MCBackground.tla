---------------------------- MODULE MCBackground ----------------------------
(* The workers that run on a schedule, each by itself: a behaviour is one  *)
(* of the pull worker, of the delivery of an alert or of one of two        *)
(* instances of the refresh of rule names.                                 *)
EXTENDS Puller

CONSTANTS AlertGroups, Triagers, AlertCooldown, AlertAttempts, AlertBatch, AlertHooks,   \* of Alerting
          AlertsFired, AlertTime, AlertEdits, AlertFaults

VARIABLES scenario,
          now, quiet, lock, rule, alerts, posted, aat, since, fired, listed, mark, row, afaults,
          config, named, token, saved, edits, rat, todo, left, fetched, sinceFull, tokens, rfaults

(* A feed of each kind, with a payload nobody can read, a quiet window or  *)
(* a batch of which not all is fit; in the last, one fit record is taken   *)
(* for the rejected one.                                                   *)
One == <<"fit">>
Aligned == <<"rejected", "filtered", "fit">>
Misaligned == <<"fit", "filtered", "rejected", "fit">>

MCFeed(k, m, garbage) == [kind |-> k, length |-> 3, records |-> <<One, m, One>>, garbage |-> garbage]

MCFeeds ==
    ({MCFeed(k, m, {}) : k \in Kinds, m \in {One, <<>>}} \ {MCFeed("pages", <<>>, {})})
       \cup {MCFeed(k, <<>>, {2}) : k \in Kinds}
       \cup {MCFeed("pages", Aligned, {}), MCFeed("objects", Misaligned, {})}

(* A quiet spell longer than one poll reaches.                             *)
MCQuietFeeds ==
    {[kind |-> "windows", length |-> 5, records |-> <<One, <<>>, <<>>, <<>>, One>>, garbage |-> {}]}

(* One alert delivered by two processors while an operator triages it.     *)
Deliver == INSTANCE Alerting WITH
    Processors <- Processes, Groups <- AlertGroups, Cooldown <- AlertCooldown,
    MaxAttempts <- AlertAttempts, DeliverBatch <- AlertBatch,
    Nobody <- "nobody", Operators <- Triagers, Hooks <- AlertHooks,
    MaxAlerts <- AlertsFired, MaxTime <- AlertTime, MaxEdits <- AlertEdits, MaxFaults <- AlertFaults,
    at <- aat, faults <- afaults

(* Two processors refresh one tenant's names, one of them two tenants'.    *)
MCZones == <<"account", "zone">>
Names == INSTANCE RuleNames WITH
    Processors <- {"p", "q"}, Tenants <- {"t"}, Zones <- MCZones, FullEvery <- 2,
    MaxEdits <- 1, MaxTokens <- 0, MaxFaults <- 1,
    rule <- config, at <- rat, seen <- tokens, faults <- rfaults
Tenants == INSTANCE RuleNames WITH
    Processors <- {"p"}, Tenants <- {"t", "u"}, Zones <- MCZones, FullEvery <- 2,
    MaxEdits <- 0, MaxTokens <- 1, MaxFaults <- 2,
    rule <- config, at <- rat, seen <- tokens, faults <- rfaults

naming == <<config, named, token, saved, edits, rat, todo, left, fetched, sinceFull, tokens, rfaults>>
alerting == <<now, quiet, lock, rule, alerts, posted, aat, since, fired, listed, mark, row, afaults>>
allVars == <<vars, alerting, naming, scenario>>

AnyFeed == CHOOSE f \in Feeds : TRUE

MCInit ==
    /\ Init
    /\ \/ scenario = "pull" /\ Deliver!Init /\ Names!Init
       \/ scenario = "deliver" /\ feed = AnyFeed /\ Deliver!Init /\ Names!Init
       \/ scenario = "names" /\ feed = AnyFeed /\ Deliver!Init /\ Names!Init
       \/ scenario = "tenants" /\ feed = AnyFeed /\ Deliver!Init /\ Tenants!Init

MCNext ==
    /\ UNCHANGED scenario
    /\ \/ scenario = "pull" /\ Next /\ UNCHANGED <<alerting, naming>>
       \/ scenario = "deliver" /\ Deliver!Next /\ UNCHANGED <<vars, naming>>
       \/ scenario = "names" /\ Names!Next /\ UNCHANGED <<vars, alerting>>
       \/ scenario = "tenants" /\ Tenants!Next /\ UNCHANGED <<vars, alerting>>

(* The fairness of Puller, of the alerting instance that delivers and of   *)
(* RuleNames.  A behaviour has one scenario, so that fairness of a         *)
(* disjunction is fairness of the disjunct of its scenario.                *)
Loop(p) ==
    \/ scenario = "pull" /\ Poll(p) /\ UNCHANGED <<alerting, naming, scenario>>
    \/ /\ scenario = "deliver"
       /\ Deliver!Evaluation(p) \/ Deliver!Delivery(p) \/ Deliver!Update(p)
       /\ UNCHANGED <<vars, naming, scenario>>
    \/ scenario = "names" /\ Names!Work(p) /\ UNCHANGED <<vars, alerting, scenario>>
    \/ scenario = "tenants" /\ p = "p" /\ Tenants!Work(p) /\ UNCHANGED <<vars, alerting, scenario>>

Passing ==
    \/ scenario = "pull" /\ Log /\ UNCHANGED <<alerting, naming, scenario>>
    \/ scenario = "deliver" /\ Deliver!Tick /\ UNCHANGED <<vars, naming, scenario>>

MCFairness ==
    /\ \A p \in Processes : WF_allVars(Loop(p))
    /\ WF_allVars(Passing)
    /\ \A x \in Processes \cup Triagers :
          SF_allVars(scenario = "deliver" /\ Deliver!TakeLock(x) /\ UNCHANGED <<vars, naming, scenario>>)
    /\ \A o \in Triagers :
          WF_allVars(scenario = "deliver" /\ Deliver!Update(o) /\ UNCHANGED <<vars, naming, scenario>>)

MCSpec == MCInit /\ [][MCNext]_allVars /\ MCFairness

(* The pull worker alone, for a property it does not keep.                 *)
PullSpec == MCInit /\ scenario = "pull" /\ [][MCNext]_allVars /\ MCFairness

-----------------------------------------------------------------------------
(* The properties of Puller, Alerting and RuleNames, each of the instances *)
(* it is about.                                                            *)

(* Puller!EverythingPulled.                                                *)
PulledInTheEnd == scenario = "pull" => EverythingPulled

(* Alerting!WritersKeepApart.                                              *)
WritersKeepApart == Deliver!WritersKeepApart

(* Alerting!EveryAlertSettles.                                             *)
EveryAlertSettles == scenario = "deliver" => Deliver!EveryAlertSettles

(* RuleNames!NamesCatchUp.                                                 *)
NamesCatchUp ==
    <>[](/\ scenario = "names" => Names!NamesCurrent
         /\ scenario = "tenants" => Tenants!NamesCurrent)
=============================================================================
