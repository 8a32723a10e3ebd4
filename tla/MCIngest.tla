------------------------------ MODULE MCIngest ------------------------------
(* Small instances of what happens around a delivery: the receiver with    *)
(* two senders whose batches overlap in a fit and in a rejected record,    *)
(* and a destination probe; the volume a feed may deliver; and the start   *)
(* and stop of the services. A behaviour is one of the instance its        *)
(* scenario names.                                                         *)
EXTENDS Ingest

CONSTANTS Sizes, FeedLimits,    \* of Quota: what deliveries bring, what a feed is limited to
          Workers, Requests     \* of Lifecycle

VARIABLES scenario, limit, used, let, sender, faults,
          stage, late, open, worker, backoff, failures, request, samples

charging == <<limit, used, let, sender, faults>>
running == <<stage, late, open, worker, backoff, failures, request, samples>>

(* A filter excludes "noise"; here it comes after the rejected record.     *)
MCRecords == [d1 |-> <<"a", "bad", "noise", "b">>, d2 |-> <<"b", "bad">>, probe |-> <<>>]

(* With a filter that excludes the first record: the rejection of the      *)
(* second now has the index of the third's envelope.                       *)
MCFilteredRecords == [d1 |-> <<"noise", "bad", "b">>]

(* Four deliveries of one feed, which fit the limits one by one.           *)
MCSizes == [p |-> [events |-> 2, bytes |-> 2], q |-> [events |-> 2, bytes |-> 3],
            r |-> [events |-> 1, bytes |-> 1], s |-> [events |-> 3, bytes |-> 4]]

MCLimits == {[events |-> 3, bytes |-> 4], [events |-> 3, bytes |-> 0], [events |-> 0, bytes |-> 4]}

AnyLimit == CHOOSE l \in FeedLimits : TRUE

Quotas == INSTANCE Quota WITH
    Deliveries <- DOMAIN Sizes, Size <- Sizes, Limits <- FeedLimits, MaxFaults <- 1

(* Workers that fail, and a delivery taken when the signal comes.          *)
Services == INSTANCE Lifecycle WITH
    MinBackoff <- 1, MaxBackoff <- 3, MaxFailures <- 2, MaxSamples <- 1, phase <- stage

MCInit ==
    /\ Init /\ Quotas!Init /\ Services!Init
    /\ \/ scenario = "quota"
       \/ scenario \in {"deliveries", "services"} /\ limit = AnyLimit

MCNext ==
    /\ UNCHANGED scenario
    /\ \/ scenario = "deliveries" /\ Next /\ UNCHANGED <<charging, running>>
       \/ scenario = "quota" /\ Quotas!Next /\ UNCHANGED <<vars, running>>
       \/ scenario = "services" /\ Services!Next /\ UNCHANGED <<vars, charging>>

(* The fairness of the three modules. A behaviour has one scenario, so     *)
(* that fairness of a disjunction is fairness of the disjunct of its       *)
(* scenario.                                                               *)
allVars == <<vars, charging, running, scenario>>

InQuota(A) == scenario = "quota" /\ A /\ UNCHANGED <<vars, running, scenario>>
InServices(A) == scenario = "services" /\ A /\ UNCHANGED <<vars, charging, scenario>>
InDeliveries(A) == scenario = "deliveries" /\ A /\ UNCHANGED <<charging, running, scenario>>

MCFairness ==
    /\ WF_allVars(InDeliveries(Send("d1")) \/ InQuota(Quotas!Check("p"))
                  \/ InServices(Services!Proceeds("v")))
    /\ WF_allVars(InDeliveries(Send("d2")) \/ InQuota(Quotas!Check("q"))
                  \/ InServices(Services!Proceeds("w")))
    /\ WF_allVars(InDeliveries(Send("probe")) \/ InQuota(Quotas!Check("r"))
                  \/ InServices(Services!GraceEnds("processor")))
    /\ WF_allVars(InDeliveries(Handle("d1")) \/ InQuota(Quotas!Check("s"))
                  \/ InServices(Services!GraceEnds("ingest")))
    /\ WF_allVars(InDeliveries(Handle("d2")) \/ InQuota(Quotas!NextSecond)
                  \/ InServices(Services!ShutsDown("processor")))
    /\ WF_allVars(InDeliveries(Handle("probe")) \/ InQuota(Quotas!NextDay)
                  \/ InServices(Services!ShutsDown("ingest")))
    /\ \A d \in Deliveries \ Probes :
          /\ SF_allVars(InDeliveries(Admit(d)))
          /\ SF_allVars(InDeliveries(Commit(d)))

MCSpec == MCInit /\ [][MCNext]_allVars /\ MCFairness

(* The receiver alone, for a property it does not keep.                    *)
ReceiverSpec == MCInit /\ scenario = "deliveries" /\ [][MCNext]_allVars

-----------------------------------------------------------------------------
(* The properties of the modules, each of the instances it is about; those *)
(* of Ingest that hold of deliveries nobody sends are here as they are.    *)

(* Ingest!EventuallyDurable: what is settled stays so.                     *)
DurableInTheEnd == <>[](scenario = "deliveries" => \A d \in Deliveries : Settled(d))

(* Quota!LimitsHold.                                                       *)
LimitsHold == Quotas!LimitsHold

(* Quota!EveryoneGetsThrough.                                              *)
EveryoneGetsThrough == <>[](scenario = "quota" => Quotas!Through)

(* Lifecycle!ClosedAfterUse.                                               *)
ClosedAfterUse == Services!ClosedAfterUse

(* Lifecycle!NoStageStaysDown.                                             *)
NoStageStaysDown == Services!NoStageStaysDown
=============================================================================
