--------------------------------- MODULE Quota ---------------------------------
(* The volume a feed may deliver: ingest/quota.go and the receiver's       *)
(* checkQuota. Two counters in Redis, the events of the second and the     *)
(* bytes of the day, are added to before they are compared with the        *)
(* limits, so a delivery that is refused has been charged all the same. A  *)
(* refused sender keeps its delivery and comes back after the second that  *)
(* Retry-After names, whichever limit it met: what the quota would have it *)
(* wait for is not passed on (quotaError, retryAfterFor).                  *)
EXTENDS Naturals

CONSTANTS
    Deliveries,  \* the deliveries of one feed
    Size,        \* Size[d]: [events, bytes] of delivery d
    Limits,      \* the [events, bytes] a feed may be limited to, 0 for no limit
    MaxFaults    \* bound on counters that cannot be reached

VARIABLES
    limit,    \* the limits of this feed
    used,     \* [events, bytes]: the counters of this second and of this day
    let,      \* [events, bytes]: what was charged and let through in them
    sender,   \* sender[d]: "ready", "waiting" for the next second, "charged" or "done"
    faults

vars == <<limit, used, let, sender, faults>>

Init ==
    /\ limit \in Limits
    /\ used = [events |-> 0, bytes |-> 0]
    /\ let = [events |-> 0, bytes |-> 0]
    /\ sender = [d \in Deliveries |-> "ready"]
    /\ faults = 0

(* A mutant: the delivery itself is not counted against the limit.         *)
OverBefore(what, total, d) == limit[what] > 0 /\ total - Size[d][what] > limit[what]

(* Over the limit, if there is one, with this delivery counted in.         *)
Over(what, total, d) == limit[what] > 0 /\ total > limit[what]

Waits(d, until) == sender' = [sender EXCEPT ![d] = until]

(* What a counter comes to with delivery d. Beyond the limit it is all the *)
(* same how far.                                                           *)
Total(what, d) ==
    LET total == used[what] + Size[d][what]
    IN  IF total > limit[what] THEN limit[what] + 1 ELSE total

(* One INCRBY with its expiry, and the comparison.                         *)
Charge(d, what, next) ==
    LET total == Total(what, d)
    IN  /\ used' = [used EXCEPT ![what] = total]
        /\ IF Over(what, total, d)
           THEN Waits(d, "waiting") /\ UNCHANGED let
           ELSE Waits(d, next) /\ let' = [let EXCEPT ![what] = @ + Size[d][what]]
        /\ UNCHANGED <<limit, faults>>

(* A counter that does not answer, charged or not, lets the delivery       *)
(* through and ends the check: the bytes are not asked about.              *)
FailOpen(d, what) ==
    /\ faults < MaxFaults
    /\ faults' = faults + 1
    /\ used' \in {used, [used EXCEPT ![what] = Total(what, d)]}
    /\ Waits(d, "done")
    /\ UNCHANGED <<limit, let>>

(* A limit that is not set asks no counter.                                *)
CheckEventRate(d) ==
    /\ sender[d] = "ready"
    /\ IF limit.events = 0 THEN Waits(d, "charged") /\ UNCHANGED <<limit, used, let, faults>>
       ELSE Charge(d, "events", "charged") \/ FailOpen(d, "events")

CheckDailyBytes(d) ==
    /\ sender[d] = "charged"
    /\ IF limit.bytes = 0 THEN Waits(d, "done") /\ UNCHANGED <<limit, used, let, faults>>
       ELSE Charge(d, "bytes", "done") \/ FailOpen(d, "bytes")

(* The next second and the next day have counters of their own. A delivery *)
(* counts in the second it was charged in.                                 *)
NextSecond ==
    /\ used.events > 0 \/ \E d \in Deliveries : sender[d] = "waiting"
    /\ used' = [used EXCEPT !.events = 0]
    /\ let' = [let EXCEPT !.events = 0]
    /\ sender' = [d \in Deliveries |-> IF sender[d] = "waiting" THEN "ready" ELSE sender[d]]
    /\ UNCHANGED <<limit, faults>>

(* A mutant: the key of the bytes does not name the day, and is kept alive *)
(* by those who come back.                                                 *)
NextDayKeeps ==
    /\ used.bytes > 0
    /\ let' = [let EXCEPT !.bytes = 0]
    /\ UNCHANGED <<limit, used, sender, faults>>

NextDay ==
    /\ used.bytes > 0
    /\ used' = [used EXCEPT !.bytes = 0]
    /\ let' = [let EXCEPT !.bytes = 0]
    /\ UNCHANGED <<limit, sender, faults>>

Check(d) == CheckEventRate(d) \/ CheckDailyBytes(d)

Next ==
    \/ \E d \in Deliveries : Check(d)
    \/ NextSecond \/ NextDay

(* Time passes and senders come back.                                      *)
Fairness ==
    /\ \A d \in Deliveries : WF_vars(Check(d))
    /\ WF_vars(NextSecond)
    /\ WF_vars(NextDay)

Spec == Init /\ [][Next]_vars /\ Fairness

-----------------------------------------------------------------------------
(* What is let through in one second, or one day, stays within the limit,  *)
(* however many receivers charge the counters at once; deliveries let      *)
(* through while a counter was out of reach are not counted.               *)
LimitsHold ==
    \A what \in {"events", "bytes"} : limit[what] > 0 => let[what] <= limit[what]

Fits(d) == \A what \in {"events", "bytes"} : limit[what] = 0 \/ Size[d][what] <= limit[what]

Through ==
    (\A d \in Deliveries : Fits(d)) => \A d \in Deliveries : sender[d] = "done"

(* Where each delivery fits the limits by itself, every one is let through *)
(* in the end, by senders that come back when they were told to: what the  *)
(* refused are charged, each second anew for as long as a day is used up,  *)
(* is no debt carried into the next. (One that does not fit is refused for *)
(* good, and may eat the budget of each second it comes back in.)          *)
EveryoneGetsThrough == <>[]Through
=============================================================================
