------------------------------- MODULE Records -------------------------------
(***************************************************************************)
(* What one correlated record says: buildRecord assembles it from the      *)
(* members a window still holds, mergeRecords folds it into the row        *)
(* already stored under its correlation id, and the row goes into a        *)
(* partition chosen by its window start.  Closer models when windows close *)
(* and which events they join; here the events of ONE correlation id       *)
(* arrive in any order, their window expires at any moment, and every      *)
(* closing works from the members that are left.                           *)
(***************************************************************************)
EXTENDS Integers, FiniteSets, Sequences, FiniteSetsExt, SequencesExt

CONSTANTS Events,   \* events of the request, normalized and deduplicated
          Details,  \* what an event may say: records of DetailType
          Trust,    \* vendors, the one whose network attribution is best first
          Day,      \* length of a partition
          Slack     \* how far outside its own batch a stored row is looked for

Verdicts == {"unknown", "allowed", "monitored", "challenged", "rate_limited", "blocked"}
Scores == {"none", "low", "high"}
Kinds == {"bot", "threat"}

(* The columns of normalized_events that a record is built from.  "host"   *)
(* stands for the five columns of the request's shape, "asn" for network   *)
(* and country; "" and 0 are the columns' empty values.                    *)
DetailType == [vendor : Range(Trust), time : Nat, verdict : Verdicts,
               score : Scores, kind : Kinds, matched : SUBSET {"r", "s"},
               host : {"", "h"}, asn : Nat, shared : BOOLEAN]

VARIABLES
    detail,    \* detail[e]: the event as its vendor logged it
    arrived,   \* events filed so far
    members,   \* members the window holds in Redis, in the order filed
    due,       \* the window waits to be closed
    table      \* table[d]: the winning row of partition d, or NoRow

vars == <<detail, arrived, members, due, table>>

-----------------------------------------------------------------------------
(* Verdicts.                                                               *)

Restrictiveness == [unknown |-> 0, allowed |-> 1, monitored |-> 2,
                    challenged |-> 3, rate_limited |-> 4, blocked |-> 5]

MostRestrictive(V) ==
    CHOOSE v \in V \cup {"unknown"} :
        \A w \in V : Restrictiveness[w] <= Restrictiveness[v]

(* Classify, of a set of verdicts, how many there are, and whether a bot   *)
(* score among them is high.                                               *)
Kind(V, count, highBot) ==
    IF count < 2 THEN "none"
    ELSE CASE "allowed" \in V /\ V \cap {"blocked", "rate_limited"} # {} -> "allow_vs_block"
           [] {"allowed", "challenged"} \subseteq V
              /\ V \cap {"blocked", "rate_limited"} = {} -> "allow_vs_challenge"
           [] V = {"allowed"} /\ highBot -> "score_conflict"
           [] OTHER -> "none"

-----------------------------------------------------------------------------
(* One closing.                                                            *)

DayOf(t) == t \div Day
MaxTime == Max({d.time : d \in Details})
Partitions == 0..DayOf(MaxTime)

(* SliceStable: members go by time, and by arrival within an instant.      *)
Earlier(s, i, j) ==
    LET t(k) == detail[s[k]].time IN t(i) < t(j) \/ (t(i) = t(j) /\ i < j)

(* The event that comes first, or last, of those at some places of s.      *)
FirstOf(s, places) ==
    detail[s[CHOOSE i \in places : \A j \in places \ {i} : Earlier(s, i, j)]]
LastOf(s, places) ==
    detail[s[CHOOSE i \in places : \A j \in places \ {i} : Earlier(s, j, i)]]

OfVendor(s, v) == {i \in DOMAIN s : detail[s[i]].vendor = v}
Scored(s) == {i \in DOMAIN s : detail[s[i]].score # "none"}
Hosted(s) == {i \in DOMAIN s : detail[s[i]].host # ""}
Located(s) == {i \in DOMAIN s : detail[s[i]].asn # 0}

(* mostTrusted: the network as the vendor nearest the client reports it.   *)
TrustedAsn(s) ==
    LET ranked == [k \in DOMAIN Trust |-> OfVendor(s, Trust[k]) \cap Located(s)]
        seen == {k \in DOMAIN Trust : ranked[k] # {}}
    IN  IF seen = {} THEN 0 ELSE FirstOf(s, ranked[Min(seen)]).asn

BuildRecord(s) ==
    LET E == Range(s)
        vendors == {detail[e].vendor : e \in E}
        V == {detail[e].verdict : e \in E}
    IN  [events   |-> E,
         first    |-> FirstOf(s, DOMAIN s).time,
         last     |-> LastOf(s, DOMAIN s).time,
         verdicts |-> [v \in vendors |-> LastOf(s, OfVendor(s, v)).verdict],
         matched  |-> [v \in vendors |-> UNION {detail[s[i]].matched : i \in OfVendor(s, v)}],
         scores   |-> [v \in {detail[s[i]].vendor : i \in Scored(s)} |->
                          LastOf(s, OfVendor(s, v) \cap Scored(s)).score],
         host     |-> IF Hosted(s) = {} THEN "" ELSE FirstOf(s, Hosted(s)).host,
         asn      |-> TrustedAsn(s),
         shared   |-> \E e \in E : detail[e].shared,
         outcome  |-> MostRestrictive(V),
         kind     |-> Kind(V, Cardinality(E),
                           \E e \in E : detail[e].kind = "bot" /\ detail[e].score = "high"),
         version  |-> 1]

-----------------------------------------------------------------------------
(* Amending the stored row.                                                *)

(* mergeStringMap, mergeFloatMap: the fresh side wins where both have one. *)
OverlayDropping(new, old) == new
Overlay(new, old) ==
    [v \in DOMAIN new \cup DOMAIN old |-> IF v \in DOMAIN new THEN new[v] ELSE old[v]]

Smaller(a, b) == IF a < b THEN a ELSE b
Larger(a, b) == IF a > b THEN a ELSE b

ReclassifiedCarried(r) == r

(* classifyMerged has one verdict and one score per vendor; which kind of  *)
(* score it was is not stored, so every score counts as a bot's.           *)
Reclassified(r) ==
    LET V == Range(r.verdicts)
    IN  [r EXCEPT !.outcome = MostRestrictive(V),
                  !.kind = Kind(V, Cardinality(DOMAIN r.verdicts), "high" \in Range(r.scores))]

(* mergeRecords starts from the fresh record: what it does not name, the   *)
(* matched rules, is the fresh record's.                                   *)
MergeRecords(stored, fresh) ==
    Reclassified(
        [fresh EXCEPT !.events = stored.events \cup @,
                      !.verdicts = Overlay(@, stored.verdicts),
                      !.scores = Overlay(@, stored.scores),
                      !.first = Smaller(stored.first, @),
                      !.last = Larger(stored.last, @),
                      !.host = IF @ = "" THEN stored.host ELSE @,
                      !.asn = IF @ = 0 THEN stored.asn ELSE @,
                      !.shared = @ \/ stored.shared])

NoRow == [version |-> 0]

(* The partitions Versions and ByIDs look into for a record of this tick.  *)
Bound(fresh) == {d \in Partitions : d \in DayOf(fresh.first - Slack)..DayOf(fresh.first + Slack)}

(* LIMIT 1 BY correlation_id, highest version first; NoRow if none exists. *)
Stored(in) ==
    LET newest == {d \in in : \A o \in in : table[o].version <= table[d].version}
    IN  IF newest = {} THEN NoRow ELSE table[CHOOSE d \in newest : TRUE]

Versioned(stored, fresh) ==
    IF stored = NoRow THEN fresh
    ELSE [MergeRecords(stored, fresh) EXCEPT !.version = stored.version + 1]

(* ReplacingMergeTree: within a partition the highest version wins.        *)
Written(row) ==
    LET d == DayOf(row.first)
    IN  [table EXCEPT ![d] = IF row.version >= @.version THEN row ELSE @]

-----------------------------------------------------------------------------
Init ==
    /\ detail \in [Events -> Details]
    /\ arrived = {} /\ members = <<>> /\ due = FALSE
    /\ table = [d \in Partitions |-> NoRow]

(* AddBatch: the event joins the window, which is scheduled to close.      *)
Arrive ==
    /\ \E e \in Events \ arrived :
           /\ arrived' = arrived \cup {e}
           /\ members' = Append(members, e)
    /\ due' = TRUE
    /\ UNCHANGED <<detail, table>>

(* The members' key reaches its TTL, the window closed or not.             *)
Expire ==
    /\ members # <<>>
    /\ members' = <<>>
    /\ UNCHANGED <<detail, arrived, due, table>>

(* build, insert: a tick that finds members writes their record.           *)
Close ==
    /\ due /\ members # <<>>
    /\ LET fresh == BuildRecord(members)
       IN  table' = Written(Versioned(Stored(Bound(fresh)), fresh))
    /\ due' = FALSE
    /\ UNCHANGED <<detail, arrived, members>>

(* build: the window expired before it was closed; nothing is left.        *)
CloseExpired ==
    /\ due /\ members = <<>>
    /\ due' = FALSE
    /\ UNCHANGED <<detail, arrived, members, table>>

Next == Arrive \/ Expire \/ Close \/ CloseExpired

Spec == Init /\ [][Next]_vars

-----------------------------------------------------------------------------
Rows == {table[d] : d \in {p \in Partitions : table[p] # NoRow}}
Current == Stored(Partitions)
VendorsOf(E) == {detail[e].vendor : e \in E}
DistinctVendors(E) == Cardinality(VendorsOf(E)) = Cardinality(E)

(* A record tells of its events, whatever the closings that assembled it:  *)
(* its span is theirs, it has a verdict of every vendor among them and one *)
(* that this vendor gave, a shared address anywhere marks it, and a host   *)
(* one of them reported is not lost (buildRecord, mergeRecords).           *)
RecordTellsOfItsEvents ==
    \A r \in Rows :
        /\ r.first = Min({detail[e].time : e \in r.events})
        /\ r.last = Max({detail[e].time : e \in r.events})
        /\ DOMAIN r.verdicts = VendorsOf(r.events)
        /\ \A v \in VendorsOf(r.events) :
               \E e \in r.events : detail[e].vendor = v /\ detail[e].verdict = r.verdicts[v]
        /\ r.shared = \E e \in r.events : detail[e].shared
        /\ r.host = "" <=> \A e \in r.events : detail[e].host = ""

ScoredHigh(E, kind) == \E e \in E : detail[e].kind = kind /\ detail[e].score = "high"

(* However late its vendors report, and though members expire in between,  *)
(* a record with one event per vendor has the outcome and the disagreement *)
(* that all its events together have: none is missed, and there is none    *)
(* that they do not have but for the one of NoFalseConflict, which takes   *)
(* an amendment and a high score that is no bot's (classifyMerged).        *)
DisagreementFound ==
    \A r \in Rows :
        LET V == {detail[e].verdict : e \in r.events}
        IN  DistinctVendors(r.events) =>
                /\ r.outcome = MostRestrictive(V)
                /\ r.kind = Kind(V, Cardinality(r.events),
                                 \/ ScoredHigh(r.events, "bot")
                                 \/ r.version > 1 /\ ScoredHigh(r.events, "threat"))

(* No matched rule of an event a record holds is missing from the record:  *)
(* "where they hold sets, both are kept" (merge.go).                       *)
MatchedRulesKept ==
    \A r \in Rows : \A e \in r.events :
        LET v == detail[e].vendor
        IN  detail[e].matched \subseteq IF v \in DOMAIN r.matched THEN r.matched[v] ELSE {}

-----------------------------------------------------------------------------
(* Four things the code promises of a record and does not keep; no run     *)
(* checks them, TLC refutes each on the instance of MatchedRulesKept.      *)

(* The network is the most trusted vendor's, not the latest delivery's     *)
(* (geo.go): a merge prefers the fresh record's.                           *)
AttributionByTrust ==
    \A r \in Rows : r.asn = TrustedAsn(SetToSeq(r.events))

(* "A single-vendor record is never a disagreement" (disagreement.go):     *)
(* buildRecord counts verdicts, one per event, and not vendors.            *)
OneVendorAgrees ==
    \A r \in Rows : Cardinality(VendorsOf(r.events)) = 1 => r.kind = "none"

(* "Only bot scores drive a score conflict" (disagreement.go): a merge     *)
(* marks every stored score as a bot's.                                    *)
NoFalseConflict ==
    \A r \in Rows : r.kind = "score_conflict" => ScoredHigh(r.events, "bot")

(* An amendment replaces the row it amends, so an id has one row (FR-018): *)
(* one whose first event lies in another day is a row of its own.          *)
OneRowPerRecord == Cardinality(Rows) <= 1
=============================================================================
