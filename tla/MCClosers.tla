------------------------------ MODULE MCClosers ------------------------------
(* Three small instances of Closer over the same variables, and one of     *)
(* Records: a behaviour is one of the instance its scenario names.  The    *)
(* pair of MCCloser has its constants in the .cfg.  Windows are 5 units    *)
(* wide.                                                                   *)
EXTENDS MCCloser

CONSTANTS FiledEvents, SaidDetails, TrustOrder, PartitionLength, LookAround    \* of Records

VARIABLES scenario,
          detail, arrived, members, due, rows    \* the variables of Records

ofRecords == <<detail, arrived, members, due, rows>>

(* One window, three vendors, no identifiers; calls fail, the closer       *)
(* crashes, and members expire even while their window waits.              *)
Shape == INSTANCE Closer WITH
    Events <- {"a", "b", "c"}, Closers <- {"k1"},
    VendorOf <- ShapeVendor, TimeOf <- ShapeTime, IdsOf <- ShapeIds, ShapeOf <- ShapeShape,
    NoShape <- "none", Window <- 5, Limit <- 2, FetchLimit <- 2, MaxFailures <- 1,
    Expires <- {"members", "pending members"}

(* A Worker-protected request, all in one window.  Two vendors report its  *)
(* client-facing half (1) and two its origin half (2); one row carries     *)
(* both identifiers and shows that they are one request.                   *)
Bridge == INSTANCE Closer WITH
    Events <- {"f", "c", "d", "n", "o"}, Closers <- {"k1"},
    VendorOf <- [f |-> "f5", c |-> "cloudflare", d |-> "datadome", n |-> "nginx", o |-> "cloudflare"],
    TimeOf <- [f |-> 1, c |-> 1, d |-> 1, n |-> 1, o |-> 1],
    IdsOf <- [f |-> {1}, c |-> {1}, d |-> {2}, n |-> {2}, o |-> {1, 2}],
    ShapeOf <- [f |-> "/a", c |-> "/a", d |-> "/a", n |-> "/a", o |-> "/a"],
    NoShape <- "none", Window <- 5, Limit <- 2, FetchLimit <- 1, MaxFailures <- 0,
    Expires <- {}

(* What the events of one request may say: two of each vendor, so that    *)
(* every conflict of verdicts and both kinds of score occur, on two days.  *)
Said(vendor, time, verdict, score, kind, matched, host, asn, shared) ==
    [vendor |-> vendor, time |-> time, verdict |-> verdict, score |-> score, kind |-> kind,
     matched |-> matched, host |-> host, asn |-> asn, shared |-> shared]

MCDetails == {
    Said("cloudflare", 1, "allowed",    "none", "bot",    {"r"}, "h", 1, FALSE),
    Said("cloudflare", 2, "challenged", "none", "bot",    {"s"}, "",  0, FALSE),
    Said("datadome",   0, "allowed",    "high", "bot",    {},    "",  1, FALSE),
    Said("datadome",   3, "blocked",    "low",  "bot",    {},    "h", 0, TRUE),
    Said("f5",         2, "allowed",    "high", "threat", {"r"}, "h", 2, TRUE),
    Said("f5",         1, "monitored",  "none", "threat", {},    "",  2, FALSE)}

MCTrust == <<"cloudflare", "datadome", "f5">>

(* One correlation id.                                                     *)
Record == INSTANCE Records WITH
    Events <- FiledEvents, Details <- SaidDetails, Trust <- TrustOrder, Day <- PartitionLength,
    Slack <- LookAround, table <- rows

MCInit ==
    \/ /\ \/ scenario = "pair" /\ Init
          \/ scenario = "shape" /\ Shape!Init
          \/ scenario = "bridge" /\ Bridge!Init
       /\ detail = <<>> /\ arrived = {} /\ members = <<>> /\ due = FALSE /\ rows = <<>>
    \/ scenario = "record" /\ Record!Init /\ Init

MCNext ==
    /\ scenario' = scenario
    /\ \/ /\ \/ scenario = "pair" /\ Next
             \/ scenario = "shape" /\ Shape!Next
             \/ scenario = "bridge" /\ Bridge!Next
          /\ UNCHANGED ofRecords
       \/ scenario = "record" /\ Record!Next /\ UNCHANGED vars

MCSpec == MCInit /\ [][MCNext]_<<vars, ofRecords, scenario>>

(* The record alone, for a property it does not keep.                      *)
RecordSpec == MCInit /\ scenario = "record" /\ [][MCNext]_<<vars, ofRecords, scenario>>

-----------------------------------------------------------------------------
(* The properties of Closer and of Records, each of the instance it is about. *)

(* Closer!NoFalseJoin where two closers meet in windows of one request.    *)
PairNoFalseJoin == scenario = "pair" => NoFalseJoin

(* Closer!AmendmentsAdd where closings fail: an amendment never takes an   *)
(* event out of a record.                                                  *)
ShapeAmendmentsAdd ==
    [][scenario = "shape" =>
          \A id \in Shape!GroupKeys : table[id].events \subseteq table'[id].events]_table

(* Closer!RecordsStayFindable where halves of one request meet late: the   *)
(* id of a record is claimed under a key of its own events.                *)
BridgeRecordsStayFindable == scenario = "bridge" => Bridge!RecordsStayFindable

(* Records!RecordTellsOfItsEvents.                                         *)
RecordTellsOfItsEvents == scenario = "record" => Record!RecordTellsOfItsEvents

(* Records!DisagreementFound.                                              *)
DisagreementFound == scenario = "record" => Record!DisagreementFound

(* Records!MatchedRulesKept: "where they hold sets, both are kept".        *)
MatchedRulesKept == scenario = "record" => Record!MatchedRulesKept
=============================================================================
