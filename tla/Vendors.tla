-------------------------------- MODULE Vendors --------------------------------
(* What the adapters of internal/vendors make of one request's trip        *)
(* through the hops that log it. Cloudflare answers at its edge, or a      *)
(* Worker asks DataDome and fetches the origin; a BIG-IP and an nginx      *)
(* stand in front of the application. Each hop writes rows in its own      *)
(* words, about a request it knows by its own identifier, and refuses the  *)
(* request or passes it on. A row is normalized by a pure function, so the *)
(* order of delivery, which Ingest and Pipeline model, is left out: an     *)
(* event is there as soon as its row is.                                   *)
EXTENDS Naturals

CONSTANTS
    Requests,  \* the requests
    Varied     \* those of them whose hops answer in every way: the others pass unnoticed

VARIABLES
    at,      \* at[r]: the hop that has request r, or "ended"
    header,  \* header[r]: the CF-Ray the request carries to the origin
    pseudo,  \* pseudo[r]: Cloudflare hands the origin a made-up IPv4 address
    ended,   \* ended[r]: how it ended: "open", "answered" or "refused"
    spared,  \* the <<r, hop>> that let by what their rules object to
    events   \* what the adapters made of the rows the hops have logged

vars == <<at, header, pseudo, ended, spared, events>>

-----------------------------------------------------------------------------
(* The words of the vendors.                                               *)

(* The verdicts of the adapter's table, in adapter.go's order.             *)
SecurityActionVerdict ==
    [block |-> "blocked", managedchallenge |-> "challenged",
     managedchallengebypassed |-> "challenged", ratelimit |-> "rate_limited",
     allow |-> "allowed", log |-> "monitored", none |-> "allowed"]

RequestStatusVerdict == [blocked |-> "blocked", passed |-> "allowed", alerted |-> "monitored"]

ActionVerdict ==
    [block |-> "blocked", captcha |-> "challenged", ratelimit |-> "rate_limited",
     allow |-> "allowed", monitor |-> "monitored"]

(* A word of no table is unknown: a vendor may always add one.             *)
Said(table, word) == IF word \in DOMAIN table THEN table[word] ELSE "unknown"

(* DataDome's answer to the Worker: a status and the type of the response  *)
(* it asks for, which it may ask for without enforcing it.                 *)
Objecting == {"interstitial", "block", "hard_block"}

DataDomeVerdict(status, type) ==
    CASE status = 200 -> IF type \in Objecting THEN "monitored" ELSE "allowed"
      [] status = 403 -> IF type = "hard_block" THEN "blocked" ELSE "challenged"
      [] OTHER -> "unknown"

(* A blocked request whose violations speak of a rate was rate limited.    *)
BigIPVerdict(row) ==
    IF row.status = "blocked" /\ row.rate THEN "rate_limited"
    ELSE Said(RequestStatusVerdict, row.status)

(* A bot DataDome's own feed names without an action was only seen.        *)
ModuleVerdict(row) ==
    IF row.action # "none" THEN Said(ActionVerdict, row.action)
    ELSE IF row.bot THEN "monitored" ELSE "allowed"

(* What nginx answers by itself may be its refusal, what the application   *)
(* answers is not, whatever the status.                                    *)
NginxVerdict(row) ==
    CASE row.upstream -> "allowed"
      [] ~row.upstream /\ row.status = 403 -> "blocked"
      [] ~row.upstream /\ row.status = 429 -> "rate_limited"
      [] OTHER -> "allowed"

-----------------------------------------------------------------------------
(* Identifiers and addresses.                                              *)

(* A mutant: the parent as it is written.                                  *)
ParentAsWritten(row) == {row.parent}

(* Cloudflare writes "00" for the parent of a request that has none.       *)
ParentRay(row) == IF row.parent = <<"00">> THEN {} ELSE {row.parent}

IsDataDomeCall(row) == row.host = "datadome" /\ ParentRay(row) # {}

(* The header holds the ray and the place that served it.                  *)
RayOfHeader(held) == {h.ray : h \in held}

(* Addresses a client can have on the public network.                      *)
Routable(addresses) == addresses \ {<<"pseudo">>, <<"lan">>}

(* The first of three sources that yields an address.                      *)
FirstOf(a, b, c) == IF a # {} THEN a ELSE IF b # {} THEN b ELSE c

(* The forwarded chain is a set here: Cloudflare puts the address it hands *)
(* on into it, and the appliance's own peer is skipped.                    *)
BigIPAddress(row) ==
    FirstOf(Routable(row.connecting), Routable(row.forwarded) \ row.peer, row.peer)

NginxAddress(row) == FirstOf(Routable(row.connecting), Routable(row.remote), {})

-----------------------------------------------------------------------------
(* The adapters: the event of a row. An identifier, a linked one or an     *)
(* address is a set of at most one.                                        *)

Event(row, vendor, id, linked, address, verdict) ==
    [feed |-> row.feed, vendor |-> vendor, of |-> row.of, hop |-> row.hop, id |-> id,
     linked |-> linked, address |-> address, verdict |-> verdict]

CloudflareEvent(row) ==
    IF IsDataDomeCall(row)
    THEN Event(row, "datadome", ParentRay(row), {}, {}, DataDomeVerdict(row.status, row.type))
    ELSE Event(row, "cloudflare", {row.ray}, ParentRay(row), row.client,
               Said(SecurityActionVerdict, row.action))

BigIPEvent(row) ==
    Event(row, "f5", FirstOf(RayOfHeader(row.header), {row.support}, {}), {},
          BigIPAddress(row), BigIPVerdict(row))

NginxEvent(row) ==
    Event(row, "nginx", RayOfHeader(row.header), {}, NginxAddress(row), NginxVerdict(row))

ModuleEvent(row) ==
    Event(row, "datadome", {row.request}, {}, row.client, ModuleVerdict(row))

Normalize(row) ==
    CASE row.feed = "cloudflare" -> CloudflareEvent(row)
      [] row.feed = "f5" -> BigIPEvent(row)
      [] row.feed = "nginx" -> NginxEvent(row)
      [] row.feed = "datadome" -> ModuleEvent(row)

(* What an event is stored and its duplicates are suppressed by: an        *)
(* identifier is that of a request, not of a vendor's record of one.       *)
EventIDFor(event) == <<event.feed, event.vendor, event.id>>

-----------------------------------------------------------------------------
(* The trip. The hops are not this repository's: what they log is what the *)
(* adapters read and their tests hold.                                     *)

Init ==
    /\ at = [r \in Requests |-> "edge"]
    /\ header = [r \in Requests |-> {}]
    /\ pseudo \in [Requests -> BOOLEAN]
    /\ \A r \in Requests \ Varied : ~pseudo[r]
    /\ ended = [r \in Requests |-> "open"]
    /\ spared = {}
    /\ events = {}

(* The answers a request may meet.                                         *)
May(r, all, plain) == IF r \in Varied THEN all ELSE plain

Log(row) == events' = events \cup {Normalize(row)}

(* A hop refuses the request, or the next one gets it, in spite of the     *)
(* hop's rules where they are not enforced.                                *)
Move(r, refused, next, against) ==
    /\ at' = [at EXCEPT ![r] = IF refused THEN "nowhere" ELSE next]
    /\ ended' = [ended EXCEPT ![r] = IF refused THEN "refused" ELSE "open"]
    /\ spared' = IF against THEN spared \cup {<<r, at[r]>>} ELSE spared

Carry(r, which) == header' = [header EXCEPT ![r] = {[ray |-> <<r, which>>, place |-> "SOF"]}]

(* What a hop does of a word no adapter knows is its own affair.           *)
Enforced(word, stopping) == IF word = "new" THEN BOOLEAN ELSE {word \in stopping}

EdgeRow(r, which, parent, action) ==
    [feed |-> "cloudflare", of |-> r, hop |-> which, host |-> "site", ray |-> <<r, which>>,
     parent |-> parent, client |-> {<<r, "client">>}, action |-> action]

(* The edge stops what it blocks, limits or challenges, a bypassed         *)
(* challenge excepted. What it lets by goes to a Worker, past another      *)
(* integration of DataDome's or straight on.                               *)
Edge(r) ==
    /\ at[r] = "edge"
    /\ \E action \in May(r, DOMAIN SecurityActionVerdict \cup {"new"}, {"none"}),
          next \in May(r, {"worker", "module", "bigip"}, {"worker", "bigip"}) :
       /\ Log(EdgeRow(r, "edge", <<"00">>, action))
       /\ \E refused \in Enforced(action, {"block", "managedchallenge", "ratelimit"}) :
             Move(r, refused, next, action = "log")
    /\ Carry(r, "edge")
    /\ UNCHANGED pseudo

(* The Worker asks DataDome, whose 403 it enforces, and goes on without an *)
(* answer. The call is a row of Cloudflare's too.                          *)
AskDataDome(r) ==
    /\ at[r] = "worker"
    /\ \E status \in May(r, {0, 200, 403}, {200}),
          type \in May(r, Objecting \cup {"authorize", "none"}, {"authorize"}) :
       /\ status = 0 => type = "none"
       /\ status = 403 => type # "authorize"
       /\ Log([feed |-> "cloudflare", of |-> r, hop |-> "worker", host |-> "datadome",
               ray |-> <<r, "call">>, parent |-> <<r, "edge">>, client |-> {<<"worker">>},
               action |-> "none", status |-> status, type |-> type])
       /\ Move(r, status = 403, "fetch", status = 200 /\ type \in Objecting)
    /\ UNCHANGED <<header, pseudo>>

(* The Worker fetches the origin: a second row of the same request, whose  *)
(* ray is the one the hops behind it see.                                  *)
FetchOrigin(r) ==
    /\ at[r] = "fetch"
    /\ Log(EdgeRow(r, "fetch", <<r, "edge">>, "none"))
    /\ Move(r, FALSE, "bigip", FALSE)
    /\ Carry(r, "fetch")
    /\ UNCHANGED pseudo

(* DataDome asked another way: its own feed, with its own identifier.      *)
AskModule(r) ==
    /\ at[r] = "module"
    /\ \E action \in DOMAIN ActionVerdict \cup {"none", "new"}, bot \in BOOLEAN :
       /\ bot => action = "none"
       /\ Log([feed |-> "datadome", of |-> r, hop |-> "module", request |-> <<r, "module">>,
               client |-> {<<r, "client">>}, action |-> action, bot |-> bot])
       /\ \E refused \in Enforced(action, {"block", "captcha", "ratelimit"}) :
             Move(r, refused, "bigip", action = "monitor" \/ bot)
    /\ UNCHANGED <<header, pseudo>>

(* The address Cloudflare hands the origin.                                *)
HandedOn(r) == IF pseudo[r] THEN {<<"pseudo">>} ELSE {<<r, "client">>}

(* The headers are those the appliance did not cut off the request.        *)
BigIP(r) ==
    /\ at[r] = "bigip"
    /\ \E status \in May(r, DOMAIN RequestStatusVerdict \cup {"new"}, {"passed"}),
          rate \in May(r, BOOLEAN, {FALSE}), cut \in May(r, BOOLEAN, {FALSE}) :
       /\ rate => status = "blocked"
       /\ Log([feed |-> "f5", of |-> r, hop |-> "bigip", support |-> <<r, "support">>,
               header |-> IF cut THEN {} ELSE header[r],
               connecting |-> IF cut THEN {} ELSE HandedOn(r),
               forwarded |-> HandedOn(r), peer |-> {<<"colo">>}, status |-> status, rate |-> rate])
       /\ \E refused \in Enforced(status, {"blocked"}) :
             Move(r, refused, "nginx", status = "alerted")
    /\ UNCHANGED <<header, pseudo>>

(* nginx refuses, fails, answers by itself or asks the application, which  *)
(* may answer anything. Its remote address is the client's when it takes   *)
(* it from the proxy, else the balancer's.                                 *)
Nginx(r) ==
    /\ at[r] = "nginx"
    /\ \E upstream \in May(r, BOOLEAN, {TRUE}), status \in May(r, {200, 403, 429, 503}, {200}),
          remote \in May(r, {<<r, "client">>, <<"lan">>}, {<<r, "client">>}) :
       /\ Log([feed |-> "nginx", of |-> r, hop |-> "nginx", header |-> header[r],
               connecting |-> HandedOn(r), remote |-> {remote}, upstream |-> upstream,
               status |-> status])
       /\ at' = [at EXCEPT ![r] = IF upstream THEN "application" ELSE "nowhere"]
       /\ ended' = [ended EXCEPT ![r] =
                       IF ~upstream /\ status \in {403, 429} THEN "refused" ELSE "answered"]
    /\ UNCHANGED <<header, pseudo, spared>>

Next ==
    \E r \in Requests :
        Edge(r) \/ AskDataDome(r) \/ FetchOrigin(r) \/ AskModule(r) \/ BigIP(r) \/ Nginx(r)

Spec == Init /\ [][Next]_vars

-----------------------------------------------------------------------------
Hops == <<"edge", "worker", "module", "fetch", "bigip", "nginx">>

Before(e, f) ==
    /\ e.of = f.of
    /\ \E i, j \in DOMAIN Hops : i < j /\ Hops[i] = e.hop /\ Hops[j] = f.hop

Share(e, f) == (e.id \cup e.linked) \cap (f.id \cup f.linked) # {}

(* An event no ray names: DataDome's own feed and a request cut short.     *)
Nameless(e) == \/ e.feed = "datadome"
               \/ e.feed = "f5" /\ e.id = {<<e.of, "support">>}

(* What one request left at its hops is tied together by the identifiers   *)
(* the correlator joins on, each event to one of an earlier hop, the       *)
(* DataDome call by the ray of the request it was made for and the origin  *)
(* fetch by both its rays; and no two requests are ever tied.              *)
HopsAreLinked ==
    \A e \in events :
        /\ e.hop # "edge" /\ ~Nameless(e) =>
               \E f \in events : Before(f, e) /\ Share(e, f)
        /\ \A f \in events : Share(e, f) => e.of = f.of

Refusals == {"blocked", "challenged", "rate_limited"}

(* A verdict is what became of the request, whatever words its hop used.   *)
(* An event that says blocked or limited is the last one of a refused      *)
(* request, and the last one of a refused request says it was refused, or  *)
(* unknown for a word no adapter has; and what a hop let by against its    *)
(* own rules reads "monitored", never "allowed", so that it still tells    *)
(* the hop apart from one that had no objection.                           *)
VerdictIsWhatHappened ==
    \A e \in events :
        LET last == \A f \in events : ~Before(e, f)
        IN  /\ e.verdict \in {"blocked", "rate_limited"} => last /\ ended[e.of] = "refused"
            /\ ended[e.of] = "refused" /\ last => e.verdict \in Refusals \cup {"unknown"}
            /\ (e.verdict = "monitored") <=> (<<e.of, e.hop>> \in spared)

(* No two rows have one identity: the second would be dropped as a         *)
(* duplicate of the first. The DataDome call and the request it was made   *)
(* for are rows of one feed with one request identifier.                   *)
RowsAreTold ==
    \A e, f \in events : EventIDFor(e) = EventIDFor(f) => e = f

(* Where an event has an address it is its client's, so that addresses     *)
(* join what the rays do not: never the address Cloudflare makes up, nor a *)
(* proxy's. The exception is the BIG-IP, which names its peer when the     *)
(* address it was handed is a made-up one.                                 *)
AddressIsTheClients ==
    \A e \in events :
        e.address \subseteq IF e.feed = "f5" /\ pseudo[e.of] THEN {<<"colo">>}
                           ELSE {<<e.of, "client">>}
=============================================================================
