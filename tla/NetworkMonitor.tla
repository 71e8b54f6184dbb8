--------------------------- MODULE NetworkMonitor ---------------------------
(***************************************************************************)
(* The agent's network monitor (agent/internal/monitor/network.go).  Every *)
(* scan interval it looks at the open connections, skips the ones it       *)
(* looked at within the last 30 s, names the others from its DNS cache or  *)
(* by a reverse lookup, and reports those to a watched domain or to a      *)
(* model runtime's port on a private address.  Another goroutine fills the *)
(* DNS cache meanwhile, so a connection may be looked at before its        *)
(* address has a name.  A scan is one step; ages are counted in scans.     *)
(***************************************************************************)
EXTENDS Naturals

CONSTANTS
    Conns,        \* remote endpoints, address and port
    IpOf(_),      \* the address of an endpoint
    LocalAI(_),   \* it is private, and its port is a model runtime's
    Domains,      \* domains that connections are made to
    AIDomains,    \* bound: the lists of watched domains that the policy gives
    NoName,       \* an address, or a policy, that gives no name
    ReverseName(_),   \* what LookupAddr answers for an address, or NoName
    Dedup,        \* 30 s, in scans
    Forget        \* 5 minutes, in scans

ASSUME NetworkAssumption ==
    /\ Dedup \in Nat \ {0} /\ Forget \in Nat /\ Dedup <= Forget
    /\ NoName \notin Domains

VARIABLES
    connected,    \* connected[c]: the domain it was opened for, or NoName
    resolutions,  \* <<address, domain>>: what the system has resolved
    dnsCache,     \* nm.dnsCache: address -> domain, or NoName
    watchlist,    \* cfg.AIDomains
    seenConns,    \* nm.seenConns: scans since c was looked at, or Never
    overdue,      \* consecutive scans that left out c, though it was known by name
    sinceReport,  \* scans since c was last reported, at most Dedup
    closest       \* the fewest scans between two reports of c, at most Dedup

networkVars == <<connected, resolutions, dnsCache, watchlist, seenConns, overdue, sinceReport, closest>>

Ips == {IpOf(c) : c \in Conns}

-----------------------------------------------------------------------------
(* The contestant resolves a domain and connects, or disconnects.          *)
OpenConnection(c, d) ==
    /\ connected[c] = NoName
    /\ connected' = [connected EXCEPT ![c] = d]
    /\ resolutions' = resolutions \union {<<IpOf(c), d>>}
    /\ UNCHANGED <<dnsCache, watchlist, seenConns, overdue, sinceReport, closest>>

CloseConnection(c) ==
    /\ connected[c] # NoName
    /\ connected' = [connected EXCEPT ![c] = NoName]
    /\ overdue' = [overdue EXCEPT ![c] = 0]
    /\ UNCHANGED <<resolutions, dnsCache, watchlist, seenConns, sinceReport, closest>>

(* updateDNSCache reads a log of recent resolutions: each pair it finds    *)
(* overwrites what the address was called before.                          *)
UpdateDNSCache ==
    /\ \E pair \in resolutions : dnsCache' = [dnsCache EXCEPT ![pair[1]] = pair[2]]
    /\ UNCHANGED <<connected, resolutions, watchlist, seenConns, overdue, sinceReport, closest>>

(* The policy replaces the list of watched domains.                        *)
ReplaceWatchlist ==
    /\ watchlist' \in AIDomains \ {watchlist}
    /\ overdue' = [c \in Conns |-> 0]
    /\ UNCHANGED <<connected, resolutions, dnsCache, seenConns, sinceReport, closest>>

-----------------------------------------------------------------------------
reverseLookup(ip) == IF dnsCache[ip] # NoName THEN dnsCache[ip] ELSE ReverseName(ip)

(* The verdict AI_SERVICE.                                                 *)
classifyConnection(c) == reverseLookup(IpOf(c)) \in watchlist \/ LocalAI(c)

(* c has no entry in seenConns: not looked at, or cleaned up since.        *)
Never == Forget + 1

Recent(c) == seenConns[c] # Never /\ seenConns[c] + 1 < Dedup

Skipped(c) == connected[c] = NoName \/ Recent(c)

Reported == {c \in Conns : ~Skipped(c) /\ classifyConnection(c)}

MarkedOnSight(c) ==                       \* seeded fault: sightings that are skipped count
    connected[c] # NoName

Marked(c) == ~Skipped(c)

ForgottenEarly(age) == age > 0            \* seeded fault: dropped at the next scan

Forgotten(age) == age > Forget

Aged(c) == IF seenConns[c] = Never \/ Forgotten(seenConns[c] + 1)
           THEN Never ELSE seenConns[c] + 1

Gap(c) == IF sinceReport[c] < Dedup THEN sinceReport[c] + 1 ELSE Dedup

Scan ==
    /\ seenConns' = [c \in Conns |-> IF Marked(c) THEN 0 ELSE Aged(c)]
    /\ overdue' = [c \in Conns |->
                     IF c \in Reported \/ connected[c] = NoName \/ ~classifyConnection(c)
                     THEN 0 ELSE overdue[c] + 1]
    /\ sinceReport' = [c \in Conns |-> IF c \in Reported THEN 0 ELSE Gap(c)]
    /\ closest' = [c \in Conns |-> IF c \in Reported /\ Gap(c) < closest[c]
                                    THEN Gap(c) ELSE closest[c]]
    /\ UNCHANGED <<connected, resolutions, dnsCache, watchlist>>

NetworkInit ==
    /\ connected = [c \in Conns |-> NoName]
    /\ resolutions = {}
    /\ dnsCache = [ip \in Ips |-> NoName]
    /\ watchlist \in AIDomains
    /\ seenConns = [c \in Conns |-> Never]
    /\ overdue = [c \in Conns |-> 0]
    /\ sinceReport = [c \in Conns |-> Dedup]
    /\ closest = sinceReport

NetworkNext ==
    \/ \E c \in Conns : (\E d \in Domains : OpenConnection(c, d)) \/ CloseConnection(c)
    \/ UpdateDNSCache \/ ReplaceWatchlist
    \/ Scan

NetworkSpec == NetworkInit /\ [][NetworkNext]_networkVars

-----------------------------------------------------------------------------
(***************************************************************************)
(* A connection to a watched domain that stays open is reported within 30  *)
(* s of the moment its address has a name: it may have been looked at just *)
(* before, and is skipped until that is 30 s ago, but no longer, however   *)
(* often it is seen meanwhile (network.go:107-119).                        *)
(***************************************************************************)
ReportedInTime == \A c \in Conns : overdue[c] < Dedup

(***************************************************************************)
(* "Dedup: skip if we've seen this connection recently (within 30s)"       *)
(* (network.go:107): no endpoint is reported twice within 30 s, through    *)
(* reconnections, new names, new policies and the clean-up of what was     *)
(* seen.                                                                   *)
(***************************************************************************)
ReportsAreSpaced == \A c \in Conns : closest[c] >= Dedup
=============================================================================
