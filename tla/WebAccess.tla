------------------------------ MODULE WebAccess ------------------------------
(***************************************************************************)
(* Outbound web access: WebFetch calls that share a per-run use counter    *)
(* (tools/src/web/fetch.rs, core/src/state.rs), the host and address       *)
(* policy (tools/src/net/policy.rs), and the egress proxy of the microVMs  *)
(* (tools/src/net/proxy.rs).                                               *)
(*                                                                         *)
(* A URL is its scheme and its host.  The allow and deny lists are the     *)
(* sets of hosts they match.  A literal host is its own address; a name    *)
(* resolves to any set of addresses, and differently each time.            *)
(***************************************************************************)
EXTENDS Naturals, FiniteSets

CONSTANTS AnyHost,        \* no allow list
          NoUrl,          \* not a URL
          Policies,       \* [allow, deny, allow_private_ips]
          DomainNames,    \* hosts that are domain names
          Literals,       \* hosts that are addresses
          PublicIps, PrivateIps,
          Fetches,        \* concurrent WebFetch calls of one run
          Tunnels,        \* connections to the proxy
          MaxUses, MaxRedirects,
          MaxBodyBytes, BodyLength

Hosts == DomainNames \union Literals

Ips == PublicIps \union PrivateIps

Urls == [scheme : {"http", "other"}, host : Hosts]

ASSUME WebAssumption ==
    /\ DomainNames \intersect Literals = {} /\ NoUrl \notin Urls /\ IsFiniteSet(Fetches)
    /\ MaxUses \in Nat /\ MaxRedirects \in Nat /\ MaxBodyBytes \in Nat /\ BodyLength \in Nat

VARIABLES
    net,       \* the policy
    uses,      \* the use counter in the run's SessionState
    fetch,     \* call -> [at, url, hops, body, truncated]
    tunnel,    \* connection -> [at, host]
    reached    \* hosts connected to, with the address used

webVars == <<net, uses, fetch, tunnel, reached>>

WebStart(policy, at) ==
    /\ net = policy /\ uses = 0 /\ reached = {}
    /\ fetch = [f \in Fetches |-> [at |-> at, url |-> NoUrl, hops |-> 0, body |-> 0,
                                   truncated |-> FALSE]]
    /\ tunnel = [t \in Tunnels |-> at]

WebIdle == WebStart(AnyHost, "idle")

WebInit == \E policy \in Policies : WebStart(policy, "new")

(* ------------------------------- the policy ---------------------------- *)
IsHostAllowed(host) ==
    /\ host \notin net.deny
    /\ net.allow # AnyHost => host \in net.allow

IpBlocked(ip) == ip \in PrivateIps

IsIpAllowed(ip) == net.allow_private_ips \/ ~ IpBlocked(ip)

(* Refused, failed or passed.  A name is refused for any blocked address   *)
(* among those it resolves to.                                             *)
SsrfCheck(host, resolved) ==
    CASE net.allow_private_ips -> "ok"
      [] ~ net.allow_private_ips /\ host \in Literals ->
           IF IpBlocked(host) THEN "denied" ELSE "ok"
      [] ~ net.allow_private_ips /\ host \in DomainNames ->
           IF \E ip \in resolved : IpBlocked(ip) THEN "denied"
           ELSE IF resolved = {} THEN "error" ELSE "ok"

Vetted(url, resolved) ==
    IF url.scheme = "other" \/ ~ IsHostAllowed(url.host) THEN "denied"
    ELSE SsrfCheck(url.host, resolved)

(* What the client may connect to: the resolver it is built with drops     *)
(* blocked addresses, and a literal needs no resolver.                     *)
GuardedResolver(host, resolved) ==
    IF host \in Literals THEN {host} ELSE {ip \in resolved : IsIpAllowed(ip)}

(* ------------------------------- WebFetch ------------------------------ *)
FetchGoes(f, at) == fetch' = [fetch EXCEPT ![f].at = at]

(* The use is taken before anything else, in one atomic step.              *)
IncrementIfBelow(f) ==
    /\ fetch[f].at = "new"
    /\ IF uses < MaxUses
       THEN /\ uses' = uses + 1
            /\ \E url \in Urls \union {NoUrl} :
                 fetch' = [fetch EXCEPT ![f].url = url,
                                        ![f].at = IF url = NoUrl THEN "denied" ELSE "vet"]
       ELSE FetchGoes(f, "over") /\ UNCHANGED uses
    /\ UNCHANGED <<net, tunnel, reached>>

Vet(f) ==
    /\ fetch[f].at = "vet"
    /\ \E resolved \in SUBSET Ips :
         LET v == Vetted(fetch[f].url, resolved)
         IN  FetchGoes(f, IF v = "ok" THEN "send" ELSE v)
    /\ UNCHANGED <<net, uses, tunnel, reached>>

(* The client resolves the host again and connects to one of the           *)
(* addresses.                                                              *)
Send(f) ==
    /\ fetch[f].at = "send"
    /\ \E resolved \in SUBSET Ips :
         LET targets == GuardedResolver(fetch[f].url.host, resolved)
         IN  \/ targets = {} /\ FetchGoes(f, "error") /\ UNCHANGED reached
             \/ \E ip \in targets :
                  /\ reached' = reached \union {[host |-> fetch[f].url.host, ip |-> ip]}
                  /\ \E at \in {"error", "head"} : FetchGoes(f, at)
    /\ UNCHANGED <<net, uses, tunnel>>

\* Mistake: only the first URL is vetted.
Redirected_Unvetted(f, url) ==
    fetch' = [fetch EXCEPT ![f].url = url, ![f].hops = @ + 1,
                           ![f].at = IF fetch[f].hops = MaxRedirects THEN "denied" ELSE "send"]

(* A redirect is one more round of the loop, which vets its target, if a   *)
(* round is left.                                                          *)
Redirected(f, url) ==
    fetch' = [fetch EXCEPT ![f].url = url, ![f].hops = @ + 1,
                           ![f].at = IF fetch[f].hops = MaxRedirects THEN "denied" ELSE "vet"]

Respond(f) ==
    /\ fetch[f].at = "head"
    /\ \/ \E url \in Urls : Redirected(f, url)
       \/ FetchGoes(f, "error")    \* no Location
       \/ FetchGoes(f, "denied")   \* a Location that does not parse
       \/ FetchGoes(f, "body")
    /\ UNCHANGED <<net, uses, tunnel, reached>>

(* finish: the chunk that goes past the cap is cut and ends the body.      *)
BodyChunk(f) ==
    /\ fetch[f].at = "body"
    /\ \E n \in 1 .. BodyLength - fetch[f].body :
         fetch' = IF fetch[f].body + n > MaxBodyBytes
                  THEN [fetch EXCEPT ![f].body = MaxBodyBytes, ![f].truncated = TRUE,
                                     ![f].at = "read"]
                  ELSE [fetch EXCEPT ![f].body = @ + n]
    /\ UNCHANGED <<net, uses, tunnel, reached>>

ReplyEnds(f) ==
    /\ fetch[f].at = "body"
    /\ \/ FetchGoes(f, "error")
       \/ fetch[f].body = BodyLength /\ FetchGoes(f, "read")
    /\ UNCHANGED <<net, uses, tunnel, reached>>

(* Only text is returned.                                                  *)
FetchFinishes(f) ==
    /\ fetch[f].at = "read" /\ \E at \in {"done", "denied"} : FetchGoes(f, at)
    /\ UNCHANGED <<net, uses, tunnel, reached>>

(* -------------------------------- proxy -------------------------------- *)
TunnelGoes(t, at) == tunnel' = [tunnel EXCEPT ![t] = at]

(* A request head that is too long, slow or malformed; plain HTTP, which   *)
(* is never forwarded.                                                     *)
Handle(t) ==
    /\ tunnel[t] = "new"
    /\ \/ TunnelGoes(t, "bad")
       \/ \E host \in Hosts :
            TunnelGoes(t, IF IsHostAllowed(host) THEN "unimplemented" ELSE "denied")
    /\ UNCHANGED <<net, uses, fetch, reached>>

(* CONNECT: the host is checked, every resolved address is checked, and    *)
(* the first allowed one that accepts is used.                             *)
HandleConnect(t) ==
    /\ tunnel[t] = "new"
    /\ \E host \in Hosts : \E resolved \in IF host \in Literals THEN {{host}} ELSE SUBSET Ips :
         LET targets == {ip \in resolved : IsIpAllowed(ip)}
         IN  \/ /\ ~ IsHostAllowed(host) \/ targets = {}
                /\ TunnelGoes(t, "denied") /\ UNCHANGED reached
             \/ /\ IsHostAllowed(host) /\ targets # {}
                /\ TunnelGoes(t, "unreachable") /\ UNCHANGED reached
             \/ /\ IsHostAllowed(host)
                /\ \E ip \in targets : reached' = reached \union {[host |-> host, ip |-> ip]}
                /\ TunnelGoes(t, "open")
    /\ UNCHANGED <<net, uses, fetch>>

TunnelEnds(t) ==
    /\ tunnel[t] = "open" /\ TunnelGoes(t, "closed")
    /\ UNCHANGED <<net, uses, fetch, reached>>

WebNext ==
    \/ \E f \in Fetches : \/ IncrementIfBelow(f) \/ Vet(f) \/ Send(f) \/ Respond(f)
                          \/ BodyChunk(f) \/ ReplyEnds(f) \/ FetchFinishes(f)
    \/ \E t \in Tunnels : Handle(t) \/ HandleConnect(t) \/ TunnelEnds(t)

WebSpec == WebInit /\ [][WebNext]_webVars

(* ------------------------------ properties ----------------------------- *)
(* Nothing the policy refuses is ever connected to, by whatever redirects  *)
(* and with whatever answers of the name server between the check and the  *)
(* connection; the uses of concurrent calls add up to the limit exactly;   *)
(* and a body is whole or says that it was cut.                            *)
PolicyHolds ==
    /\ \A c \in reached : IsHostAllowed(c.host) /\ IsIpAllowed(c.ip)
    /\ uses = Cardinality({f \in Fetches : fetch[f].at \notin {"idle", "new", "over"}})
    /\ uses <= MaxUses
    /\ \A f \in Fetches :
         /\ fetch[f].at = "over" => uses = MaxUses
         /\ fetch[f].hops <= MaxRedirects + 1
         /\ fetch[f].at = "done" =>
              IF fetch[f].truncated THEN fetch[f].body = MaxBodyBytes
              ELSE fetch[f].body = BodyLength
=============================================================================
