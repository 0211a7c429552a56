-------------------------- MODULE CloudAllocation --------------------------
(***************************************************************************)
(* How the Switch client gets a streaming slot (cloudkamaji.cpp,           *)
(* cloudgaikai.cpp): for a PS3 or PS4 title it signs in to PlayStation Now *)
(* and turns the product into an entitlement; then, for every title, it    *)
(* starts, authorises and locks a session, picks a datacenter and waits in *)
(* the queue. One action is one request with its answer; the servers are   *)
(* external and answer as they like. Every answer may carry a new session  *)
(* key, with which the next request must be sent.                          *)
(***************************************************************************)
EXTENDS Integers, FiniteSets

CONSTANTS
  MaxLockSessionRetries,      \* kMaxLockSessionRetries (12)
  DefaultAllocationWait,      \* kDefaultAllocationWaitSeconds (300)
  MaxAllocationWait,          \* kMaxAllocationWaitSeconds (900)
  Estimates,                  \* waitTimeEstimate the server may give, 0 for none
  Polls,                      \* pollFrequency the server may ask for
  IntHalf                     \* an int holds -IntHalf..IntHalf-1

VARIABLE
  ca   \* the step that comes next and what the earlier ones left

allocationVars == ca

InitAllocation ==
  ca = [at |-> "off", service |-> "none", platform |-> "none", entitlement |-> 0, checked |-> 0, scopes |-> "ps4",
        locale |-> "US", key |-> 0, server_key |-> 0, codes |-> {}, spec |-> {}, sent |-> {}, tries |-> 0, locked |-> FALSE,
        port |-> 0, waiting |-> FALSE, elapsed |-> 0, max_wait |-> DefaultAllocationWait, details |-> {}]

\* StartPsnowGame and StartPscloudGame; the library gives a PS5 title its entitlement.
StartPsnow ==
  /\ ca.at = "off"
  /\ ca' = [ca EXCEPT !.at = "anon_code", !.service = "psnow"]
StartPscloud ==
  /\ ca.at = "off"
  /\ ca' = [ca EXCEPT !.at = "client_ids", !.service = "pscloud", !.platform = "ps5", !.entitlement = 1, !.checked = 1]

\* Run goes on to the step named next, in one of the states that an answer leads to, or gives up:
\* a request that fails, a status or an answer that the step does not accept.
Pass(r, next) == [r EXCEPT !.at = next]
Fail(r) == [r EXCEPT !.at = "failed"]
Step(s, answers) == ca.at = s /\ ca' \in answers \union {Fail(ca)}

-----------------------------------------------------------------------------
(* CloudKamaji *)

Step0_5b_GetAnonAuthCode == Step("anon_code", {Pass(ca, "anon_session")})

\* The store's country is kept only together with its language.
Step0_5c_CreateAnonSession ==
  Step("anon_session", {Pass([ca EXCEPT !.locale = IF country /\ language THEN "account" ELSE @], "convert") :
                          country \in BOOLEAN, language \in BOOLEAN})

\* The default sku's streaming entitlement comes before those of the other skus; 0 is none.
scan_entitlements(skus) == IF skus.default # 0 THEN skus.default ELSE skus.other
Platform(playable) == IF "PS4" \in playable THEN "ps4" ELSE IF "PS3" \in playable THEN "ps3" ELSE "ps4"
Converted(r, e) == IF e = 0 THEN Fail(r) ELSE Pass([r EXCEPT !.entitlement = e], "token")
Step0_5d_ConvertProductId ==
  \E skus \in [default : 0..1, other : {0, 2}], playable \in SUBSET {"PS3", "PS4"} :
    Step("convert", {Converted([ca EXCEPT !.platform = Platform(playable), !.scopes = Platform(playable)], scan_entitlements(skus))})

Step0_5e1_GetCommerceOAuthToken == Step("token", {Pass(ca, "check")})

\* 200 owned, 404 not owned: a title that is not owned ends the run.
Step0_5e2_CheckEntitlementExists == Step("check", {Pass([ca EXCEPT !.checked = ca.entitlement], "code")})

Step5_GetAuthCode == Step("code", {Pass(ca, "session")})
Step6_CreateAuthSession == Step("session", {Pass(ca, "client_ids")})

-----------------------------------------------------------------------------
(* CloudGaikai *)

\* An answer of the allocation server, with or without a new X-Gaikai-Session, which the
\* client takes over.
Answered__not_kept(r) == {r, [r EXCEPT !.server_key = (@ + 1) % 3]}
Answered(r) == {r, [r EXCEPT !.server_key = (@ + 1) % 3, !.key = (r.server_key + 1) % 3]}

\* Run begins with BuildRequestGameSpec: of the specification only the codes matter here,
\* which are those known so far.
BuildRequestGameSpec(r) == [r EXCEPT !.spec = r.codes]
Step0_GetClientIds == Step("client_ids", {Pass(BuildRequestGameSpec(ca), "config")})
Step7_GetConfig == Step("config", {Pass([ca EXCEPT !.key = k, !.server_key = k], "start") : k \in 0..1})
Step8_StartSession == Step("start", {Pass(r, "gk_code") : r \in Answered(ca)})
\* An authorisation without redirection or without a code in it fails the step.
PerformOAuthAuthorize(r, codes) == [r EXCEPT !.codes = @ \union codes]
Step8a_GetGkAuthCode == Step("gk_code", {Pass(PerformOAuthAuthorize(ca, {"gk"}), "server_code")})
\* One code serves as the server's and, for PlayStation Now, as the PS3's; all go into the
\* specification.
Step8b_GetServerAuthCode ==
  LET codes == IF ca.service = "pscloud" THEN {"server"} ELSE {"server", "ps3"}
  IN Step("server_code", {Pass(BuildRequestGameSpec(PerformOAuthAuthorize(ca, codes)), "authorize")})

Step9_AuthorizeSession == Step("authorize", {Pass([r EXCEPT !.sent = ca.spec], "lock") : r \in Answered(ca)})

\* The console may still be in an older session, which the request logs out.
Locked(r) == Pass([r EXCEPT !.locked = TRUE], "datacenters")
NotLocked(r) == IF r.tries < MaxLockSessionRetries THEN [r EXCEPT !.tries = @ + 1] ELSE Fail(r)
Step10_LockSession == Step("lock", UNION {{Locked(r), NotLocked(r)} : r \in Answered(ca)})

\* The first datacenter of the list, with a port.
Step11_PickDatacenter == Step("datacenters", {Pass([r EXCEPT !.port = 1], "select") : r \in Answered(ca)})

\* The answer may name another port, by itself or under "network".
Selected(r, direct, network) ==
  LET p == IF direct > 0 THEN direct ELSE network IN Pass([r EXCEPT !.port = IF p > 0 THEN p ELSE @], "allocate")
Step12_SelectDatacenter ==
  Step("select", {Selected(r, direct, network) : r \in Answered(ca), direct \in {0, 2}, network \in {0, 3}})

\* Twice the estimate as an int, which may overflow.
Lesser(a, b) == IF a < b THEN a ELSE b
ToInt(n) == ((n + IntHalf) % (2 * IntHalf)) - IntHalf
MaxWait(estimate) ==
  IF estimate > 0 THEN Lesser(ToInt(2 * estimate), MaxAllocationWait) ELSE DefaultAllocationWait

\* Queued: the first such answer sets the limit and begins the wait; a round takes a moment even
\* when the server asks for none.
StartWaiting(r, estimate) ==
  IF r.waiting THEN r ELSE [r EXCEPT !.waiting = TRUE, !.elapsed = 0, !.max_wait = MaxWait(estimate)]
Sleep(r, poll) ==
  LET t == Lesser(poll, r.max_wait - r.elapsed) IN [r EXCEPT !.elapsed = @ + (IF t > 0 THEN t ELSE 1)]
Queued(r, estimate, poll) ==
  LET w == StartWaiting(r, estimate)
  IN IF w.elapsed >= w.max_wait THEN Fail(w) ELSE Sleep(w, poll)

\* A slot: the session id is taken as it is, the other details must be there.
Details == {"address", "port", "handshake key", "launch spec", "session id"}
Required == Details \ {"session id"}
Slot(r, details) == [r EXCEPT !.details = details, !.at = IF Required \subseteq details THEN "ok" ELSE "failed"]
Step13_AllocateSlot ==
  \E r \in Answered(ca) :
    \/ \E estimate \in Estimates, poll \in Polls : Step("allocate", {Queued(r, estimate, poll)})
    \/ \E missing \in {{}} \union {{d} : d \in Details} : Step("allocate", {Slot(r, Details \ missing)})

Kamaji ==
  \/ Step0_5b_GetAnonAuthCode \/ Step0_5c_CreateAnonSession \/ Step0_5d_ConvertProductId
  \/ Step0_5e1_GetCommerceOAuthToken \/ Step0_5e2_CheckEntitlementExists \/ Step5_GetAuthCode \/ Step6_CreateAuthSession
Gaikai ==
  \/ Step0_GetClientIds \/ Step7_GetConfig \/ Step8_StartSession \/ Step8a_GetGkAuthCode \/ Step8b_GetServerAuthCode
  \/ Step9_AuthorizeSession \/ Step10_LockSession \/ Step11_PickDatacenter \/ Step12_SelectDatacenter
  \/ Step13_AllocateSlot
NextAllocation == StartPsnow \/ StartPscloud \/ Kamaji \/ Gaikai

\* Requests have a time limit, so each one returns.
FairAllocation == WF_allocationVars(Kamaji \/ Gaikai)

\* Every request is sent with the key of the last answer. A slot is reported only for the
\* entitlement that was checked, in a session that was authorised with all its codes and
\* locked, with the details to connect. Nobody sleeps in the queue longer than announced,
\* nor than the longest wait.
AllocationIsSound ==
  /\ ca.at \notin {"off", "failed"} => ca.key = ca.server_key
  /\ ca.at = "ok" =>
       /\ ca.locked /\ Required \subseteq ca.details /\ ca.port > 0
       /\ ca.entitlement # 0 /\ ca.checked = ca.entitlement /\ ca.platform # "none"
       /\ {"gk", "server"} \subseteq ca.sent /\ (ca.service = "psnow" => "ps3" \in ca.sent /\ ca.scopes = ca.platform)
  /\ ca.waiting /\ ca.at = "allocate" => ca.elapsed <= Lesser(ca.max_wait, MaxAllocationWait)

\* The allocation ends, with a slot or an error, however long the queue is said to be.
AllocationEnds == (ca.at # "off") ~> (ca.at \in {"ok", "failed"})
=============================================================================
