----------------------------- MODULE Discovery -----------------------------
(***************************************************************************)
(* Discovery of consoles in the local network (discovery.c,                *)
(* discoveryservice.c): the service's thread pings and drops the hosts     *)
(* that did not answer the last pings, the discovery thread takes the      *)
(* answers, and both report every change of the list to the callback.      *)
(* An owner may also run a discovery thread alone that ends after the      *)
(* first answer (chiaki_discovery_thread_start_oneshot).                   *)
(***************************************************************************)
EXTENDS Integers, Sequences, FiniteSets

CONSTANTS
  Consoles,         \* ids the consoles answer with
  HostsMax,         \* options.hosts_max
  HostDropPings     \* options.host_drop_pings

VARIABLE
  dv   \* service thread, discovery thread, owner, hosts and what the callback was told

discoveryVars == dv

\* An entry's age is the number of pings since its last answer: ping_index - last_ping_index.
InitDiscovery ==
  dv = [owner |-> "off", svc |-> "none", disc |-> "none", oneshot |-> FALSE, stop |-> FALSE, pipe |-> FALSE,
        hosts |-> <<>>, told |-> <<>>, answers |-> 0]

Become(r) == dv' = r

\* chiaki_discovery_service_init: without socket, memory or thread there is no service.
chiaki_discovery_service_init ==
  /\ dv.owner = "off"
  /\ \/ Become([dv EXCEPT !.owner = "run", !.svc = "begin"])
     \/ Become([dv EXCEPT !.owner = "gone"])

-----------------------------------------------------------------------------
(* The list of hosts, under the state_mutex *)

\* discovery_service_report_state
Report(r) == [r EXCEPT !.told = [k \in DOMAIN r.hosts |-> [id |-> r.hosts[k].id, state |-> r.hosts[k].state]]]

IsRecent(h) == h.age <= HostDropPings

\* discovery_service_drop_old_hosts goes through the list and stays at a place it emptied,
\* except at the first: what moves there is not looked at until the next ping.  These places
\* are kept ...
Kept__skips(hosts) == {k \in DOMAIN hosts : IsRecent(hosts[k]) \/ (k > 1 /\ ~IsRecent(hosts[k - 1]))}
Kept(hosts) == {k \in DOMAIN hosts : IsRecent(hosts[k]) \/ (k = 2 /\ ~IsRecent(hosts[1]))}

\* ... and move together: from[k] is the place from which a host comes to the place k.
MovesTo(ks, n, from) ==
  /\ \A j, k \in 1 .. n : j < k => from[j] < from[k]
  /\ \A k \in ks : \E j \in 1 .. n : from[j] = k
discovery_service_drop_old_hosts(r) ==
  \/ Kept(r.hosts) = DOMAIN r.hosts /\ Become(r)
  \/ /\ Kept(r.hosts) # DOMAIN r.hosts
     /\ \E n \in 0 .. Len(r.hosts) : \E from \in [1 .. n -> Kept(r.hosts)] :
          /\ MovesTo(Kept(r.hosts), n, from)
          /\ Become(Report([r EXCEPT !.hosts = [k \in 1 .. n |-> r.hosts[from[k]]]]))

Places(r, id) == {k \in DOMAIN r.hosts : r.hosts[k].id = id}

\* discovery_service_host_received; a host without id and one too many are ignored.
Updated(r, id, state) ==
  LET k == CHOOSE j \in Places(r, id) : TRUE
      q == [r EXCEPT !.hosts[k] = [id |-> id, state |-> state, age |-> 0]]
  IN IF r.hosts[k].state = state THEN q ELSE Report(q)
discovery_service_host_received(r, id, state) ==
  IF id = "none" THEN r
  ELSE IF Places(r, id) # {} THEN Updated(r, id, state)
  ELSE IF Len(r.hosts) = HostsMax THEN r
  ELSE Report([r EXCEPT !.hosts = Append(@, [id |-> id, state |-> state, age |-> 0])])

-----------------------------------------------------------------------------
(* discovery_service_thread_func: it has the mutex of stop_cond but while it sleeps *)

\* chiaki_discovery_thread_start fails without a pipe or a thread.
chiaki_discovery_thread_start(r) == {r, [r EXCEPT !.disc = "select"]}
ServiceBegins ==
  /\ dv.svc = "begin"
  /\ \E r \in chiaki_discovery_thread_start(dv) :
       Become([r EXCEPT !.svc = IF r.disc = "select" THEN "check" ELSE "over"])

\* chiaki_bool_pred_cond_timedwait
ServiceWaits ==
  /\ dv.svc = "check"
  /\ Become([dv EXCEPT !.svc = IF dv.stop THEN "stop" ELSE "sleep"])

\* discovery_service_ping, when the time is up, even if the stop came then.  A ping that is
\* not sent (no address, no network) counts like one that is not answered.
Aged(hosts) == [k \in DOMAIN hosts |-> [hosts[k] EXCEPT !.age = @ + 1]]
discovery_service_ping ==
  /\ dv.svc = "sleep"
  /\ discovery_service_drop_old_hosts([dv EXCEPT !.svc = "check", !.hosts = Aged(@)])

\* chiaki_discovery_thread_stop, by the service or by the owner of a oneshot thread.
StopThread__silent(r) == r
StopThread(r) == [r EXCEPT !.pipe = TRUE]
ServiceStops ==
  \/ dv.svc = "stop" /\ Become([StopThread(dv) EXCEPT !.svc = "join"])
  \/ dv.svc = "join" /\ dv.disc = "over" /\ Become([dv EXCEPT !.svc = "over"])

ServiceThread == ServiceBegins \/ ServiceWaits \/ discovery_service_ping \/ ServiceStops

-----------------------------------------------------------------------------
(* discovery_thread_func, discovery_thread_func_oneshot *)

\* The state is that of the answer's code, any other code is unknown; an answer that is not
\* one changes nothing, and one may lack the id.
chiaki_discovery_srch_response_parse(code) == CASE code = 200 -> "ready" [] code = 620 -> "standby" [] OTHER -> "unknown"

DiscoveryReceives(id, code) ==
  /\ dv.disc = "select" /\ ~dv.pipe /\ ~dv.oneshot
  /\ Become(discovery_service_host_received(dv, id, chiaki_discovery_srch_response_parse(code)))

OneshotReceives ==
  /\ dv.disc = "select" /\ ~dv.pipe /\ dv.oneshot
  /\ Become([dv EXCEPT !.disc = "over", !.answers = @ + 1])

DiscoveryFails ==
  /\ dv.disc = "select" /\ ~dv.pipe
  /\ Become([dv EXCEPT !.disc = "over"])

DiscoveryCanceled ==
  /\ dv.disc = "select" /\ dv.pipe
  /\ Become([dv EXCEPT !.disc = "over"])

-----------------------------------------------------------------------------
(* The owner *)

\* chiaki_bool_pred_cond_signal needs the mutex for the predicate.
SetStop ==
  /\ dv.owner = "run" /\ dv.svc \in {"begin", "sleep", "over"}
  /\ Become([dv EXCEPT !.owner = "signal", !.stop = TRUE])

SignalStop ==
  /\ dv.owner = "signal"
  /\ Become([dv EXCEPT !.owner = "join", !.svc = IF @ = "sleep" THEN "check" ELSE @])

\* Then the socket is closed and the hosts are freed.
chiaki_discovery_service_fini ==
  /\ dv.owner = "join" /\ dv.svc = "over"
  /\ Become([dv EXCEPT !.owner = "gone", !.hosts = <<>>, !.told = <<>>])

chiaki_discovery_thread_start_oneshot ==
  /\ dv.owner = "off"
  /\ \/ Become([dv EXCEPT !.owner = "oneshot", !.disc = "select", !.oneshot = TRUE])
     \/ Become([dv EXCEPT !.owner = "gone"])

chiaki_discovery_thread_stop ==
  \/ dv.owner = "oneshot" /\ Become([StopThread(dv) EXCEPT !.owner = "joinone"])
  \/ dv.owner = "joinone" /\ dv.disc = "over" /\ Become([dv EXCEPT !.owner = "gone"])

Owner == SignalStop \/ chiaki_discovery_service_fini \/ (dv.owner = "joinone" /\ chiaki_discovery_thread_stop)

NextDiscovery ==
  \/ chiaki_discovery_service_init \/ chiaki_discovery_thread_start_oneshot \/ chiaki_discovery_thread_stop
  \/ SetStop \/ SignalStop \/ chiaki_discovery_service_fini
  \/ ServiceThread \/ DiscoveryFails \/ DiscoveryCanceled
  \/ \E id \in Consoles \cup {"none"}, code \in {200, 620, 404} : DiscoveryReceives(id, code)
  \/ OneshotReceives

FairDiscovery == WF_discoveryVars(ServiceThread) /\ WF_discoveryVars(DiscoveryCanceled) /\ WF_discoveryVars(Owner)

-----------------------------------------------------------------------------
\* The callback has been told the very list that is kept; no host is in it twice; a host is
\* dropped when it did not answer HostDropPings pings, one ping later if it then moved to
\* the first place, and no other host outlives that; and memory is freed after both
\* threads ended, a oneshot thread having reported once.
HostsAreFresh ==
  /\ dv.told = Report(dv).told
  /\ Len(dv.hosts) <= HostsMax
  /\ \A j, k \in DOMAIN dv.hosts : dv.hosts[j].id = dv.hosts[k].id => j = k
  /\ \A k \in DOMAIN dv.hosts : dv.hosts[k].age <= HostDropPings + (IF k = 1 THEN 1 ELSE 0)
  /\ dv.owner = "gone" => dv.svc \in {"none", "over"} /\ dv.disc \in {"none", "over"}
  /\ dv.answers <= 1

\* chiaki_discovery_service_fini returns; and hosts disappear when nobody answers, also if
\* it is the discovery thread that died.
DiscoveryEnds ==
  /\ (dv.owner \in {"signal", "joinone"}) ~> (dv.owner = "gone")
  /\ (dv.disc = "over") ~> (dv.stop \/ dv.hosts = <<>>)
=============================================================================
