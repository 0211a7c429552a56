------------------------------ MODULE Settings ------------------------------
(***************************************************************************)
(* The configuration file of the Switch client (settings.cpp) and those    *)
(* who change it: signing in and out and the choices of the account menu   *)
(* (gui.cpp), the outcome of a stream (cloud_game_list.cpp). Every change  *)
(* rewrites the whole file, which is truncated first; the console may be   *)
(* switched off at any time. The file is given by the value of each line   *)
(* it may have, section by section, 0 standing for a line that is not      *)
(* there or is empty, which ParseFile does not tell apart.                 *)
(***************************************************************************)
EXTENDS Integers, SequencesExt

CONSTANTS
  NHosts,     \* consoles the file may have a section for, in the order of their names
  MaxChanges, \* bound: changes of the settings
  MaxCrashes  \* bound: times the console is switched off

VARIABLE cf   \* what is in memory, in the file, and where the main thread is

Hosts == 1..NHosts
Keys == {"rp_key", "rp_regist_key", "rp_key_type"}
Cut == -1     \* a value of which only the beginning is in the file

\* The lines in the order of WriteFile: of the global section, which is section 0, and of
\* the section of a console, the type of its key, one digit, as the last.
GlobalItems ==
  <<"psn_online_id", "npsso", "psn_access_token", "psn_token_expiry", "duid",
    "ps5_library_resolution", "title_streamable">>
HostItems__type_first == <<"host", "psn_online_id", "rp_key_type", "rp_key", "rp_regist_key">>
HostItems == <<"host", "psn_online_id", "rp_key", "rp_regist_key", "rp_key_type">>
Items(s) == IF s = 0 THEN GlobalItems ELSE HostItems

ChoiceItems == {"ps5_library_resolution", "title_streamable"}
Login == {"npsso", "psn_access_token", "psn_token_expiry"}

NoHost == [known |-> FALSE, online |-> 0, keys |-> [k \in Keys |-> 0], rp_key_data |-> FALSE]
Defaults == [global |-> [i \in ToSet(GlobalItems) |-> 0], hosts |-> [h \in Hosts |-> NoHost]]
NoLines == [s \in 0..NHosts |-> [i \in ToSet(Items(s)) |-> 0]]

\* The place of a line, and of the one after it.
Begin == [s |-> 0, n |-> 1]
After(p) == IF p.n < Len(Items(p.s)) THEN [p EXCEPT !.n = @ + 1] ELSE [s |-> p.s + 1, n |-> 1]
ItemAt(p) == Items(p.s)[p.n]

InitSettings ==
  cf = [at |-> "off", then |-> "up", mem |-> Defaults, file |-> NoLines, whole |-> TRUE, saved |-> Defaults,
        place |-> Begin, host |-> 0, read |-> {}, changes |-> 0, crashes |-> 0]

-----------------------------------------------------------------------------
(* The lines of WriteFile and ParseFile *)

\* A console's keys are written only when all of them were read.
Line(m, s, i) ==
  IF s = 0 THEN m.global[i]
  ELSE LET x == m.hosts[s] IN
       IF ~x.known \/ (i \in Keys /\ ~x.rp_key_data) THEN 0
       ELSE CASE i = "host" -> s [] i = "psn_online_id" -> x.online [] i \in Keys -> x.keys[i]

\* A new host gets the global settings known so far.
GetOrCreateHost(m, name) ==
  IF m.hosts[name].known THEN m
  ELSE [m EXCEPT !.hosts[name] = [NoHost EXCEPT !.known = TRUE, !.online = m.global["psn_online_id"]]]

\* One line; host is the console whose section it is in, and read the keys of it that were
\* read.
HostKey(r, i, v) ==
  LET q == [r EXCEPT !.mem.hosts[r.host].keys[i] = v, !.read = @ \cup {i}]
  IN IF q.read = Keys THEN [q EXCEPT !.mem.hosts[q.host].rp_key_data = TRUE] ELSE q
ParseLine(r, i, v) ==
  CASE v = 0 -> r
    [] v # 0 /\ i = "host" -> [r EXCEPT !.mem = GetOrCreateHost(@, v), !.host = v, !.read = {}]
    [] v # 0 /\ i = "psn_online_id" /\ r.host # 0 -> [r EXCEPT !.mem.hosts[r.host].online = v]
    [] v # 0 /\ i \in Keys -> IF r.host = 0 THEN r ELSE HostKey(r, i, v)
    [] OTHER -> [r EXCEPT !.mem.global[i] = v]

\* History: what a file says as a whole.
Content(f) ==
  [global |-> f[0],
   hosts |-> [h \in Hosts |->
     IF f[h]["host"] = 0 THEN NoHost
     ELSE [known |-> TRUE,
           online |-> IF f[h]["psn_online_id"] # 0 THEN f[h]["psn_online_id"] ELSE f[0]["psn_online_id"],
           keys |-> [k \in Keys |-> f[h][k]],
           rp_key_data |-> \A k \in Keys : f[h][k] # 0]]]

-----------------------------------------------------------------------------
\* The file a start may find: none, or one with each console and any of its keys.
OldFile(o, has) ==
  [s \in 0..NHosts |->
     IF s = 0 THEN [NoLines[0] EXCEPT !["psn_online_id"] = o]
     ELSE [i \in ToSet(HostItems) |-> IF i = "host" \/ i \in has[s] THEN s ELSE 0]]
OldFiles ==
  {NoLines} \cup {OldFile(o, has) : o \in 0..1, has \in [Hosts -> {{}, Keys, {"rp_key", "rp_key_type"}}]}
Found(r, f) == [r EXCEPT !.at = "parse", !.file = f, !.saved = Content(f)]
PowerOn ==
  /\ cf.at = "off"
  /\ \E f \in OldFiles : cf' = Found(cf, f)

\* GetInstance, line by line.
ParseFile ==
  /\ cf.at = "parse"
  /\ cf' = IF cf.place.s <= NHosts
           THEN [ParseLine(cf, ItemAt(cf.place), cf.file[cf.place.s][ItemAt(cf.place)]) EXCEPT !.place = After(@)]
           ELSE [cf EXCEPT !.at = "started"]

Ready == cf.at \in {"started", "up"} /\ cf.changes < MaxChanges
Changed(r, m, then) == [r EXCEPT !.mem = m, !.at = "open", !.then = then, !.changes = @ + 1]

\* A choice of the account menu, or the outcome of a stream for a title.
SetChoice(i) ==
  /\ Ready
  /\ cf' = Changed(cf, [cf.mem EXCEPT !.global[i] = 1 - @], "up")

IsCloudLoggedIn == cf.mem.global["psn_access_token"] # 0

\* SignIn, offered when nobody is signed in: the device's id is made and saved once, unless
\* none can be made; then the tokens are asked for.
SignIn ==
  /\ Ready /\ ~IsCloudLoggedIn
  /\ \/ cf' = [cf EXCEPT !.at = "exchange"]
     \/ /\ cf.mem.global["duid"] = 0
        /\ cf' = Changed(cf, [cf.mem EXCEPT !.global["duid"] = 1], "exchange")
WithLogin(m, a) == [m EXCEPT !.global = [i \in DOMAIN @ |-> IF i \in Login THEN a ELSE @[i]]]
ExchangeNPSSO ==
  /\ cf.at = "exchange"
  /\ \/ cf' = [cf EXCEPT !.at = "up"]
     \/ \E a \in 1..2 : cf' = Changed(cf, WithLogin(cf.mem, a), "up")

\* SignOut: ClearCloudLogin keeps the device's id.
SignOut ==
  /\ Ready /\ IsCloudLoggedIn
  /\ cf' = Changed(cf, WithLogin(cf.mem, 0), "up")

\* The file is opened and truncated, or cannot be opened, which nobody is told; then it is
\* written line by line and closed.
OpenFile ==
  /\ cf.at = "open"
  /\ \/ cf' = [cf EXCEPT !.at = cf.then]
     \/ cf' = [cf EXCEPT !.at = "writing", !.file = NoLines, !.whole = FALSE, !.saved = Defaults, !.place = Begin]
WriteFile ==
  /\ cf.at = "writing"
  /\ cf' = IF cf.place.s <= NHosts
           THEN [cf EXCEPT !.file[cf.place.s][ItemAt(cf.place)] = Line(cf.mem, cf.place.s, ItemAt(cf.place)),
                           !.place = After(@)]
           ELSE [cf EXCEPT !.at = cf.then, !.whole = TRUE, !.saved = cf.mem]

\* The console is switched off: what was written so far is left, and maybe the beginning of
\* the value of one more line. ParseLine takes the beginning of a key, a name or a token for
\* the value; of the others it takes nothing.
Cuttable ==
  {"psn_online_id", "npsso", "psn_access_token", "psn_token_expiry", "duid", "rp_key", "rp_regist_key"}
Beginnings(f, m, p) ==
  {f} \cup {[f EXCEPT ![q.s][ItemAt(q)] = Cut] :
             q \in {x \in {p} : x.s <= NHosts /\ ItemAt(x) \in Cuttable /\ Line(m, x.s, ItemAt(x)) # 0}}
Restarted(r, f) ==
  [r EXCEPT !.at = "parse", !.then = "up", !.mem = Defaults, !.file = f, !.place = Begin, !.host = 0,
            !.read = {}, !.crashes = @ + 1]
SwitchedOff ==
  /\ cf.at # "off" /\ cf.crashes < MaxCrashes
  /\ \E f \in IF cf.at = "writing" THEN Beginnings(cf.file, cf.mem, cf.place) ELSE {cf.file} : cf' = Restarted(cf, f)

NextSettings ==
  \/ PowerOn \/ ParseFile \/ SignIn \/ ExchangeNPSSO \/ SignOut \/ OpenFile \/ WriteFile \/ SwitchedOff
  \/ \E i \in ChoiceItems : SetChoice(i)

-----------------------------------------------------------------------------
\* What was saved is there after a start. Whatever part of the file was lost, a console
\* counts as registered only with all three keys, whole and its own, and a login that is
\* shown as one has the whole npsso with which the libraries are loaded.
Effective(m) ==
  [m EXCEPT !.hosts = [h \in Hosts |-> IF @[h].rp_key_data THEN @[h] ELSE [@[h] EXCEPT !.keys = NoHost.keys]]]
SettingsAreKept ==
  /\ cf.at = "started" /\ cf.whole => Effective(cf.mem) = Effective(cf.saved)
  /\ \A h \in Hosts : cf.mem.hosts[h].rp_key_data => \A i \in Keys : cf.mem.hosts[h].keys[i] = h
  /\ IsCloudLoggedIn => cf.mem.global["npsso"] \notin {0, Cut}
=============================================================================
