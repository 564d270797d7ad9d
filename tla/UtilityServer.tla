------- MODULE UtilityServer -------
(****************************************)
(* One utility process as its supervisor sees it: packages/server/src/ *)
(* utility.ts, the listener of OpenTigServer.ts and the settings file of *)
(* network-settings.ts, which outlives the process. *)
(* *)
(* A listener address stands for host and port, and a network configuration *)
(* is that address and the browser access switch; the LAN flag and the *)
(* pairing domain follow them.  Messages to the supervisor arrive in order; *)
(* those a process leaves behind may arrive before its exit event or never. *)
(****************************************)
EXTENDS Naturals, Sequences

CONSTANTS
  MaxProcs,     \* bound: utility processes that can exist at once
  Addrs,        \* addresses to listen on
  Nowhere,      \* no listener
  MaxUpdates    \* bound: changes of the network settings

ASSUME UtilityAssumption == MaxProcs \in Nat \ {0} /\ Nowhere \notin Addrs /\ MaxUpdates \in Nat

VARIABLES
  proc,       \* the utility processes
  saved,      \* the settings file: nothing, or one configuration
  updates     \* how many changes were asked for

utilityVars == <<proc, saved, updates>>

Procs == 1..MaxProcs

Config == [addr : Addrs, access : BOOLEAN]

Message == [type : {"ready", "changed"}, net : Config] \cup [type : {"error"}, inUse : BOOLEAN]

Proc == [st : {"unused", "forked", "booting", "serving", "ending", "gone"},
         told : BOOLEAN,                    \* the supervisor has killed it or asked it to shut down
         config : Config, net : Config,     \* what it was told to serve, and what it serves
         at : Addrs \cup {Nowhere},
         update : {"no", "rebind", "save", "post", "rebindBack", "saveBack"}, next : Config,
         astray : BOOLEAN,                  \* history: an update could not be undone
         out : Seq(Message)]

AnyConfig == [addr |-> CHOOSE a \in Addrs : TRUE, access |-> FALSE]

UnusedProc == [st |-> "unused", told |-> FALSE, config |-> AnyConfig, net |-> AnyConfig,
               at |-> Nowhere, update |-> "no", next |-> AnyConfig,
               astray |-> FALSE, out |-> <<>>]

UtilityTypeOK ==
  /\ proc \in [Procs -> Proc]
  /\ saved \in SUBSET Config /\ \A c, d \in saved : c = d
  /\ updates \in 0..MaxUpdates

UtilityInit ==
  /\ proc = [p \in Procs |-> UnusedProc]
  /\ saved = {}
  /\ updates = 0
------------------------------
Alive(p) == proc[p].st \notin {"unused", "gone"}

Free(a) == \A p \in Procs : Alive(p) => proc[p].at # a

Posted(p, message) == Append(proc[p].out, message)

\* start(): the saved configuration has precedence over the one in the bootstrap message.
Boot(p) ==
  LET net == IF saved = {} THEN proc[p].config ELSE CHOOSE c \in saved : TRUE IN
  /\ proc[p].st = "booting"
  /\ \/ /\ Free(net.addr)
        /\ proc' = [proc EXCEPT ![p].st = "serving", ![p].net = net, ![p].at = net.addr,
                                ![p].out = Posted(p, [type |-> "ready", net |-> net])]
     \/ \* failAndExit: the port is taken, also by another program, or something else fails.
        \E inUse \in BOOLEAN :
          proc' = [proc EXCEPT ![p].st = "ending",
                               ![p].out = Posted(p, [type |-> "error", inUse |-> inUse])]
  /\ UNCHANGED <<saved, updates>>

\* updateWebAccess, asked for by a browser or by the desktop's control message.  A change
\* of the listener gives the old one up first.
BeginUpdate(p, next) ==
  LET rebind == next.addr # proc[p].net.addr IN
  /\ proc[p].st = "serving" /\ ~ proc[p].told /\ proc[p].update = "no"
  /\ updates < MaxUpdates
  /\ updates' = updates + 1
  /\ proc' = [proc EXCEPT ![p].update = IF rebind THEN "rebind" ELSE "save", ![p].next = next,
                          ![p].at = IF rebind THEN Nowhere ELSE @]
  /\ UNCHANGED saved

\* rebind: the new listener, or the previous one, or not even that one.
Rebind(p) ==
  LET now == proc[p] IN
  /\ now.st = "serving" /\ now.update = "rebind"
  /\ \/ /\ Free(now.next.addr)
        /\ proc' = [proc EXCEPT ![p].at = now.next.addr, ![p].update = "save"]
     \/ /\ Free(now.net.addr)
        /\ proc' = [proc EXCEPT ![p].at = now.net.addr, ![p].update = "no"]
     \/ proc' = [proc EXCEPT ![p].update = "no"]
  /\ UNCHANGED <<saved, updates>>

Save(p) ==
  /\ proc[p].st = "serving" /\ proc[p].update = "save"
  /\ saved' = {proc[p].next}
  /\ proc' = [proc EXCEPT ![p].update = "post"]
  /\ UNCHANGED updates

\* Bug: a failed save is reported, and nothing is undone.
SaveFailsQuietly(p) ==
  /\ proc[p].st = "serving" /\ proc[p].update = "save"
  /\ saved' \in {saved, {proc[p].next}}
  /\ proc' = [proc EXCEPT ![p].update = "no"]
  /\ UNCHANGED updates

\* A failing write may have replaced the file already.
SaveFails(p) ==
  LET now == proc[p] IN
  /\ now.st = "serving" /\ now.update = "save"
  /\ saved' \in {saved, {now.next}}
  /\ proc' = IF now.next.addr = now.net.addr THEN [proc EXCEPT ![p].update = "saveBack"]
             ELSE [proc EXCEPT ![p].update = "rebindBack", ![p].at = Nowhere]
  /\ UNCHANGED updates

\* The rest of a successful update: the supervisor is told.
Post(p) ==
  /\ proc[p].st = "serving" /\ proc[p].update = "post"
  /\ proc' = [proc EXCEPT ![p].update = "no", ![p].net = proc[p].next,
                          ![p].out = Posted(p, [type |-> "changed", net |-> proc[p].next])]
  /\ UNCHANGED <<saved, updates>>

RebindBack(p) ==
  LET now == proc[p] IN
  /\ now.st = "serving" /\ now.update = "rebindBack"
  /\ \/ /\ Free(now.net.addr)
        /\ proc' = [proc EXCEPT ![p].at = now.net.addr, ![p].update = "saveBack"]
     \/ proc' = [proc EXCEPT ![p].update = "no", ![p].astray = TRUE]
  /\ UNCHANGED <<saved, updates>>

SaveBack(p) ==
  /\ proc[p].st = "serving" /\ proc[p].update = "saveBack"
  /\ \/ /\ saved' = {proc[p].net}
        /\ proc' = [proc EXCEPT ![p].update = "no",
                                ![p].out = Posted(p, [type |-> "changed", net |-> proc[p].net])]
     \/ /\ saved' \in {saved, {proc[p].net}}
        /\ proc' = [proc EXCEPT ![p].update = "no", ![p].astray = TRUE]
  /\ UNCHANGED updates

UpdateStep(p) ==
  Rebind(p) \/ Save(p) \/ SaveFails(p) \/ Post(p) \/ RebindBack(p) \/ SaveBack(p)

\* It ends because it was told to, or because it could not start.
Exit(p) ==
  /\ Alive(p) /\ (proc[p].st = "ending" \/ proc[p].told)
  /\ proc' = [proc EXCEPT ![p].st = "gone", ![p].at = Nowhere]
  /\ UNCHANGED <<saved, updates>>

Crash(p) ==
  /\ Alive(p)
  /\ proc' = [proc EXCEPT ![p].st = "gone", ![p].at = Nowhere]
  /\ UNCHANGED <<saved, updates>>
==============================
