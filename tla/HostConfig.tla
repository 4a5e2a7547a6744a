----------------------------- MODULE HostConfig -----------------------------
(***************************************************************************)
(* The processes that run the service on one machine, a daemon and a       *)
(* desktop application: how each starts, which of them owns the runtime,   *)
(* and how the owner changes the two documents of the configuration        *)
(* directory, runtime-settings.json and routing-plans.json, for the        *)
(* clients of its HTTP listeners and of its socket.  A document is copied  *)
(* from memory, written to its file and put back into memory, each under   *)
(* no lock of the others; a file is truncated before it is written.        *)
(* Of the settings the secret, the instance id and the port are kept, of a *)
(* plan whether its names are canonical; the access log is left out.       *)
(***************************************************************************)
EXTENDS Naturals, Sequences, FiniteSets

CONSTANTS
    Daemon, Desktop, \* the two processes
    Clients,         \* of the HTTP listeners and of the socket
    SocketClients,   \* those that need no session
    Listeners,       \* of the owner: two in docker, with sessions of their own
    PlanIds,         \* ids of routing plans
    Ports,           \* ports that a client may ask for
    DefaultPort,     \* the port of the defaults and of config.toml
    Override,        \* MADAO_HTTP_SECRET, a secret of the daemon, or None
    Unreadable,      \* a file that is missing, truncated or no JSON
    None,
    MaxFresh,        \* bound of the secrets and ids made, and of the sessions;
                     \* an installation in use has made two
    MaxStarts        \* bound of the start-ups

ASSUME ConfigAssumption ==
    /\ Daemon # Desktop /\ None \notin {Daemon, Desktop}
    /\ SocketClients \subseteq Clients /\ Clients \cap {Daemon, Desktop} = {}
    /\ Ports \subseteq Nat /\ DefaultPort \in Nat \ {0}
    /\ Override \notin Nat
    /\ MaxFresh \in Nat \ {0, 1} /\ MaxStarts \in Nat

VARIABLES
    file,       \* document -> what is in its file
    lock,       \* who holds desktop-runtime-owner.lock
    host,       \* process -> what it does and what it has in memory
    request,    \* client -> the change it is waiting for
    sessions,   \* listener of the owner -> ids of its sessions
    cookie,     \* client -> the session id it was given last
    fresh,      \* the last secret or id made
    starts,     \* start-ups so far
    void,       \* secrets and session ids that have been given up
    identities, \* instance ids that a process has worked under
    disturbed,  \* changes or start-ups overlapped, or one of them broke off
    torn        \* a start-up found no instance id where one was in use

vars == <<file, lock, host, request, sessions, cookie, fresh, starts, void,
          identities, disturbed, torn>>
history == <<void, identities, disturbed, torn>>

Processes == {Daemon, Desktop}
Documents == {"settings", "plans"}

(* A secret or an id that is empty in the file.                            *)
Empty == 0

(* The documents as they may be in a file.                                 *)
SettingsFile == [secret : Nat, instance : Nat, port : Nat]
PlansFile == UNION {[S -> {"legacy", "current"}] : S \in SUBSET PlanIds}
ASSUME UnreadableAssumption == Unreadable \notin SettingsFile /\ Unreadable \notin PlansFile

-----------------------------------------------------------------------------
(* The documents.                                                          *)
DefaultSettings(n) == [secret |-> n + 1, instance |-> n + 2, port |-> DefaultPort]
NoPlans == [p \in {} |-> "current"]

Loaded(content, default) == IF content = Unreadable THEN default ELSE content

NeedsRepair(s) == s.secret = Empty \/ s.instance = Empty
Repaired(s, n) ==
    [s EXCEPT !.secret = IF @ = Empty THEN n + 1 ELSE @,
              !.instance = IF @ = Empty THEN n + 2 ELSE @]

Nameless(content) == content = Unreadable \/ content.instance = Empty

Canonical(plans) == [p \in DOMAIN plans |-> "current"]

AtLeastOne(port) == IF port = 0 THEN 1 ELSE port

(* What each change makes of the document that was copied.  A plan that    *)
(* lacks a name, a service or an item to run is refused, and so is the     *)
(* deletion of a plan that is not there.                                   *)
Refused(op, plans) ==
    \/ op.kind = "save_plan" /\ op.content = "invalid"
    \/ op.kind = "delete_plan" /\ op.plan \notin DOMAIN plans
DocumentOf(op) == IF op.kind \in {"update", "regenerate"} THEN "settings" ELSE "plans"

(* Defect: the settings of the form replace those in memory.               *)
ChangedByTheForm(op, old, n) ==
    CASE op.kind = "update"      -> [DefaultSettings(n) EXCEPT !.port = op.port]
      [] op.kind = "regenerate"  -> [old EXCEPT !.secret = n + 1]
      [] op.kind = "save_plan"   ->
            [p \in DOMAIN old \cup {op.plan} |-> IF p = op.plan THEN "current" ELSE old[p]]
      [] op.kind = "delete_plan" -> [p \in DOMAIN old \ {op.plan} |-> old[p]]

Changed(op, old, n) ==
    CASE op.kind = "update"      -> [old EXCEPT !.port = AtLeastOne(op.port)]
      [] op.kind = "regenerate"  -> [old EXCEPT !.secret = n + 1]
      [] op.kind = "save_plan"   ->
            [p \in DOMAIN old \cup {op.plan} |-> IF p = op.plan THEN "current" ELSE old[p]]
      [] op.kind = "delete_plan" -> [p \in DOMAIN old \ {op.plan} |-> old[p]]

Operations ==
    [kind : {"update"}, port : Ports] \cup [kind : {"regenerate"}]
        \cup [kind : {"save_plan"}, plan : PlanIds, content : {"valid", "invalid"}]
        \cup [kind : {"delete_plan"}, plan : PlanIds]

-----------------------------------------------------------------------------
Off == [stage |-> "off", memory |-> None, port |-> None, todo |-> <<>>]
NoRequest == [stage |-> "none", op |-> None, copy |-> None]

(* A new installation, one of an older version, and one in use.            *)
Installations == {
    [settings |-> Unreadable, plans |-> Unreadable],
    [settings |-> [secret |-> Empty, instance |-> Empty, port |-> DefaultPort],
     plans |-> [p \in PlanIds |-> "legacy"]],
    [settings |-> [secret |-> 1, instance |-> 2, port |-> DefaultPort], plans |-> NoPlans]}

Init ==
    /\ file \in Installations
    /\ lock = None
    /\ host = [h \in Processes |-> Off]
    /\ request = [c \in Clients |-> NoRequest]
    /\ sessions = [l \in Listeners |-> {}]
    /\ cookie = [c \in Clients |-> None]
    /\ fresh = IF Nameless(file.settings) THEN 0 ELSE 2
    /\ starts = 0
    /\ void = {}
    /\ identities = {}
    /\ disturbed = FALSE
    /\ torn = FALSE

Serving(h) == host[h].stage = "serving"
Owner == CHOOSE h \in Processes : Serving(h)
Up == \E h \in Processes : Serving(h)

(* Who is between reading a document and being done with it.               *)
Busy(h) == host[h].stage \in {"port", "loaded", "writing"}
AtWork(c) == request[c].stage # "none"
Others(t) == (\E h \in Processes \ {t} : Busy(h)) \/ (\E c \in Clients \ {t} : AtWork(c))

-----------------------------------------------------------------------------
(* Start-up.  The daemon takes the lock first and gives up without it; the *)
(* desktop takes it last and without it remains a client of the owner.     *)

Begin(h) ==
    /\ host[h].stage = "off"
    /\ starts < MaxStarts
    /\ h = Daemon => lock = None
    /\ lock' = IF h = Daemon THEN h ELSE lock
    /\ host' = [host EXCEPT ![h].stage = "port"]
    /\ starts' = starts + 1
    /\ disturbed' = (disturbed \/ Others(h))
    /\ UNCHANGED <<file, request, sessions, cookie, fresh, void, identities, torn>>

(* The port is read from the file before the service loads it.             *)
ReadPort(h) ==
    /\ host[h].stage = "port"
    /\ host[h].port = None
    /\ host' = [host EXCEPT ![h].port = IF file.settings = Unreadable THEN DefaultPort
                                        ELSE file.settings.port]
    /\ UNCHANGED <<file, lock, request, sessions, cookie, fresh, starts, history>>

(* Both documents are loaded, repaired and made canonical; what was        *)
(* changed is to be saved, and the settings once more in any case.         *)
Load(h) ==
    /\ host[h].stage = "port"
    /\ host[h].port # None
    /\ file.settings = Unreadable \/ NeedsRepair(file.settings) => fresh + 2 <= MaxFresh
    /\ LET found == Loaded(file.settings, DefaultSettings(fresh))
           settings == Repaired(found, fresh)
           plans == Loaded(file.plans, NoPlans)
       IN  /\ host' = [host EXCEPT
                 ![h].stage = "loaded",
                 ![h].memory = [settings |-> settings, plans |-> Canonical(plans)],
                 ![h].todo = (IF NeedsRepair(found) THEN <<"settings">> ELSE <<>>)
                                \o (IF plans # Canonical(plans) THEN <<"plans">> ELSE <<>>)
                                \o <<"settings">>]
           /\ fresh' = IF file.settings = Unreadable \/ NeedsRepair(found) THEN fresh + 2
                                                                          ELSE fresh
           /\ identities' = identities \cup {settings.instance}
    /\ torn' = (torn \/ (identities # {} /\ Nameless(file.settings)))
    /\ UNCHANGED <<file, lock, request, sessions, cookie, starts, void, disturbed>>

OpenAtStart(h) ==
    /\ host[h].stage = "loaded"
    /\ host[h].todo # <<>>
    /\ file' = [file EXCEPT ![Head(host[h].todo)] = Unreadable]
    /\ host' = [host EXCEPT ![h].stage = "writing"]
    /\ UNCHANGED <<lock, request, sessions, cookie, fresh, starts, history>>

WriteAtStart(h) ==
    /\ host[h].stage = "writing"
    /\ LET d == Head(host[h].todo) IN file' = [file EXCEPT ![d] = host[h].memory[d]]
    /\ host' = [host EXCEPT ![h].stage = "loaded", ![h].todo = Tail(@)]
    /\ UNCHANGED <<lock, request, sessions, cookie, fresh, starts, history>>

(* The file cannot be opened, or not be written: a warning at most.        *)
FailAtStart(h) ==
    /\ \/ host[h].stage = "loaded" /\ host[h].todo # <<>>
       \/ host[h].stage = "writing"
    /\ host' = [host EXCEPT ![h].stage = "loaded", ![h].todo = Tail(@)]
    /\ disturbed' = TRUE
    /\ UNCHANGED <<file, lock, request, sessions, cookie, fresh, starts, void,
                   identities, torn>>

(* Defect: a desktop without the lock binds them too.                      *)
ServeAnyway(h) ==
    /\ host[h].stage = "loaded"
    /\ host[h].todo = <<>>
    /\ lock' = IF lock = None THEN h ELSE lock
    /\ host' = [host EXCEPT ![h].stage = "serving"]
    /\ sessions' = [l \in Listeners |-> {}]
    /\ UNCHANGED <<file, request, cookie, fresh, starts, history>>

(* With the lock the listeners are bound, each with no sessions.           *)
Serve(h) ==
    /\ host[h].stage = "loaded"
    /\ host[h].todo = <<>>
    /\ IF lock \in {None, h}
       THEN /\ lock' = h
            /\ host' = [host EXCEPT ![h].stage = "serving"]
            /\ sessions' = [l \in Listeners |-> {}]
       ELSE /\ host' = [host EXCEPT ![h].stage = "client"]
            /\ UNCHANGED <<lock, sessions>>
    /\ UNCHANGED <<file, request, cookie, fresh, starts, history>>

(* A process ends at any moment; the system frees its lock, and what it    *)
(* was doing for its clients ends with it.                                 *)
Stop(h) ==
    /\ host[h].stage # "off"
    /\ host' = [host EXCEPT ![h] = Off]
    /\ lock' = IF lock = h THEN None ELSE lock
    /\ request' = IF Serving(h) THEN [c \in Clients |-> NoRequest] ELSE request
    /\ sessions' = IF Serving(h) THEN [l \in Listeners |-> {}] ELSE sessions
    /\ void' = IF Serving(h) THEN void \cup UNION {sessions[l] : l \in Listeners} ELSE void
    /\ disturbed' = (disturbed \/ host[h].stage = "writing"
                       \/ (Serving(h) /\ \E c \in Clients : request[c].stage = "writing"))
    /\ UNCHANGED <<file, cookie, fresh, starts, identities, torn>>

-----------------------------------------------------------------------------
(* The HTTP listeners of the owner.                                        *)
Effective(h) == IF h = Daemon /\ Override # None THEN Override
                ELSE host[h].memory.settings.secret

Accepted(l) == {Effective(Owner)} \cup sessions[l]

(* A client that knows the secret is given a session of the listener.      *)
Login(c, l) ==
    /\ Up
    /\ fresh < MaxFresh
    /\ fresh' = fresh + 1
    /\ sessions' = [sessions EXCEPT ![l] = @ \cup {fresh + 1}]
    /\ cookie' = [cookie EXCEPT ![c] = fresh + 1]
    /\ UNCHANGED <<file, lock, host, request, starts, history>>

Logout(c, l) ==
    /\ Up
    /\ cookie[c] # None
    /\ sessions' = [sessions EXCEPT ![l] = @ \ {cookie[c]}]
    /\ cookie' = [cookie EXCEPT ![c] = None]
    /\ void' = IF cookie[c] \in sessions[l] THEN void \cup {cookie[c]} ELSE void
    /\ UNCHANGED <<file, lock, host, request, fresh, starts, identities, disturbed, torn>>

(* A request is let in with a session of the listener; one that carries    *)
(* the secret itself is let in like one of the socket.                     *)
LetIn(c) == c \in SocketClients \/ \E l \in Listeners : cookie[c] \in Accepted(l)

-----------------------------------------------------------------------------
(* A change: copied under the read lock, saved under none, put back under  *)
(* the write lock.  The handler waits for nothing before it copies.        *)
Answer(c) == [request EXCEPT ![c] = NoRequest]

Copy(c, op) ==
    /\ Up
    /\ request[c].stage = "none"
    /\ LetIn(c)
    /\ ~Refused(op, host[Owner].memory.plans)
    /\ op.kind = "regenerate" => fresh < MaxFresh
    /\ LET old == host[Owner].memory[DocumentOf(op)]
       IN  request' = [request EXCEPT
               ![c] = [stage |-> "copied", op |-> op, copy |-> Changed(op, old, fresh)]]
    /\ fresh' = IF op.kind = "regenerate" THEN fresh + 1 ELSE fresh
    /\ disturbed' = (disturbed \/ Others(c))
    /\ UNCHANGED <<file, lock, host, sessions, cookie, starts, void, identities, torn>>

Open(c) ==
    /\ request[c].stage = "copied"
    /\ file' = [file EXCEPT ![DocumentOf(request[c].op)] = Unreadable]
    /\ request' = [request EXCEPT ![c].stage = "writing"]
    /\ UNCHANGED <<lock, host, sessions, cookie, fresh, starts, history>>

(* Defect: the file is not written when the secret changes.                *)
WriteNothing(c) ==
    /\ request[c].stage = "writing"
    /\ file' = [file EXCEPT ![DocumentOf(request[c].op)] =
                   IF request[c].op.kind = "regenerate" THEN host[Owner].memory.settings
                                                       ELSE request[c].copy]
    /\ request' = [request EXCEPT ![c].stage = "written"]
    /\ UNCHANGED <<lock, host, sessions, cookie, fresh, starts, history>>

Write(c) ==
    /\ request[c].stage = "writing"
    /\ file' = [file EXCEPT ![DocumentOf(request[c].op)] = request[c].copy]
    /\ request' = [request EXCEPT ![c].stage = "written"]
    /\ UNCHANGED <<lock, host, sessions, cookie, fresh, starts, history>>

(* Defect: the change is kept in memory although it was not saved.         *)
FailKeeping(c) ==
    /\ request[c].stage \in {"copied", "writing"}
    /\ host' = [host EXCEPT ![Owner].memory[DocumentOf(request[c].op)] = request[c].copy]
    /\ request' = Answer(c)
    /\ disturbed' = (disturbed \/ request[c].stage = "writing")
    /\ UNCHANGED <<file, lock, sessions, cookie, fresh, starts, void, identities, torn>>

(* The file cannot be opened, or is left behind truncated: the error goes  *)
(* to the client and the memory stays.                                     *)
Fail(c) ==
    /\ request[c].stage \in {"copied", "writing"}
    /\ request' = Answer(c)
    /\ disturbed' = (disturbed \/ request[c].stage = "writing")
    /\ UNCHANGED <<file, lock, host, sessions, cookie, fresh, starts, void, identities, torn>>

(* The secret that was there before is given up with the new one's answer. *)
Publish(c) ==
    /\ request[c].stage = "written"
    /\ LET op == request[c].op
           old == host[Owner].memory.settings.secret
       IN  /\ host' = [host EXCEPT ![Owner].memory[DocumentOf(op)] = request[c].copy]
           /\ void' = IF op.kind = "regenerate" THEN void \cup {old} ELSE void
    /\ request' = Answer(c)
    /\ UNCHANGED <<file, lock, sessions, cookie, fresh, starts, identities, disturbed, torn>>

-----------------------------------------------------------------------------
Next ==
    \/ \E h \in Processes :
          \/ Begin(h) \/ ReadPort(h) \/ Load(h) \/ OpenAtStart(h) \/ WriteAtStart(h)
          \/ FailAtStart(h) \/ Serve(h) \/ Stop(h)
    \/ \E c \in Clients :
          \/ c \notin SocketClients /\ \E l \in Listeners : Login(c, l) \/ Logout(c, l)
          \/ \E op \in Operations : Copy(c, op)
          \/ Open(c) \/ Write(c) \/ Fail(c) \/ Publish(c)

Spec == Init /\ [][Next]_vars

-----------------------------------------------------------------------------
Settings == [secret : 0..MaxFresh, instance : 0..MaxFresh, port : Nat]
Stages == {"off", "port", "loaded", "writing", "serving", "client"}

TypeOK ==
    /\ file.settings \in Settings \cup {Unreadable} /\ file.plans \in PlansFile \cup {Unreadable}
    /\ lock \in Processes \cup {None}
    /\ \A h \in Processes :
          /\ host[h].stage \in Stages /\ host[h].todo \in Seq(Documents)
          /\ host[h].memory # None => /\ host[h].memory.settings \in Settings
                                      /\ host[h].memory.plans \in PlansFile
    /\ \A c \in Clients : request[c].stage \in {"none", "copied", "writing", "written"}
    /\ \A l \in Listeners : sessions[l] \subseteq 0..MaxFresh
    /\ fresh \in 0..MaxFresh /\ starts \in 0..MaxStarts

(* Only one process serves and runs the background loops, the one that     *)
(* holds the lock, however the two start and end                           *)
(* (acquire_runtime_owner_lock, try_acquire_desktop_runtime_owner).        *)
OneOwner == \A h \in Processes : Serving(h) => lock = h

(* As long as no two changes overlapped and none broke off in the middle,  *)
(* a restart finds what the clients were answered: at rest the files hold  *)
(* what the owner has in memory.                                           *)
AtRest == (\A h \in Processes : ~Busy(h)) /\ (\A c \in Clients : ~AtWork(c))
FilesAgreeAtRest ==
    ~disturbed /\ Up /\ AtRest =>
        /\ file.settings = host[Owner].memory.settings
        /\ Loaded(file.plans, NoPlans) = host[Owner].memory.plans

(* A service keeps the identity its statistics are counted under, across   *)
(* changes, lost changes and restarts, unless a start-up cannot read it: a *)
(* process that ended while it wrote, or another one writing just then.    *)
IdentityKept == ~torn => Cardinality(identities) <= 1

(* What was given up opens no door again, neither a secret after its       *)
(* replacement nor a session after its end, restarts included, as long as  *)
(* no two changes overlapped and none broke off.                           *)
GivenUpStaysOut ==
    ~disturbed /\ Up => \A l \in Listeners : Accepted(l) \cap void = {}

(* docs/daemon-api.md:32: with a new secret the old one is invalid at once *)
(* (and, as nothing says otherwise, from then on).                         *)
OldSecretStaysOut == Up => Effective(Owner) \notin void
=============================================================================
