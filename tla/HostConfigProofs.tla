-------------------------- MODULE HostConfigProofs --------------------------
(***************************************************************************)
(* Proved of HostConfig: however the daemon and the desktop start, fail    *)
(* and end, for any clients, listeners, plans and bounds, a process that   *)
(* serves holds the lock, so that two never serve at a time; the service   *)
(* keeps its identity as long as no start-up misses it; and until two      *)
(* changes overlap or one breaks off, the files at rest are what the owner *)
(* has, and no secret or session that was given up opens a door again.     *)
(***************************************************************************)
EXTENDS HostConfig, FiniteSetTheorems, TLAPS

(* What a process has, whatever its memory, port and documents to save.    *)
Process(M, P, T) == [stage : Stages, memory : M, port : P, todo : T]
HostShape == \E M, P, T : host \in [Processes -> Process(M, P, T)]

OwnerInv == HostShape /\ OneOwner

USE DEF Processes

LEMMA OwnerInit == Init => OwnerInv
<1> SUFFICES ASSUME Init PROVE OwnerInv
  OBVIOUS
<1>1. host \in [Processes -> Process({None}, {None}, {<<>>})]
  BY DEF Init, Off, Process, Stages
<1>2. OneOwner
  BY DEF Init, Off, OneOwner, Serving
<1> QED BY <1>1, <1>2 DEF OwnerInv, HostShape

(* A step that replaces one process keeps the shape, and moves that        *)
(* process only.                                                           *)
LEMMA StepOfOne ==
    ASSUME HostShape, NEW h \in Processes, NEW s \in Stages, NEW m, NEW p, NEW d,
           host' = [host EXCEPT ![h] = [stage |-> s, memory |-> m, port |-> p, todo |-> d]]
    PROVE  /\ HostShape'
           /\ host'[h].stage = s /\ host'[h].memory = m
           /\ \A k \in Processes \ {h} : host'[k] = host[k]
<1>1. PICK M, P, T : host \in [Processes -> Process(M, P, T)]
  BY DEF HostShape
<1>2. host' \in [Processes -> Process(M \cup {m}, P \cup {p}, T \cup {d})]
  BY <1>1 DEF Process
<1>3. HostShape'
  BY <1>2 DEF HostShape
<1>4. host'[h] = [stage |-> s, memory |-> m, port |-> p, todo |-> d]
  BY <1>1
<1>5. \A k \in Processes \ {h} : host'[k] = host[k]
  BY <1>1
<1> QED BY <1>3, <1>4, <1>5

(* The four forms in which a step changes a process.                       *)
LEMMA PartsOfOne ==
    ASSUME HostShape, NEW h \in Processes, NEW v
    PROVE  /\ host[h].stage \in Stages
           /\ [host[h] EXCEPT !.stage = v] =
                  [stage |-> v, memory |-> host[h].memory, port |-> host[h].port,
                   todo |-> host[h].todo]
           /\ [host[h] EXCEPT !.port = v] =
                  [stage |-> host[h].stage, memory |-> host[h].memory, port |-> v,
                   todo |-> host[h].todo]
           /\ [host[h] EXCEPT !.memory = v] =
                  [stage |-> host[h].stage, memory |-> v, port |-> host[h].port,
                   todo |-> host[h].todo]
<1>1. PICK M, P, T : host \in [Processes -> Process(M, P, T)]
  BY DEF HostShape
<1>2. host[h] \in Process(M, P, T)
  BY <1>1
<1> QED BY <1>2 DEF Process

(* What becomes of a step that changes one process, in the ways it is      *)
(* written: its stage, its port, its documents to save, all that is loaded *)
(* or its memory.                                                          *)
LEMMA StageMoves ==
    HostShape => \A h \in Processes, s \in Stages :
        host' = [host EXCEPT ![h].stage = s] =>
            /\ HostShape'
            /\ host'[h].stage = s /\ host'[h].memory = host[h].memory
            /\ \A k \in Processes \ {h} : host'[k] = host[k]
<1>0. SUFFICES ASSUME HostShape, NEW h \in Processes, NEW s \in Stages,
                      host' = [host EXCEPT ![h].stage = s]
               PROVE  /\ HostShape'
                      /\ host'[h].stage = s /\ host'[h].memory = host[h].memory
                      /\ \A k \in Processes \ {h} : host'[k] = host[k]
  OBVIOUS
<1>1. HostShape
  BY <1>0
<1>2. host' = [host EXCEPT ![h] = [stage |-> s, memory |-> host[h].memory,
                                   port |-> host[h].port, todo |-> host[h].todo]]
  BY <1>0, PartsOfOne
<1> QED BY <1>1, <1>2, StepOfOne

LEMMA PortMoves ==
    HostShape => \A h \in Processes : \A v :
        host' = [host EXCEPT ![h].port = v] =>
            /\ HostShape'
            /\ \A k \in Processes : host'[k].stage = host[k].stage
            /\ \A k \in Processes : host'[k].memory = host[k].memory
<1>0. SUFFICES ASSUME HostShape, NEW h \in Processes, NEW v,
                      host' = [host EXCEPT ![h].port = v]
               PROVE  /\ HostShape'
                      /\ \A k \in Processes : host'[k].stage = host[k].stage
                      /\ \A k \in Processes : host'[k].memory = host[k].memory
  OBVIOUS
<1>1. HostShape
  BY <1>0
<1>2. /\ host[h].stage \in Stages
      /\ host' = [host EXCEPT ![h] = [stage |-> host[h].stage, memory |-> host[h].memory,
                                      port |-> v, todo |-> host[h].todo]]
  BY <1>0, PartsOfOne
<1>3. /\ HostShape'
      /\ host'[h].stage = host[h].stage /\ host'[h].memory = host[h].memory
      /\ \A k \in Processes \ {h} : host'[k] = host[k]
  BY <1>1, <1>2, StepOfOne
<1> QED BY <1>3

LEMMA MemoryMoves ==
    HostShape => \A h \in Processes : \A v :
        host' = [host EXCEPT ![h] = [host[h] EXCEPT !.memory = v]] =>
            /\ HostShape'
            /\ \A k \in Processes : host'[k].stage = host[k].stage
            /\ \A k \in Processes : host'[k].memory = IF k = h THEN v ELSE host[k].memory
<1>0. SUFFICES ASSUME HostShape, NEW h \in Processes, NEW v,
                      host' = [host EXCEPT ![h] = [host[h] EXCEPT !.memory = v]]
               PROVE  /\ HostShape'
                      /\ \A k \in Processes : host'[k].stage = host[k].stage
                      /\ \A k \in Processes : host'[k].memory = IF k = h THEN v ELSE host[k].memory
  OBVIOUS
<1>1. HostShape
  BY <1>0
<1>2. /\ host[h].stage \in Stages
      /\ host' = [host EXCEPT ![h] = [stage |-> host[h].stage, memory |-> v,
                                      port |-> host[h].port, todo |-> host[h].todo]]
  BY <1>0, PartsOfOne
<1>3. PICK s, p, d :
        /\ s \in Stages /\ s = host[h].stage
        /\ host' = [host EXCEPT ![h] = [stage |-> s, memory |-> v, port |-> p, todo |-> d]]
  BY <1>2, Zenon
<1>4. /\ HostShape'
      /\ host'[h].stage = s /\ host'[h].memory = v
      /\ \A k \in Processes \ {h} : host'[k] = host[k]
  BY <1>1, <1>3, StepOfOne
<1> QED BY <1>3, <1>4

LEMMA TodoMoves ==
    HostShape => \A h \in Processes, s \in Stages : \A d :
        host' = [host EXCEPT ![h].stage = s, ![h].todo = d] =>
            /\ HostShape'
            /\ host'[h].stage = s /\ host'[h].memory = host[h].memory
            /\ \A k \in Processes \ {h} : host'[k] = host[k]
<1>0. SUFFICES ASSUME HostShape, NEW h \in Processes, NEW s \in Stages, NEW d,
                      host' = [host EXCEPT ![h].stage = s, ![h].todo = d]
               PROVE  /\ HostShape'
                      /\ host'[h].stage = s /\ host'[h].memory = host[h].memory
                      /\ \A k \in Processes \ {h} : host'[k] = host[k]
  OBVIOUS
<1>1. HostShape
  BY <1>0
<1> DEFINE r == [host[h] EXCEPT !.stage = s]
<1>2. r = [stage |-> s, memory |-> host[h].memory, port |-> host[h].port,
           todo |-> host[h].todo]
  BY <1>1, PartsOfOne
<1>3. host' = [host EXCEPT ![h] = [r EXCEPT !.todo = d]]
  BY <1>0
<1> HIDE DEF r
<1>4. [r EXCEPT !.todo = d] =
          [stage |-> s, memory |-> host[h].memory, port |-> host[h].port, todo |-> d]
  BY <1>2
<1>5. host' = [host EXCEPT ![h] = [stage |-> s, memory |-> host[h].memory,
                                   port |-> host[h].port, todo |-> d]]
  BY <1>3, <1>4
<1> QED BY <1>1, <1>5, StepOfOne

(* The process has loaded.                                                 *)
Reloaded(h, m) ==
    \E d : host' = [host EXCEPT ![h].stage = "loaded", ![h].memory = m, ![h].todo = d]

LEMMA LoadMoves ==
    HostShape => \A h \in Processes : \A m : Reloaded(h, m) =>
        /\ HostShape'
        /\ host'[h].stage = "loaded" /\ host'[h].memory = m
        /\ \A k \in Processes \ {h} : host'[k] = host[k]
<1>a. SUFFICES ASSUME HostShape, NEW h \in Processes, NEW m, Reloaded(h, m)
               PROVE  /\ HostShape'
                      /\ host'[h].stage = "loaded" /\ host'[h].memory = m
                      /\ \A k \in Processes \ {h} : host'[k] = host[k]
  OBVIOUS
<1>0. PICK d : host' = [host EXCEPT ![h].stage = "loaded", ![h].memory = m,
                                       ![h].todo = d]
  BY <1>a DEF Reloaded
<1> DEFINE s == "loaded"
<1>s. s \in Stages
  BY DEF Stages
<1>1. HostShape
  BY <1>a
<1> DEFINE r == [host[h] EXCEPT !.stage = s]
           q == [r EXCEPT !.memory = m]
<1>2. r = [stage |-> s, memory |-> host[h].memory, port |-> host[h].port,
           todo |-> host[h].todo]
  BY <1>1, PartsOfOne
<1>3. host' = [host EXCEPT ![h] = [q EXCEPT !.todo = d]]
  BY <1>0
<1>4. q = [r EXCEPT !.memory = m]
  OBVIOUS
<1> HIDE DEF r, q
<1>5. q = [stage |-> s, memory |-> m, port |-> host[h].port, todo |-> host[h].todo]
  BY <1>2, <1>4
<1>6. [q EXCEPT !.todo = d] =
          [stage |-> s, memory |-> m, port |-> host[h].port, todo |-> d]
  BY <1>5
<1>7. host' = [host EXCEPT ![h] = [stage |-> s, memory |-> m,
                                   port |-> host[h].port, todo |-> d]]
  BY <1>3, <1>6
<1> QED BY <1>s, <1>1, <1>7, StepOfOne

(* Where a process does not come to serve, and the lock stays, nothing     *)
(* happens to the owner.                                                   *)
LEMMA QuietStep ==
    ASSUME OwnerInv, HostShape', lock' = lock,
           \A k \in Processes : host'[k].stage = host[k].stage \/ host'[k].stage # "serving"
    PROVE  OwnerInv'
BY DEF OwnerInv, OneOwner, Serving

LEMMA StartKeepsOwner ==
    OwnerInv => \A h \in Processes :
        Begin(h) \/ ReadPort(h) \/ Load(h) \/ OpenAtStart(h) \/ WriteAtStart(h)
            \/ FailAtStart(h) => OwnerInv'
<1>0. SUFFICES ASSUME OwnerInv, NEW h \in Processes,
                      Begin(h) \/ ReadPort(h) \/ Load(h) \/ OpenAtStart(h)
                          \/ WriteAtStart(h) \/ FailAtStart(h)
               PROVE  OwnerInv'
  OBVIOUS
<1>s. OwnerInv /\ HostShape /\ {"port", "loaded", "writing"} \subseteq Stages
  BY <1>0 DEF OwnerInv, Stages
<1>1. CASE Begin(h)
  <2>1. host' = [host EXCEPT ![h].stage = "port"]
    BY <1>1 DEF Begin
  <2>2. /\ HostShape'
        /\ host'[h].stage = "port"
        /\ \A k \in Processes \ {h} : host'[k].stage = host[k].stage
    BY <1>s, <2>1, StageMoves
  <2>3. lock = None \/ h # Daemon
    BY <1>1 DEF Begin
  <2>4. lock' = IF h = Daemon THEN h ELSE lock
    BY <1>1 DEF Begin
  <2>5. \A k \in Processes \ {h} : host[k].stage = "serving" => lock = k
    BY <1>s DEF OwnerInv, OneOwner, Serving
  <2>6. \A k \in Processes : host'[k].stage = "serving" => lock' = k
    BY <2>2, <2>3, <2>4, <2>5, ConfigAssumption
  <2> QED BY <2>2, <2>6 DEF OwnerInv, OneOwner, Serving
<1>2. CASE ReadPort(h)
  <2>1. lock' = lock /\ \E v : host' = [host EXCEPT ![h].port = v]
    BY <1>2 DEF ReadPort
  <2>2. HostShape' /\ \A k \in Processes : host'[k].stage = host[k].stage
    BY <1>s, <2>1, PortMoves
  <2>3. lock' = lock
    BY <2>1
  <2> QED BY <1>s, <2>2, <2>3, QuietStep
<1>3. CASE Load(h)
  <2>1. \E m : Reloaded(h, m)
    BY <1>3 DEF Load, Reloaded
  <2>3. lock' = lock
    BY <1>3 DEF Load
  <2>2. /\ HostShape'
        /\ host'[h].stage = "loaded"
        /\ \A k \in Processes \ {h} : host'[k].stage = host[k].stage
    BY <1>s, <2>1, LoadMoves
  <2> QED BY <1>s, <2>2, <2>3, QuietStep
<1>4. CASE OpenAtStart(h)
  <2>1. lock' = lock
    BY <1>4 DEF OpenAtStart
  <2>2. host' = [host EXCEPT ![h].stage = "writing"]
    BY <1>4 DEF OpenAtStart
  <2>3. /\ HostShape'
        /\ host'[h].stage = "writing"
        /\ \A k \in Processes \ {h} : host'[k].stage = host[k].stage
    BY <1>s, <2>2, StageMoves
  <2> QED BY <1>s, <2>1, <2>3, QuietStep
<1>5. CASE WriteAtStart(h) \/ FailAtStart(h)
  <2>1. lock' = lock
    BY <1>5 DEF WriteAtStart, FailAtStart
  <2>2. PICK d : host' = [host EXCEPT ![h].stage = "loaded", ![h].todo = d]
    BY <1>5 DEF WriteAtStart, FailAtStart
  <2>3. /\ HostShape'
        /\ host'[h].stage = "loaded"
        /\ \A k \in Processes \ {h} : host'[k].stage = host[k].stage
    BY <1>s, <2>2, TodoMoves
  <2> QED BY <1>s, <2>1, <2>3, QuietStep
<1> QED BY <1>0, <1>1, <1>2, <1>3, <1>4, <1>5

LEMMA ServeKeepsOwner ==
    OwnerInv => \A h \in Processes : Serve(h) => OwnerInv'
<1>0. SUFFICES ASSUME OwnerInv, NEW h \in Processes, Serve(h) PROVE OwnerInv'
  OBVIOUS
<1>s. OwnerInv /\ HostShape /\ {"serving", "client"} \subseteq Stages
  BY <1>0 DEF OwnerInv, Stages
<1>1. CASE lock \in {None, h}
  <2>1. host' = [host EXCEPT ![h].stage = "serving"]
    BY <1>0, <1>1 DEF Serve
  <2>2. lock' = h
    BY <1>0, <1>1 DEF Serve
  <2>3. /\ HostShape'
        /\ \A k \in Processes \ {h} : host'[k].stage = host[k].stage
    BY <1>s, <2>1, StageMoves
  <2>4. \A k \in Processes \ {h} : host[k].stage # "serving"
    BY <1>s, <1>1, ConfigAssumption DEF OwnerInv, OneOwner, Serving
  <2> QED BY <2>2, <2>3, <2>4 DEF OwnerInv, OneOwner, Serving
<1>2. CASE lock \notin {None, h}
  <2>1. host' = [host EXCEPT ![h].stage = "client"]
    BY <1>0, <1>2 DEF Serve
  <2>2. lock' = lock
    BY <1>0, <1>2 DEF Serve
  <2>3. /\ HostShape'
        /\ host'[h].stage = "client"
        /\ \A k \in Processes \ {h} : host'[k].stage = host[k].stage
    BY <1>s, <2>1, StageMoves
  <2> QED BY <1>s, <2>2, <2>3, QuietStep
<1> QED BY <1>1, <1>2

LEMMA StopKeepsOwner ==
    OwnerInv => \A h \in Processes : Stop(h) => OwnerInv'
<1>0. SUFFICES ASSUME OwnerInv, NEW h \in Processes, Stop(h) PROVE OwnerInv'
  OBVIOUS
<1>1. HostShape /\ "off" \in Stages
  BY <1>0 DEF OwnerInv, Stages
<1>2. host' = [host EXCEPT ![h] = [stage |-> "off", memory |-> None, port |-> None,
                                   todo |-> <<>>]]
  BY <1>0 DEF Stop, Off
<1>3. /\ HostShape'
      /\ host'[h].stage = "off"
      /\ \A k \in Processes \ {h} : host'[k].stage = host[k].stage
  BY <1>1, <1>2, StepOfOne
<1>4. lock' = IF lock = h THEN None ELSE lock
  BY <1>0 DEF Stop
<1> QED BY <1>0, <1>3, <1>4 DEF OwnerInv, OneOwner, Serving

(* A request changes the memory of the owner at most.                      *)
LEMMA RequestKeepsOwner ==
    ASSUME OwnerInv, NEW c \in Clients,
           \/ \E l \in Listeners : Login(c, l) \/ Logout(c, l)
           \/ \E op \in Operations : Copy(c, op)
           \/ Open(c) \/ Write(c) \/ Fail(c)
    PROVE  OwnerInv'
<1>1. UNCHANGED <<host, lock>>
  BY DEF Login, Logout, Copy, Open, Write, Fail
<1> QED BY <1>1 DEF OwnerInv, HostShape, OneOwner, Serving

LEMMA PublishKeepsOwner ==
    OwnerInv => \A c \in Clients : Publish(c) => OwnerInv'
<1>0. SUFFICES ASSUME OwnerInv, NEW c \in Clients, Publish(c) PROVE OwnerInv'
  OBVIOUS
<1>1. OwnerInv /\ HostShape
  BY <1>0 DEF OwnerInv
<1>2. lock' = lock
  BY <1>0 DEF Publish
<1>3. \E v : host' = [host EXCEPT ![Owner] = [host[Owner] EXCEPT !.memory = v]]
  BY <1>0 DEF Publish
<1>4. HostShape' /\ \A k \in Processes : host'[k].stage = host[k].stage
  <2>1. CASE Owner \in Processes
    BY <1>1, <1>3, <2>1, MemoryMoves
  <2>2. CASE Owner \notin Processes
    <3>1. PICK M, P, T : host \in [Processes -> Process(M, P, T)]
      BY <1>1 DEF HostShape
    <3>2. host' = host
      BY <1>3, <2>2, <3>1
    <3> QED BY <1>1, <3>2 DEF HostShape
  <2> QED BY <2>1, <2>2
<1> QED BY <1>1, <1>2, <1>4, QuietStep

(* Only one process serves and runs the background loops, the one that     *)
(* holds desktop-runtime-owner.lock (acquire_runtime_owner_lock and        *)
(* try_acquire_desktop_runtime_owner).                                     *)
THEOREM LockMeansOwner == Spec => []OneOwner
<1>1. OwnerInv /\ [Next]_vars => OwnerInv'
  <2> SUFFICES ASSUME OwnerInv, [Next]_vars PROVE OwnerInv'
    OBVIOUS
  <2>1. CASE UNCHANGED vars
    BY <2>1 DEF vars, OwnerInv, HostShape, OneOwner, Serving
  <2>2. CASE Next
    BY <2>2, StartKeepsOwner, ServeKeepsOwner, StopKeepsOwner, RequestKeepsOwner,
       PublishKeepsOwner DEF Next
  <2> QED BY <2>1, <2>2
<1>2. OwnerInv => OneOwner
  BY DEF OwnerInv
<1> QED BY OwnerInit, <1>1, <1>2, PTL DEF Spec

(* So two processes never serve at a time.                                 *)
THEOREM NeverTwoOwners == Spec => [](~(Serving(Daemon) /\ Serving(Desktop)))
<1>1. OneOwner => ~(Serving(Daemon) /\ Serving(Desktop))
  BY ConfigAssumption DEF OneOwner
<1> QED BY LockMeansOwner, <1>1, PTL
-----------------------------------------------------------------------------
(* The identity.  What holds settings - memory, a copy under way, a file   *)
(* that can be read - names an identity that was worked under, unless a    *)
(* start-up missed the name.                                               *)
IsSettings(s) == s = [secret |-> s.secret, instance |-> s.instance, port |-> s.port]
IsPair(m) == m = [settings |-> m.settings, plans |-> m.plans]
Known(s) == IsSettings(s) /\ (torn \/ s.instance \in identities)

HasLoaded(h) == host[h].stage \in {"loaded", "writing", "serving", "client"}

MemoryInv ==
    \A h \in Processes :
        HasLoaded(h) => IsPair(host[h].memory) /\ Known(host[h].memory.settings)

FileInv ==
    /\ IsPair(file)
    /\ file.settings = Unreadable \/ IsSettings(file.settings)
    /\ torn \/ identities = {} \/ Nameless(file.settings)
         \/ file.settings.instance \in identities

RequestStages == {"none", "copied", "writing", "written"}
RequestShape == \E O, C : request \in [Clients -> [stage : RequestStages, op : O, copy : C]]

RequestInv ==
    /\ RequestShape
    /\ \A c \in Clients :
          AtWork(c) /\ DocumentOf(request[c].op) = "settings" => Known(request[c].copy)

OneIdentity == torn \/ \A i, j \in identities : i = j

IdInv == HostShape /\ MemoryInv /\ FileInv /\ RequestInv /\ OneIdentity

LEMMA IdInit == Init => IdInv
<1> SUFFICES ASSUME Init PROVE IdInv
  OBVIOUS
<1>1. HostShape
  BY OwnerInit DEF OwnerInv
<1>2. MemoryInv
  BY DEF Init, MemoryInv, HasLoaded, Off
<1>3. FileInv
  BY DEF Init, Installations, FileInv, IsPair, IsSettings
<1>4. RequestInv
  <2>1. request \in [Clients -> [stage : RequestStages, op : {None}, copy : {None}]]
    BY DEF Init, NoRequest, RequestStages
  <2>2. \A c \in Clients : request[c].stage = "none"
    BY DEF Init, NoRequest
  <2> QED BY <2>1, <2>2 DEF RequestInv, RequestShape, AtWork
<1>5. OneIdentity
  BY DEF Init, OneIdentity
<1> QED BY <1>1, <1>2, <1>3, <1>4, <1>5 DEF IdInv

(* One of the two documents is replaced.                                   *)
LEMMA PairStays ==
    ASSUME NEW m, IsPair(m), NEW d, NEW x
    PROVE  /\ IsPair([m EXCEPT ![d] = x])
           /\ [m EXCEPT ![d] = x].settings = IF d = "settings" THEN x ELSE m.settings
<1> DEFINE a == m.settings
           b == m.plans
<1>1. m = [settings |-> a, plans |-> b]
  BY DEF IsPair
<1> HIDE DEF a, b
<1>2. CASE d = "settings"
  <2>1. [m EXCEPT ![d] = x] = [settings |-> x, plans |-> b]
    BY <1>1, <1>2
  <2> QED BY <1>2, <2>1 DEF IsPair
<1>3. CASE d = "plans"
  <2>1. [m EXCEPT ![d] = x] = [settings |-> a, plans |-> x]
    BY <1>1, <1>3
  <2> QED BY <1>1, <1>3, <2>1 DEF IsPair
<1>4. CASE d \notin {"settings", "plans"}
  <2>1. [m EXCEPT ![d] = x] = m
    BY <1>1, <1>4
  <2> QED BY <1>1, <1>4, <2>1 DEF IsPair
<1> QED BY <1>2, <1>3, <1>4

(* A file is written, or left truncated.                                   *)
LEMMA FileIsWritten ==
    ASSUME FileInv, NEW d, NEW x, d = "settings" => x = Unreadable \/ Known(x),
           file' = [file EXCEPT ![d] = x], UNCHANGED <<identities, torn>>
    PROVE  FileInv'
<1>1. IsPair(file') /\ file'.settings = IF d = "settings" THEN x ELSE file.settings
  BY PairStays DEF FileInv
<1> QED BY <1>1 DEF FileInv, Known, Nameless

(* A process moves and keeps its memory, or ends.                          *)
LEMMA MemoryIsKept ==
    ASSUME MemoryInv, UNCHANGED <<identities, torn>>,
           \A k \in Processes :
               HasLoaded(k)' => HasLoaded(k) /\ host'[k].memory = host[k].memory
    PROVE  MemoryInv'
  BY DEF MemoryInv, Known

(* Requests are as they were, or done with.                                *)
LEMMA RequestsAreKept ==
    ASSUME RequestInv, UNCHANGED <<identities, torn>>,
           request' = request \/ request' = [c \in Clients |-> NoRequest]
    PROVE  RequestInv'
<1>1. CASE request' = request
  BY <1>1 DEF RequestInv, RequestShape, AtWork, Known
<1>2. CASE request' = [c \in Clients |-> NoRequest]
  <2>1. request' \in [Clients -> [stage : RequestStages, op : {None}, copy : {None}]]
    BY <1>2 DEF NoRequest, RequestStages
  <2>2. \A c \in Clients : request'[c].stage = "none"
    BY <1>2 DEF NoRequest
  <2> QED BY <2>1, <2>2 DEF RequestInv, RequestShape, AtWork
<1> QED BY <1>1, <1>2

-----------------------------------------------------------------------------
(* Repairing keeps the instance id that is there.                          *)
LEMMA RepairedHasShape ==
    ASSUME NEW s, IsSettings(s), NEW n
    PROVE  /\ IsSettings(Repaired(s, n))
           /\ s.instance # Empty => Repaired(s, n).instance = s.instance
<1> DEFINE a == IF s.secret = Empty THEN n + 1 ELSE s.secret
           b == IF s.instance = Empty THEN n + 2 ELSE s.instance
           r == [s EXCEPT !.secret = a]
<1>1. Repaired(s, n) = [r EXCEPT !.instance = b]
  BY DEF Repaired
<1>2. s.instance # Empty => b = s.instance
  OBVIOUS
<1> HIDE DEF a, b
<1>3. r = [secret |-> a, instance |-> s.instance, port |-> s.port]
  BY DEF IsSettings
<1> HIDE DEF r
<1>4. [r EXCEPT !.instance = b] = [secret |-> a, instance |-> b, port |-> s.port]
  BY <1>3
<1> QED BY <1>1, <1>2, <1>4 DEF IsSettings

(* What is loaded is known already, or is the first identity: a start-up   *)
(* that finds no name where one was in use sets torn.                      *)
LEMMA LoadKeepsId ==
    ASSUME IdInv, NEW h \in Processes, Load(h) PROVE IdInv'
<1> DEFINE found == Loaded(file.settings, DefaultSettings(fresh))
           settings == Repaired(found, fresh)
           loaded == [settings |-> settings,
                      plans |-> Canonical(Loaded(file.plans, NoPlans))]
<1>1. IsSettings(settings)
  <2>1. IsSettings(DefaultSettings(fresh))
    BY DEF IsSettings, DefaultSettings
  <2>2. IsSettings(found)
    BY <2>1 DEF IdInv, FileInv, Loaded
  <2> HIDE DEF found
  <2> QED BY <2>2, RepairedHasShape
<1>2. ~Nameless(file.settings) => settings.instance = file.settings.instance
  <2>1. ASSUME ~Nameless(file.settings) PROVE found = file.settings
    BY <2>1 DEF Loaded, Nameless
  <2>2. ASSUME ~Nameless(file.settings) PROVE found.instance # Empty
    BY <2>1, <2>2 DEF Nameless
  <2>3. IsSettings(found) /\ found.instance # Empty =>
           Repaired(found, fresh).instance = found.instance
    BY RepairedHasShape
  <2>4. ~Nameless(file.settings) => IsSettings(found)
    BY <2>1 DEF IdInv, FileInv, Nameless
  <2> QED BY <2>1, <2>2, <2>3, <2>4
<1>3. /\ Reloaded(h, loaded)
      /\ identities' = identities \cup {settings.instance}
      /\ torn' = (torn \/ (identities # {} /\ Nameless(file.settings)))
      /\ UNCHANGED <<file, request>>
  BY DEF Load, Reloaded
<1>4. /\ HostShape'
      /\ host'[h].stage = "loaded" /\ host'[h].memory = loaded
      /\ \A k \in Processes \ {h} : host'[k] = host[k]
  BY <1>3, LoadMoves DEF IdInv
<1>5. IsPair(loaded) /\ loaded.settings = settings
  BY DEF IsPair
<1> HIDE DEF loaded, settings, found
<1>6. torn' \/ identities = {} \/ identities' = identities
  BY <1>2, <1>3 DEF IdInv, FileInv
<1>7. torn => torn'
  BY <1>3
<1>8. MemoryInv'
  <2>1. \A k \in Processes \ {h} : HasLoaded(k)' => HasLoaded(k)
    BY <1>4 DEF HasLoaded
  <2>2. ASSUME NEW k \in Processes \ {h}, HasLoaded(k)'
        PROVE  IsPair(host[k].memory)' /\ Known(host[k].memory.settings)'
    BY <1>3, <1>4, <1>7, <2>1, <2>2 DEF IdInv, MemoryInv, Known
  <2>3. IsPair(host[h].memory)' /\ Known(host[h].memory.settings)'
    BY <1>1, <1>3, <1>4, <1>5 DEF Known
  <2> QED BY <2>2, <2>3 DEF MemoryInv
<1>9. FileInv'
  BY <1>2, <1>3, <1>6, <1>7 DEF IdInv, FileInv
<1>10. RequestInv'
  BY <1>3, <1>7 DEF IdInv, RequestInv, RequestShape, AtWork, Known
<1>11. OneIdentity'
  BY <1>3, <1>6, <1>7 DEF IdInv, OneIdentity
<1> QED BY <1>4, <1>8, <1>9, <1>10, <1>11 DEF IdInv

(* A step that starts or ends a process, or writes a file of its own.      *)
LEMMA ProcessKeepsId ==
    ASSUME IdInv, NEW h \in Processes,
           \/ Begin(h) \/ ReadPort(h) \/ OpenAtStart(h) \/ WriteAtStart(h)
           \/ FailAtStart(h) \/ Serve(h) \/ Stop(h)
    PROVE  IdInv'
<1> USE DEF IdInv
<1>0. HostShape /\ Stages = {"off", "port", "loaded", "writing", "serving", "client"}
  BY DEF Stages
<1>1. UNCHANGED <<identities, torn>>
  BY DEF Begin, ReadPort, OpenAtStart, WriteAtStart, FailAtStart, Serve, Stop, history
<1>2. OneIdentity'
  BY <1>1 DEF OneIdentity
<1>3. RequestInv'
  <2>1. request' = request \/ request' = [c \in Clients |-> NoRequest]
    BY DEF Begin, ReadPort, OpenAtStart, WriteAtStart, FailAtStart, Serve, Stop
  <2> QED BY <1>1, <2>1, RequestsAreKept
<1>4. FileInv'
  <2>1. CASE OpenAtStart(h)
    <3>1. \E d : file' = [file EXCEPT ![d] = Unreadable]
      BY <2>1 DEF OpenAtStart
    <3> QED BY <1>1, <3>1, FileIsWritten
  <2>2. CASE WriteAtStart(h)
    <3>1. HasLoaded(h)
      BY <2>2 DEF WriteAtStart, HasLoaded
    <3>2. \E d : file' = [file EXCEPT ![d] = host[h].memory[d]]
      BY <2>2 DEF WriteAtStart
    <3> QED BY <1>1, <3>1, <3>2, FileIsWritten DEF MemoryInv
  <2>3. CASE file' = file
    BY <1>1, <2>3 DEF FileInv
  <2> QED BY <2>1, <2>2, <2>3 DEF Begin, ReadPort, FailAtStart, Serve, Stop
<1> DEFINE Kept == \A k \in Processes :
              HasLoaded(k)' => HasLoaded(k) /\ host'[k].memory = host[k].memory
<1>5. HostShape' /\ Kept
  <2>1. CASE Begin(h) \/ OpenAtStart(h) \/ Serve(h)
    <3>1. PICK s \in Stages :
             host' = [host EXCEPT ![h].stage = s] /\ (s = "port" \/ HasLoaded(h))
      BY <1>0, <2>1 DEF Begin, OpenAtStart, Serve, HasLoaded
    <3>2. /\ HostShape'
          /\ host'[h].stage = s /\ host'[h].memory = host[h].memory
          /\ \A k \in Processes \ {h} : host'[k] = host[k]
      BY <1>0, <3>1, StageMoves
    <3> QED BY <3>1, <3>2 DEF HasLoaded
  <2>2. CASE ReadPort(h)
    <3>1. PICK v : host' = [host EXCEPT ![h].port = v]
      BY <2>2 DEF ReadPort
    <3>2. /\ HostShape'
          /\ \A k \in Processes : host'[k].stage = host[k].stage
          /\ \A k \in Processes : host'[k].memory = host[k].memory
      BY <1>0, <3>1, PortMoves
    <3> QED BY <3>2 DEF HasLoaded
  <2>3. CASE WriteAtStart(h) \/ FailAtStart(h)
    <3>1. PICK d : host' = [host EXCEPT ![h].stage = "loaded", ![h].todo = d]
      BY <2>3 DEF WriteAtStart, FailAtStart
    <3>2. /\ HostShape'
          /\ host'[h].stage = "loaded" /\ host'[h].memory = host[h].memory
          /\ \A k \in Processes \ {h} : host'[k] = host[k]
      BY <1>0, <3>1, TodoMoves
    <3>3. HasLoaded(h)
      BY <2>3 DEF WriteAtStart, FailAtStart, HasLoaded
    <3> QED BY <3>2, <3>3 DEF HasLoaded
  <2>4. CASE Stop(h)
    <3>1. host' = [host EXCEPT ![h] = [stage |-> "off", memory |-> None, port |-> None,
                                       todo |-> <<>>]]
      BY <2>4 DEF Stop, Off
    <3>2. /\ HostShape'
          /\ host'[h].stage = "off"
          /\ \A k \in Processes \ {h} : host'[k] = host[k]
      BY <1>0, <3>1, StepOfOne
    <3> QED BY <3>2 DEF HasLoaded
  <2> QED BY <2>1, <2>2, <2>3, <2>4
<1>6. MemoryInv'
  BY <1>1, <1>5, MemoryIsKept
<1> QED BY <1>2, <1>3, <1>4, <1>5, <1>6

-----------------------------------------------------------------------------
(* A request gets a new stage, operation and copy.                         *)
LEMMA RequestMoves ==
    ASSUME RequestShape, NEW c \in Clients, NEW s \in RequestStages, NEW o, NEW x,
           request' = [request EXCEPT ![c] = [stage |-> s, op |-> o, copy |-> x]]
    PROVE  /\ RequestShape'
           /\ request'[c] = [stage |-> s, op |-> o, copy |-> x]
           /\ \A k \in Clients \ {c} : request'[k] = request[k]
<1>1. PICK O, C : request \in [Clients -> [stage : RequestStages, op : O, copy : C]]
  BY DEF RequestShape
<1>2. request' \in [Clients -> [stage : RequestStages, op : O \cup {o}, copy : C \cup {x}]]
  BY <1>1
<1>3. request'[c] = [stage |-> s, op |-> o, copy |-> x]
  BY <1>1
<1>4. \A k \in Clients \ {c} : request'[k] = request[k]
  BY <1>1
<1> QED BY <1>2, <1>3, <1>4 DEF RequestShape

(* Or a new stage alone.                                                   *)
LEMMA RequestStageMoves ==
    ASSUME RequestShape, NEW c \in Clients, NEW s \in RequestStages,
           request' = [request EXCEPT ![c].stage = s]
    PROVE  /\ RequestShape'
           /\ request'[c].op = request[c].op /\ request'[c].copy = request[c].copy
           /\ \A k \in Clients \ {c} : request'[k] = request[k]
<1>1. PICK O, C : request \in [Clients -> [stage : RequestStages, op : O, copy : C]]
  BY DEF RequestShape
<1>2. request[c] \in [stage : RequestStages, op : O, copy : C]
  BY <1>1
<1> DEFINE r == [request[c] EXCEPT !.stage = s]
<1>3. r = [stage |-> s, op |-> request[c].op, copy |-> request[c].copy]
  BY <1>2
<1>4. request' = [request EXCEPT ![c] = r]
  OBVIOUS
<1>5. r \in [stage : RequestStages, op : O, copy : C]
  BY <1>2, <1>3
<1>6. r.op = request[c].op /\ r.copy = request[c].copy
  BY <1>3
<1> HIDE DEF r
<1>7. request' \in [Clients -> [stage : RequestStages, op : O, copy : C]]
  BY <1>1, <1>4, <1>5
<1>8. request'[c] = r /\ \A k \in Clients \ {c} : request'[k] = request[k]
  BY <1>1, <1>4
<1> QED BY <1>6, <1>7, <1>8 DEF RequestShape

(* A change of the settings keeps the identity they name.                  *)
LEMMA ChangedKeepsInstance ==
    ASSUME NEW old, IsSettings(old), NEW op \in Operations, NEW n,
           DocumentOf(op) = "settings"
    PROVE  IsSettings(Changed(op, old, n)) /\ Changed(op, old, n).instance = old.instance
<1>1. op.kind \in {"update", "regenerate"}
  BY DEF DocumentOf
<1>2. CASE op.kind = "update"
  <2>1. Changed(op, old, n) = [old EXCEPT !.port = AtLeastOne(op.port)]
    BY <1>2 DEF Changed
  <2> QED BY <2>1 DEF IsSettings
<1>3. CASE op.kind = "regenerate"
  <2>1. Changed(op, old, n) = [old EXCEPT !.secret = n + 1]
    BY <1>3 DEF Changed
  <2> QED BY <2>1 DEF IsSettings
<1> QED BY <1>1, <1>2, <1>3

LEMMA OwnerServes == Up => Owner \in Processes /\ Serving(Owner)
  BY DEF Up, Owner

LEMMA CopyKeepsId ==
    ASSUME IdInv, NEW c \in Clients, NEW op \in Operations, Copy(c, op) PROVE IdInv'
<1> DEFINE old == host[Owner].memory[DocumentOf(op)]
           x == Changed(op, old, fresh)
<1>1. /\ request' = [request EXCEPT ![c] = [stage |-> "copied", op |-> op, copy |-> x]]
      /\ UNCHANGED <<host, file, identities, torn>>
  BY DEF Copy
<1>2. DocumentOf(op) = "settings" => Known(x)
  <2>1. Owner \in Processes /\ HasLoaded(Owner)
    BY OwnerServes DEF Copy, Serving, HasLoaded
  <2>2. DocumentOf(op) = "settings" => Known(old)
    BY <2>1 DEF IdInv, MemoryInv
  <2> HIDE DEF old
  <2> QED BY <2>2, ChangedKeepsInstance DEF Known
<1> HIDE DEF x
<1>3. /\ RequestShape'
      /\ request'[c] = [stage |-> "copied", op |-> op, copy |-> x]
      /\ \A k \in Clients \ {c} : request'[k] = request[k]
  BY <1>1, RequestMoves DEF IdInv, RequestInv, RequestStages
<1>4. RequestInv'
  <2>1. ASSUME NEW k \in Clients, AtWork(k)', (DocumentOf(request[k].op) = "settings")'
        PROVE  Known(request[k].copy)'
    <3>1. CASE k = c
      BY <1>1, <1>2, <1>3, <2>1, <3>1 DEF Known
    <3>2. CASE k # c
      BY <1>1, <1>3, <2>1, <3>2 DEF IdInv, RequestInv, AtWork, Known
    <3> QED BY <3>1, <3>2
  <2> QED BY <1>3, <2>1 DEF RequestInv
<1>5. HostShape' /\ MemoryInv' /\ FileInv' /\ OneIdentity'
  BY <1>1 DEF IdInv, HostShape, MemoryInv, HasLoaded, FileInv, OneIdentity, Known
<1> QED BY <1>4, <1>5 DEF IdInv

(* A request that moves on, or is answered.                                *)
LEMMA RequestGoesOn ==
    ASSUME RequestInv, NEW c \in Clients, UNCHANGED <<identities, torn>>,
           \/ request[c].stage # "none"
              /\ \E s \in RequestStages : request' = [request EXCEPT ![c].stage = s]
           \/ request' = Answer(c)
    PROVE  RequestInv'
<1>1. CASE request' = Answer(c)
  <2>1. request' = [request EXCEPT ![c] = [stage |-> "none", op |-> None, copy |-> None]]
    BY <1>1 DEF Answer, NoRequest
  <2>2. /\ RequestShape'
        /\ request'[c] = [stage |-> "none", op |-> None, copy |-> None]
        /\ \A k \in Clients \ {c} : request'[k] = request[k]
    BY <2>1, RequestMoves DEF RequestInv, RequestStages
  <2> QED BY <2>2 DEF RequestInv, AtWork, Known
<1>2. CASE request[c].stage # "none"
             /\ \E s \in RequestStages : request' = [request EXCEPT ![c].stage = s]
  <2>1. PICK s \in RequestStages : request' = [request EXCEPT ![c].stage = s]
    BY <1>2
  <2>2. /\ RequestShape'
        /\ request'[c].op = request[c].op /\ request'[c].copy = request[c].copy
        /\ \A k \in Clients \ {c} : request'[k] = request[k]
    BY <2>1, RequestStageMoves DEF RequestInv
  <2> QED BY <1>2, <2>2 DEF RequestInv, AtWork, Known
<1> QED BY <1>1, <1>2

(* What is put into memory names an identity that is known.                *)
LEMMA PublishKeepsMemory ==
    ASSUME IdInv, NEW c \in Clients, Publish(c) PROVE HostShape' /\ MemoryInv'
<1> DEFINE d == DocumentOf(request[c].op)
           m == host[Owner].memory
           v == [m EXCEPT ![d] = request[c].copy]
<1>1. UNCHANGED <<identities, torn>>
  BY DEF Publish
<1>2. host' = [host EXCEPT ![Owner] = [host[Owner] EXCEPT !.memory = v]]
  BY DEF Publish
<1>3. d = "settings" => Known(request[c].copy)
  BY DEF Publish, IdInv, RequestInv, AtWork
<1>4. HostShape
  BY DEF IdInv
<1>5. CASE Owner \in Processes
  <2>1. /\ HostShape'
        /\ \A k \in Processes : host'[k].stage = host[k].stage
        /\ \A k \in Processes : host'[k].memory = IF k = Owner THEN v ELSE host[k].memory
    BY <1>2, <1>4, <1>5, MemoryMoves
  <2>2. IsPair(m) /\ Known(m.settings) => IsPair(v) /\ Known(v.settings)
    <3> HIDE DEF m, d
    <3>1. IsPair(m) => IsPair(v) /\ v.settings = IF d = "settings" THEN request[c].copy
                                                                  ELSE m.settings
      BY PairStays
    <3> HIDE DEF v
    <3> QED BY <1>3, <3>1
  <2> HIDE DEF v
  <2>3. ASSUME NEW k \in Processes, HasLoaded(k)'
        PROVE  (IsPair(host[k].memory) /\ Known(host[k].memory.settings))'
    <3>1. HasLoaded(k) /\ IsPair(host[k].memory) /\ Known(host[k].memory.settings)
      BY <2>1, <2>3 DEF HasLoaded, IdInv, MemoryInv
    <3> QED BY <1>1, <2>1, <2>2, <3>1 DEF Known
  <2> QED BY <2>1, <2>3 DEF MemoryInv
<1>6. CASE Owner \notin Processes
  <2>1. host' = host
    <3>1. PICK M, P, T : host \in [Processes -> Process(M, P, T)]
      BY <1>4 DEF HostShape
    <3> QED BY <1>2, <1>6, <3>1
  <2> QED BY <1>1, <2>1 DEF IdInv, HostShape, MemoryInv, HasLoaded, Known
<1> QED BY <1>5, <1>6

LEMMA RequestKeepsId ==
    ASSUME IdInv, NEW c \in Clients, Open(c) \/ Write(c) \/ Fail(c) \/ Publish(c)
    PROVE  IdInv'
<1>1. UNCHANGED <<identities, torn>>
  BY DEF Open, Write, Fail, Publish, history
<1>2. AtWork(c) /\ (DocumentOf(request[c].op) = "settings" => Known(request[c].copy))
  BY DEF Open, Write, Fail, Publish, AtWork, IdInv, RequestInv
<1>3. RequestInv'
  <2>1. \/ \E s \in RequestStages : request' = [request EXCEPT ![c].stage = s]
        \/ request' = Answer(c)
    BY DEF Open, Write, Fail, Publish, RequestStages
  <2> QED BY <1>1, <1>2, <2>1, RequestGoesOn DEF IdInv, AtWork
<1>4. FileInv'
  <2>1. CASE Open(c)
    BY <1>1, <2>1, FileIsWritten DEF Open, IdInv
  <2>2. CASE Write(c)
    BY <1>1, <1>2, <2>2, FileIsWritten DEF Write, IdInv
  <2>3. CASE Fail(c) \/ Publish(c)
    BY <1>1, <2>3 DEF Fail, Publish, IdInv, FileInv
  <2> QED BY <2>1, <2>2, <2>3
<1>5. HostShape' /\ MemoryInv'
  <2>1. CASE Open(c) \/ Write(c) \/ Fail(c)
    BY <1>1, <2>1 DEF Open, Write, Fail, IdInv, HostShape, MemoryInv, HasLoaded, Known
  <2>2. CASE Publish(c)
    BY PublishKeepsMemory, <2>2
  <2> QED BY <2>1, <2>2
<1>6. OneIdentity'
  BY <1>1 DEF IdInv, OneIdentity
<1> QED BY <1>3, <1>4, <1>5, <1>6 DEF IdInv

LEMMA SessionKeepsId ==
    ASSUME IdInv, UNCHANGED <<file, host, request, identities, torn>> PROVE IdInv'
  BY DEF IdInv, HostShape, MemoryInv, HasLoaded, FileInv, RequestInv, RequestShape, AtWork,
         OneIdentity, Known

(* A service keeps the identity its statistics are counted under, whatever *)
(* is changed, fails or starts again, as long as no start-up misses it     *)
(* (load_runtime_settings_from, save_runtime_settings).                    *)
THEOREM IdentityStays == Spec => []IdentityKept
<1>1. IdInv /\ [Next]_vars => IdInv'
  <2> SUFFICES ASSUME IdInv, [Next]_vars PROVE IdInv'
    OBVIOUS
  <2>1. CASE UNCHANGED vars
    BY <2>1, SessionKeepsId DEF vars
  <2>2. ASSUME NEW c \in Clients, \E l \in Listeners : Login(c, l) \/ Logout(c, l)
        PROVE  IdInv'
    BY <2>2, SessionKeepsId DEF Login, Logout, history
  <2>3. CASE Next
    BY <2>2, <2>3, LoadKeepsId, ProcessKeepsId, CopyKeepsId, RequestKeepsId DEF Next
  <2> QED BY <2>1, <2>3
<1>2. IdInv => IdentityKept
  <2> SUFFICES ASSUME IdInv, ~torn PROVE Cardinality(identities) <= 1
    BY DEF IdentityKept
  <2>1. CASE identities = {}
    BY <2>1, FS_EmptySet
  <2>2. CASE identities # {}
    <3>1. PICK i : identities = {i}
      BY <2>2 DEF IdInv, OneIdentity
    <3>2. Cardinality(identities) = 1
      BY <3>1, FS_Singleton, Zenon
    <3> QED BY <3>2
  <2> QED BY <2>1, <2>2
<1> QED BY IdInit, <1>1, <1>2, PTL DEF Spec

-----------------------------------------------------------------------------
(* The files.  Until two changes overlap or one breaks off, a document is  *)
(* in its file as the owner has it in memory, or somebody is writing it.   *)
(* What the processes, the requests and the files hold, in full:           *)
SettingsDoc == [secret : Nat \ {0}, instance : Nat \ {0}, port : Nat]
PlansDoc == UNION {[S -> {"current"}] : S \in SUBSET PlanIds}
Memory == [settings : SettingsDoc, plans : PlansDoc]
DocOf(d) == IF d = "settings" THEN SettingsDoc ELSE PlansDoc
CopyOf(op) == DocOf(DocumentOf(op))

HostSet == [Processes -> [stage : Stages, memory : Memory \cup {None},
                          port : Nat \cup {None}, todo : Seq(Documents)]]
RequestSet == [Clients -> [stage : RequestStages, op : Operations \cup {None},
                           copy : SettingsDoc \cup PlansDoc \cup {None}]]
FileSet == [settings : SettingsFile \cup {Unreadable}, plans : PlansFile \cup {Unreadable}]

Shapes == host \in HostSet /\ request \in RequestSet /\ file \in FileSet /\ fresh \in Nat

(* Who has loaded has both documents, and who writes has something to      *)
(* write; a change that is under way is the owner's.                       *)
UnderWay(c) == /\ request[c].op \in Operations
               /\ request[c].copy \in CopyOf(request[c].op)
               /\ Up
Sound ==
    /\ \A h \in Processes : HasLoaded(h) => host[h].memory \in Memory
    /\ \A h \in Processes : host[h].stage = "writing" => host[h].todo # <<>>
    /\ \A c \in Clients : AtWork(c) => UnderWay(c)

FileHas(f, m, d) == IF d = "settings" THEN f.settings = m.settings
                                      ELSE Loaded(f.plans, NoPlans) = m.plans
Has(s, d) == \E i \in 1..Len(s) : s[i] = d
Starting(h) == host[h].stage \in {"loaded", "writing"}

(* One start-up or one change at a time.                                   *)
Alone ==
    /\ \A h, k \in Processes : Busy(h) /\ Busy(k) => h = k
    /\ \A h \in Processes, c \in Clients : Busy(h) => ~AtWork(c)
    /\ \A c, d \in Clients : AtWork(c) /\ AtWork(d) => c = d

(* What a start-up loaded is in the files but for what it still saves, and *)
(* is what the owner has.                                                  *)
StartAgrees ==
    \A h \in Processes : Starting(h) =>
        /\ \A d \in Documents : Has(host[h].todo, d) \/ FileHas(file, host[h].memory, d)
        /\ \A k \in Processes : Serving(k) => host[k].memory = host[h].memory

BeingWritten(d) ==
    \/ \E h \in Processes : host[h].stage = "writing" /\ Head(host[h].todo) = d
    \/ \E c \in Clients : request[c].stage \in {"writing", "written"}
                          /\ DocumentOf(request[c].op) = d

OwnerAgrees ==
    \A k \in Processes : Serving(k) =>
        \A d \in Documents : FileHas(file, host[k].memory, d) \/ BeingWritten(d)

CopyAgrees ==
    \A c \in Clients : request[c].stage = "written" =>
        file[DocumentOf(request[c].op)] = request[c].copy

AgreeInv == ~disturbed => Alone /\ StartAgrees /\ OwnerAgrees /\ CopyAgrees

FileInvariant == Shapes /\ Sound /\ AgreeInv

HIDE DEF Processes

(* The effects of the steps, each in one formula.                          *)
Moved(h, s, m, t) ==
    /\ host' \in HostSet
    /\ host'[h].stage = s /\ host'[h].memory = m /\ host'[h].todo = t
    /\ \A k \in Processes \ {h} : host'[k] = host[k]
Put(d, x) ==
    /\ file' \in FileSet
    /\ file'[d] = x
    /\ \A e \in Documents \ {d} : file'[e] = file[e]
Asked(c, s, o, x) ==
    /\ request' \in RequestSet
    /\ request'[c].stage = s /\ request'[c].op = o /\ request'[c].copy = x
    /\ \A k \in Clients \ {c} : request'[k] = request[k]

LEMMA StageMoved ==
    ASSUME host \in HostSet, NEW h \in Processes, NEW s \in Stages,
           host' = [host EXCEPT ![h].stage = s]
    PROVE  Moved(h, s, host[h].memory, host[h].todo)
  BY DEF HostSet, Moved

LEMMA PortMoved ==
    ASSUME host \in HostSet, NEW h \in Processes, NEW v \in Nat,
           host' = [host EXCEPT ![h].port = v]
    PROVE  Moved(h, host[h].stage, host[h].memory, host[h].todo)
  BY DEF HostSet, Moved

LEMMA TodoMoved ==
    ASSUME host \in HostSet, NEW h \in Processes, NEW s \in Stages, NEW t \in Seq(Documents),
           host' = [host EXCEPT ![h].stage = s, ![h].todo = t]
    PROVE  Moved(h, s, host[h].memory, t)
  BY DEF HostSet, Moved

LEMMA LoadMoved ==
    ASSUME host \in HostSet, NEW h \in Processes, NEW m \in Memory, NEW t \in Seq(Documents),
           host' = [host EXCEPT ![h].stage = "loaded", ![h].memory = m, ![h].todo = t]
    PROVE  Moved(h, "loaded", m, t)
  BY DEF HostSet, Moved, Stages

LEMMA OffMoved ==
    ASSUME host \in HostSet, NEW h \in Processes, host' = [host EXCEPT ![h] = Off]
    PROVE  Moved(h, "off", None, <<>>)
  BY DEF HostSet, Moved, Stages, Off

LEMMA MemoryReplaced ==
    ASSUME NEW m \in Memory, NEW d \in Documents, NEW x \in DocOf(d)
    PROVE  /\ [m EXCEPT ![d] = x] \in Memory
           /\ [m EXCEPT ![d] = x][d] = x
           /\ \A e \in Documents \ {d} : [m EXCEPT ![d] = x][e] = m[e]
  BY DEF Memory, Documents, DocOf

LEMMA MemoryMoved ==
    ASSUME host \in HostSet, NEW h \in Processes, NEW m \in Memory,
           host' = [host EXCEPT ![h] = [host[h] EXCEPT !.memory = m]]
    PROVE  Moved(h, host[h].stage, m, host[h].todo)
  BY DEF HostSet, Moved

LEMMA FilePut ==
    ASSUME file \in FileSet, NEW d \in Documents, NEW x,
           x = Unreadable \/ x \in DocOf(d),
           file' = [file EXCEPT ![d] = x]
    PROVE  Put(d, x)
<1>1. SettingsDoc \subseteq SettingsFile /\ PlansDoc \subseteq PlansFile
  BY DEF SettingsDoc, SettingsFile, PlansDoc, PlansFile
<1>2. CASE d = "settings"
  BY <1>1, <1>2 DEF FileSet, Documents, DocOf, Put
<1>3. CASE d = "plans"
  BY <1>1, <1>3 DEF FileSet, Documents, DocOf, Put
<1> QED BY <1>2, <1>3 DEF Documents

LEMMA StageAsked ==
    ASSUME request \in RequestSet, NEW c \in Clients, NEW s \in RequestStages,
           request' = [request EXCEPT ![c].stage = s]
    PROVE  Asked(c, s, request[c].op, request[c].copy)
  BY DEF RequestSet, Asked

LEMMA CopyAsked ==
    ASSUME request \in RequestSet, NEW c \in Clients, NEW o \in Operations, NEW x \in CopyOf(o),
           request' = [request EXCEPT ![c] = [stage |-> "copied", op |-> o, copy |-> x]]
    PROVE  Asked(c, "copied", o, x)
  BY DEF RequestSet, Asked, RequestStages, CopyOf, DocOf

LEMMA AnswerAsked ==
    ASSUME request \in RequestSet, NEW c \in Clients, request' = Answer(c)
    PROVE  Asked(c, "none", None, None)
  BY DEF RequestSet, Asked, RequestStages, Answer, NoRequest

(* The documents that a start-up makes of the files, and a change of the   *)
(* owner's.                                                                *)
LEMMA DocumentsLoaded ==
    ASSUME file \in FileSet, fresh \in Nat
    PROVE  LET found == Loaded(file.settings, DefaultSettings(fresh))
               plans == Loaded(file.plans, NoPlans)
           IN  /\ Repaired(found, fresh) \in SettingsDoc
               /\ ~NeedsRepair(found) => Repaired(found, fresh) = found
               /\ Canonical(plans) \in PlansDoc
               /\ found.secret = Empty =>
                      Repaired(found, fresh).secret = fresh + 1
               /\ found.secret # Empty => Repaired(found, fresh).secret = found.secret
<1> DEFINE found == Loaded(file.settings, DefaultSettings(fresh))
           plans == Loaded(file.plans, NoPlans)
<1>1. found \in SettingsFile
  BY ConfigAssumption DEF Loaded, DefaultSettings, FileSet, SettingsFile
<1>2. plans \in PlansFile
  <2>1. NoPlans \in [{} -> {"legacy", "current"}]
    BY DEF NoPlans
  <2>2. NoPlans \in PlansFile
    BY <2>1 DEF PlansFile
  <2> QED BY <2>2 DEF Loaded, FileSet
<1> HIDE DEF found, plans
<1>3. Repaired(found, fresh) \in SettingsDoc
  <2> DEFINE a == IF found.secret = Empty THEN fresh + 1 ELSE found.secret
             b == IF found.instance = Empty THEN fresh + 2 ELSE found.instance
             r == [found EXCEPT !.secret = a]
  <2>1. a \in Nat \ {0} /\ b \in Nat \ {0}
    BY <1>1 DEF SettingsFile, Empty
  <2>2. Repaired(found, fresh) = [r EXCEPT !.instance = b]
    BY DEF Repaired
  <2> HIDE DEF a, b
  <2>3. r \in [secret : Nat \ {0}, instance : Nat, port : Nat]
    BY <1>1, <2>1 DEF SettingsFile
  <2> HIDE DEF r
  <2> QED BY <2>1, <2>2, <2>3 DEF SettingsDoc
<1>4. ~NeedsRepair(found) => Repaired(found, fresh) = found
  BY <1>1 DEF Repaired, SettingsFile, NeedsRepair
<1>5. Canonical(plans) \in PlansDoc
  BY <1>2 DEF Canonical, PlansFile, PlansDoc
<1>6. /\ found.secret = Empty => Repaired(found, fresh).secret = fresh + 1
      /\ found.secret # Empty => Repaired(found, fresh).secret = found.secret
  BY <1>1 DEF Repaired, SettingsFile
<1> QED BY <1>3, <1>4, <1>5, <1>6 DEF found, plans

LEMMA ChangedIsSound ==
    ASSUME NEW m \in Memory, NEW op \in Operations, NEW n \in Nat
    PROVE  /\ DocumentOf(op) \in Documents
           /\ Changed(op, m[DocumentOf(op)], n) \in CopyOf(op)
           /\ DocumentOf(op) = "settings" =>
                Changed(op, m[DocumentOf(op)], n).secret =
                    IF op.kind = "regenerate" THEN n + 1 ELSE m.settings.secret
           /\ op.kind = "regenerate" => DocumentOf(op) = "settings"
<1>1. CASE op.kind = "update"
  <2>1. op.port \in Nat
    BY <1>1, ConfigAssumption DEF Operations
  <2>2. AtLeastOne(op.port) \in Nat
    BY <2>1 DEF AtLeastOne
  <2>3. Changed(op, m[DocumentOf(op)], n) = [m.settings EXCEPT !.port = AtLeastOne(op.port)]
    BY <1>1 DEF Changed, DocumentOf
  <2> QED BY <1>1, <2>2, <2>3 DEF DocumentOf, Documents, CopyOf, DocOf, Memory, SettingsDoc
<1>2. CASE op.kind = "regenerate"
  <2>3. Changed(op, m[DocumentOf(op)], n) = [m.settings EXCEPT !.secret = n + 1]
    BY <1>2 DEF Changed, DocumentOf
  <2> QED BY <1>2, <2>3 DEF DocumentOf, Documents, CopyOf, DocOf, Memory, SettingsDoc
<1>3. CASE op.kind = "save_plan"
  <2> DEFINE old == m.plans
  <2>1. op.plan \in PlanIds
    BY <1>3 DEF Operations
  <2>2. Changed(op, m[DocumentOf(op)], n) =
            [p \in DOMAIN old \cup {op.plan} |-> IF p = op.plan THEN "current" ELSE old[p]]
    BY <1>3 DEF Changed, DocumentOf
  <2>3. PICK S \in SUBSET PlanIds : old \in [S -> {"current"}]
    BY DEF Memory, PlansDoc
  <2> HIDE DEF old
  <2>4. Changed(op, m[DocumentOf(op)], n) \in [S \cup {op.plan} -> {"current"}]
    BY <2>2, <2>3
  <2>5. Changed(op, m[DocumentOf(op)], n) \in PlansDoc
    BY <2>1, <2>4 DEF PlansDoc
  <2> QED BY <1>3, <2>5 DEF DocumentOf, Documents, CopyOf, DocOf
<1>4. CASE op.kind = "delete_plan"
  <2> DEFINE old == m.plans
  <2>2. Changed(op, m[DocumentOf(op)], n) = [p \in DOMAIN old \ {op.plan} |-> old[p]]
    BY <1>4 DEF Changed, DocumentOf
  <2>3. PICK S \in SUBSET PlanIds : old \in [S -> {"current"}]
    BY DEF Memory, PlansDoc
  <2> HIDE DEF old
  <2>4. Changed(op, m[DocumentOf(op)], n) \in [S \ {op.plan} -> {"current"}]
    BY <2>2, <2>3
  <2>5. Changed(op, m[DocumentOf(op)], n) \in PlansDoc
    BY <2>4 DEF PlansDoc
  <2> QED BY <1>4, <2>5 DEF DocumentOf, Documents, CopyOf, DocOf
<1> QED BY <1>1, <1>2, <1>3, <1>4 DEF Operations

(* Loading the files of an owner gives what the owner has.                 *)
LEMMA LoadedAgrees ==
    ASSUME file \in FileSet, NEW m \in Memory, \A d \in Documents : FileHas(file, m, d)
    PROVE  /\ Repaired(Loaded(file.settings, DefaultSettings(fresh)), fresh) = m.settings
           /\ Canonical(Loaded(file.plans, NoPlans)) = m.plans
<1>1. file.settings = m.settings /\ Loaded(file.plans, NoPlans) = m.plans
  BY DEF FileHas, Documents
<1>2. m.settings # Unreadable
  BY UnreadableAssumption DEF Memory, SettingsDoc, SettingsFile
<1>3. Loaded(file.settings, DefaultSettings(fresh)) = m.settings
  BY <1>1, <1>2 DEF Loaded
<1>4. Repaired(m.settings, fresh) = m.settings
  BY DEF Memory, SettingsDoc, Repaired, Empty
<1>5. Canonical(m.plans) = m.plans
  BY DEF Memory, PlansDoc, Canonical
<1> QED BY <1>1, <1>3, <1>4, <1>5

(* What has been written is in the file.                                   *)
LEMMA WrittenIsThere ==
    ASSUME NEW f, NEW m, NEW d \in Documents, m[d] \in DocOf(d), f[d] = m[d]
    PROVE  FileHas(f, m, d)
<1>1. SettingsDoc \subseteq SettingsFile /\ PlansDoc \subseteq PlansFile
  BY DEF SettingsDoc, SettingsFile, PlansDoc, PlansFile
<1>2. m[d] \in SettingsFile \/ m[d] \in PlansFile
  BY <1>1 DEF DocOf
<1>3. m[d] # Unreadable
  BY <1>2, UnreadableAssumption
<1> QED BY <1>3 DEF FileHas, Loaded, Documents

LEMMA FileInit == Init => FileInvariant
<1> SUFFICES ASSUME Init PROVE FileInvariant
  OBVIOUS
<1>2. Shapes
  <2>1. host \in HostSet
    BY DEF Init, HostSet, Off, Stages
  <2>2. request \in RequestSet
    BY DEF Init, RequestSet, RequestStages, NoRequest
  <2>3. file \in FileSet
    <3>1. NoPlans \in [{} -> {"legacy", "current"}]
      BY DEF NoPlans
    <3>2. NoPlans \in PlansFile /\ [p \in PlanIds |-> "legacy"] \in PlansFile
      BY <3>1 DEF PlansFile
    <3> QED BY <3>2, ConfigAssumption DEF Init, Installations, FileSet, SettingsFile, Empty
  <2> QED BY <2>1, <2>2, <2>3 DEF Init, Shapes
<1>3. (\A h \in Processes : host[h].stage = "off") /\ (\A c \in Clients : ~AtWork(c))
  BY DEF Init, Off, AtWork, NoRequest
<1>4. Sound
  BY <1>3 DEF Sound, HasLoaded
<1>5. AgreeInv
  BY <1>3 DEF AgreeInv, Alone, Busy, StartAgrees, Starting, OwnerAgrees, Serving, CopyAgrees,
              AtWork
<1> QED BY <1>2, <1>4, <1>5 DEF FileInvariant

-----------------------------------------------------------------------------
(* One lemma per step of a process.                                        *)
LEMMA BeginKeepsFiles ==
    ASSUME FileInvariant, NEW h \in Processes, Begin(h) PROVE FileInvariant'
<1> USE DEF FileInvariant
<1>1. /\ host[h].stage = "off"
      /\ host' = [host EXCEPT ![h].stage = "port"]
      /\ disturbed' = (disturbed \/ Others(h))
      /\ UNCHANGED <<file, request, fresh>>
  BY DEF Begin
<1>2. Moved(h, "port", host[h].memory, host[h].todo)
  BY <1>1, StageMoved DEF Shapes, Stages
<1>3. Shapes'
  BY <1>1, <1>2 DEF Shapes, Moved
<1>4. \A k \in Processes : Serving(k)' = Serving(k) /\ HasLoaded(k)' = HasLoaded(k)
  BY <1>1, <1>2 DEF Moved, Serving, HasLoaded
<1>5. Sound'
  BY <1>1, <1>2, <1>4 DEF Sound, Moved, AtWork, UnderWay, Up, HasLoaded
<1>6. ASSUME ~disturbed' PROVE (Alone /\ StartAgrees /\ OwnerAgrees /\ CopyAgrees)'
  <2>1. ~disturbed /\ ~Others(h)
    BY <1>1, <1>6
  <2>2. Alone'
    <3>1. Clients \ {h} = Clients
      BY ConfigAssumption DEF Processes
    <3>2. /\ \A k \in Processes \ {h} : ~Busy(k)'
          /\ \A c \in Clients : ~AtWork(c)'
      BY <1>1, <1>2, <2>1, <3>1 DEF Busy, AtWork, Others, Moved
    <3> QED BY <3>2 DEF Alone
  <2>3. StartAgrees'
    BY <1>1, <1>2, <1>4, <2>1 DEF AgreeInv, StartAgrees, Starting, FileHas, Moved, Serving
  <2>4. OwnerAgrees'
    <3>1. \A d : BeingWritten(d) => BeingWritten(d)'
      BY <1>1, <1>2 DEF BeingWritten, Moved
    <3> QED BY <1>1, <1>2, <1>4, <2>1, <3>1 DEF AgreeInv, OwnerAgrees, FileHas, Moved, Serving
  <2>5. CopyAgrees'
    BY <1>1, <2>1 DEF AgreeInv, CopyAgrees
  <2> QED BY <2>2, <2>3, <2>4, <2>5
<1> QED BY <1>3, <1>5, <1>6 DEF AgreeInv

LEMMA ReadPortKeepsFiles ==
    ASSUME FileInvariant, NEW h \in Processes, ReadPort(h) PROVE FileInvariant'
<1> USE DEF FileInvariant
<1>1. UNCHANGED <<file, request, fresh, disturbed>>
  BY DEF ReadPort, history
<1>2. Moved(h, host[h].stage, host[h].memory, host[h].todo)
  <2>1. PICK v \in Nat : host' = [host EXCEPT ![h].port = v]
    BY ConfigAssumption DEF ReadPort, Shapes, FileSet, SettingsFile
  <2> QED BY <2>1, PortMoved DEF Shapes
<1>3. \A k \in Processes : /\ host'[k].stage = host[k].stage
                           /\ host'[k].memory = host[k].memory
                           /\ host'[k].todo = host[k].todo
  BY <1>2 DEF Moved
<1>4. Shapes'
  BY <1>1, <1>2 DEF Shapes, Moved
<1>5. Sound'
  BY <1>1, <1>3 DEF Sound, HasLoaded, AtWork, UnderWay, Up, Serving
<1>6. ASSUME ~disturbed' PROVE (Alone /\ StartAgrees /\ OwnerAgrees /\ CopyAgrees)'
  <2>1. Alone'
    BY <1>1, <1>3, <1>6 DEF AgreeInv, Alone, Busy, AtWork
  <2>2. StartAgrees'
    BY <1>1, <1>3, <1>6 DEF AgreeInv, StartAgrees, Starting, FileHas, Serving
  <2>3. OwnerAgrees'
    BY <1>1, <1>3, <1>6 DEF AgreeInv, OwnerAgrees, FileHas, Serving, BeingWritten
  <2>4. CopyAgrees'
    BY <1>1, <1>6 DEF AgreeInv, CopyAgrees
  <2> QED BY <2>1, <2>2, <2>3, <2>4
<1> QED BY <1>4, <1>5, <1>6 DEF AgreeInv

(* While a start-up is the only one at work, the files are the owner's.    *)
LEMMA FilesOfTheOwner ==
    ASSUME Alone, OwnerAgrees, NEW h \in Processes, Busy(h), host[h].stage # "writing",
           NEW k \in Processes, Serving(k)
    PROVE  \A d \in Documents : FileHas(file, host[k].memory, d)
<1>1. \A d : ~BeingWritten(d)
  BY DEF Alone, BeingWritten, Busy, AtWork
<1> QED BY <1>1 DEF OwnerAgrees

LEMMA JoinedHas ==
    ASSUME NEW a \in Seq(Documents), NEW b \in Seq(Documents)
    PROVE  /\ a \o b \in Seq(Documents)
           /\ \A d : Has(a, d) \/ Has(b, d) => Has(a \o b, d)
<1>1. a \o b \in Seq(Documents) /\ Len(a \o b) = Len(a) + Len(b)
  OBVIOUS
<1>2. Len(a) \in Nat /\ Len(b) \in Nat
  OBVIOUS
<1>3. \A i \in 1..Len(a) : (a \o b)[i] = a[i]
  OBVIOUS
<1>4. \A i \in 1..Len(b) : (a \o b)[Len(a) + i] = b[i]
  OBVIOUS
<1> DEFINE e == a \o b
<1> HIDE DEF e
<1>5. ASSUME NEW d, Has(a, d) PROVE Has(e, d)
  BY <1>1, <1>2, <1>3, <1>5 DEF Has, e
<1>6. ASSUME NEW d, Has(b, d) PROVE Has(e, d)
  <2>1. PICK i \in 1..Len(b) : b[i] = d
    BY <1>6 DEF Has
  <2>2. e[Len(a) + i] = d /\ Len(a) + i \in 1..Len(e)
    BY <1>1, <1>2, <1>4, <2>1 DEF e
  <2> QED BY <2>2 DEF Has
<1> QED BY <1>1, <1>5, <1>6 DEF e

LEMMA OneIsThere == \A d : Has(<<d>>, d)
  BY DEF Has

LEMMA LoadKeepsFiles ==
    ASSUME FileInvariant, NEW h \in Processes, Load(h) PROVE FileInvariant'
<1> USE DEF FileInvariant
<1> DEFINE found == Loaded(file.settings, DefaultSettings(fresh))
           settings == Repaired(found, fresh)
           plans == Loaded(file.plans, NoPlans)
           m == [settings |-> settings, plans |-> Canonical(plans)]
           t == (IF NeedsRepair(found) THEN <<"settings">> ELSE <<>>)
                    \o (IF plans # Canonical(plans) THEN <<"plans">> ELSE <<>>)
                    \o <<"settings">>
<1>1. /\ host[h].stage = "port"
      /\ host' = [host EXCEPT ![h].stage = "loaded", ![h].memory = m, ![h].todo = t]
      /\ fresh' \in {fresh, fresh + 2}
      /\ UNCHANGED <<file, request, disturbed>>
  BY DEF Load
<1>2. file \in FileSet /\ fresh \in Nat
  BY DEF Shapes
<1>3. m \in Memory
  BY <1>2, DocumentsLoaded DEF Memory
<1>4. m.settings = settings /\ m.plans = Canonical(plans)
  OBVIOUS
<1>5. /\ t \in Seq(Documents)
      /\ Has(t, "settings")
      /\ plans # Canonical(plans) => Has(t, "plans")
  <2> DEFINE a == IF NeedsRepair(found) THEN <<"settings">> ELSE <<>>
             b == IF plans # Canonical(plans) THEN <<"plans">> ELSE <<>>
  <2>1. a \in Seq(Documents) /\ b \in Seq(Documents) /\ <<"settings">> \in Seq(Documents)
    <3>1. <<>> \in Seq(Documents)
      OBVIOUS
    <3>2. <<"settings">> \in Seq(Documents) /\ <<"plans">> \in Seq(Documents)
      BY DEF Documents
    <3> QED BY <3>1, <3>2
  <2>2. Has(<<"settings">>, "settings") /\ (plans # Canonical(plans) => Has(b, "plans"))
    <3>1. Has(<<"settings">>, "settings") /\ Has(<<"plans">>, "plans")
      BY OneIsThere
    <3> QED BY <3>1
  <2> DEFINE e == a \o b
  <2>3. t = e \o <<"settings">>
    OBVIOUS
  <2> HIDE DEF a, b, t
  <2>4. e \in Seq(Documents) /\ (Has(b, "plans") => Has(e, "plans"))
    BY <2>1, JoinedHas
  <2> HIDE DEF e
  <2> QED BY <2>1, <2>2, <2>3, <2>4, JoinedHas
<1>6. ~Has(t, "plans") => FileHas(file, m, "plans")
  BY <1>5 DEF FileHas
<1>7. ASSUME NEW k \in Processes, Serving(k), ~disturbed PROVE host[k].memory = m
  <2>1. host[k].memory \in Memory
    BY <1>7 DEF Sound, Serving, HasLoaded
  <2>2. \A d \in Documents : FileHas(file, host[k].memory, d)
    BY <1>1, <1>7, FilesOfTheOwner DEF AgreeInv, Busy
  <2>3. settings = host[k].memory.settings /\ Canonical(plans) = host[k].memory.plans
    BY <1>2, <2>1, <2>2, LoadedAgrees
  <2> QED BY <1>3, <1>4, <2>1, <2>3 DEF Memory
<1> HIDE DEF m, t, settings, plans, found
<1>8. Moved(h, "loaded", m, t)
  BY <1>1, <1>3, <1>5, LoadMoved DEF Shapes
<1>9. Shapes'
  BY <1>1, <1>2, <1>8 DEF Shapes, Moved
<1>10. Sound'
  BY <1>1, <1>3, <1>8 DEF Sound, Moved, HasLoaded, AtWork, UnderWay, Up, Serving
<1>11. ASSUME ~disturbed' PROVE (Alone /\ StartAgrees /\ OwnerAgrees /\ CopyAgrees)'
  <2>1. ~disturbed /\ Alone /\ StartAgrees /\ OwnerAgrees /\ CopyAgrees
    BY <1>1, <1>11 DEF AgreeInv
  <2>2. Alone'
    <3>1. \A k \in Processes : Busy(k)' => Busy(k)
      BY <1>1, <1>8 DEF Busy, Moved
    <3> QED BY <1>1, <2>1, <3>1 DEF Alone, AtWork
  <2>3. StartAgrees'
    <3> SUFFICES ASSUME NEW j \in Processes, Starting(j)'
                 PROVE  /\ \A d \in Documents :
                               Has(host'[j].todo, d) \/ FileHas(file', host'[j].memory, d)
                        /\ \A k \in Processes :
                               Serving(k)' => host'[k].memory = host'[j].memory
      BY DEF StartAgrees
    <3>1. j = h
      BY <1>1, <1>8, <2>1 DEF Moved, Starting, Alone, Busy
    <3>2. \A d \in Documents : Has(host'[h].todo, d) \/ FileHas(file', host'[h].memory, d)
      BY <1>1, <1>5, <1>6, <1>8 DEF Documents, Moved, FileHas, Has
    <3>3. \A k \in Processes : Serving(k)' => host'[k].memory = m
      BY <1>7, <1>8, <2>1 DEF Moved, Serving
    <3> QED BY <1>8, <3>1, <3>2, <3>3 DEF Moved
  <2>4. OwnerAgrees'
    <3>1. \A k \in Processes : Serving(k)' => Serving(k) /\ host'[k] = host[k]
      BY <1>8 DEF Moved, Serving
    <3>2. \A d : BeingWritten(d) => BeingWritten(d)'
      BY <1>1, <1>8 DEF BeingWritten, Moved
    <3> QED BY <1>1, <2>1, <3>1, <3>2 DEF OwnerAgrees, FileHas
  <2>5. CopyAgrees'
    BY <1>1, <2>1 DEF CopyAgrees
  <2> QED BY <2>2, <2>3, <2>4, <2>5
<1> QED BY <1>9, <1>10, <1>11 DEF AgreeInv

(* A file that one of the others does not touch, and a step that moves no  *)
(* owner.                                                                  *)
LEMMA OtherFileStays ==
    ASSUME NEW d \in Documents, NEW x, Put(d, x), NEW m, NEW e \in Documents, e # d,
           FileHas(file, m, e)
    PROVE  FileHas(file', m, e)
  BY DEF Put, FileHas, Documents

LEMMA HeadAndTail ==
    ASSUME NEW s \in Seq(Documents), s # <<>>
    PROVE  /\ Head(s) \in Documents /\ Tail(s) \in Seq(Documents)
           /\ Has(s, Head(s))
           /\ \A d : Has(s, d) => d = Head(s) \/ Has(Tail(s), d)
<1>1. /\ Head(s) \in Documents /\ Tail(s) \in Seq(Documents)
      /\ Head(s) = s[1] /\ Len(s) \in Nat \ {0} /\ Len(Tail(s)) = Len(s) - 1
      /\ \A i \in 1..(Len(s) - 1) : Tail(s)[i] = s[i + 1]
  OBVIOUS
<1>2. Has(s, Head(s))
  BY <1>1 DEF Has
<1>3. ASSUME NEW d, Has(s, d), d # Head(s) PROVE Has(Tail(s), d)
  <2>1. PICK i \in 1..Len(s) : s[i] = d
    BY <1>3 DEF Has
  <2>2. i # 1
    BY <1>1, <1>3, <2>1
  <2>3. i - 1 \in 1..(Len(s) - 1) /\ Tail(s)[i - 1] = s[(i - 1) + 1] /\ (i - 1) + 1 = i
    BY <1>1, <2>2
  <2> QED BY <1>1, <2>1, <2>3 DEF Has
<1> QED BY <1>1, <1>2, <1>3

LEMMA OpenAtStartKeepsFiles ==
    ASSUME FileInvariant, NEW h \in Processes, OpenAtStart(h) PROVE FileInvariant'
<1> USE DEF FileInvariant
<1> DEFINE t == host[h].todo
           d == Head(t)
<1>1. /\ host[h].stage = "loaded" /\ t # <<>>
      /\ file' = [file EXCEPT ![d] = Unreadable]
      /\ host' = [host EXCEPT ![h].stage = "writing"]
      /\ UNCHANGED <<request, fresh, disturbed>>
  BY DEF OpenAtStart, history
<1>2. t \in Seq(Documents)
  BY DEF Shapes, HostSet
<1>3. d \in Documents /\ Has(t, d)
  BY <1>1, <1>2, HeadAndTail
<1>4. Put(d, Unreadable)
  BY <1>1, <1>3, FilePut DEF Shapes
<1>5. Moved(h, "writing", host[h].memory, t)
  BY <1>1, StageMoved DEF Shapes, Stages
<1>6. Shapes'
  BY <1>1, <1>4, <1>5 DEF Shapes, Moved, Put
<1>7. \A k \in Processes : /\ Serving(k)' = Serving(k) /\ HasLoaded(k)' = HasLoaded(k)
                           /\ Busy(k)' = Busy(k) /\ Starting(k)' = Starting(k)
                           /\ host'[k].memory = host[k].memory
                           /\ host'[k].todo = host[k].todo
  BY <1>1, <1>5 DEF Moved, Serving, HasLoaded, Busy, Starting
<1>8. Sound'
  BY <1>1, <1>5, <1>7 DEF Sound, Moved, AtWork, UnderWay, Up
<1> HIDE DEF d, t
<1>9. ASSUME ~disturbed' PROVE (Alone /\ StartAgrees /\ OwnerAgrees /\ CopyAgrees)'
  <2>1. ~disturbed /\ Alone /\ StartAgrees /\ OwnerAgrees /\ CopyAgrees
    BY <1>1, <1>9 DEF AgreeInv
  <2>2. Alone'
    BY <1>1, <1>7, <2>1 DEF Alone, AtWork
  <2>3. \A k \in Processes : Starting(k) => k = h
    BY <1>1, <2>1 DEF Alone, Busy, Starting
  <2>4. StartAgrees'
    <3>1. \A k \in Processes : Serving(k)' => host'[k].memory = host'[h].memory
      BY <1>1, <1>7, <2>1 DEF StartAgrees, Starting
    <3>2. ASSUME NEW e \in Documents PROVE Has(t, e) \/ FileHas(file', host'[h].memory, e)
      BY <1>1, <1>3, <1>4, <1>7, <2>1, <3>2, OtherFileStays DEF StartAgrees, Starting, t
    <3>3. host'[h].todo = t
      BY <1>7 DEF t
    <3> QED BY <1>7, <2>3, <3>1, <3>2, <3>3 DEF StartAgrees
  <2>5. OwnerAgrees'
    <3>1. \A e : ~BeingWritten(e)
      BY <1>1, <2>1 DEF Alone, BeingWritten, Busy, AtWork
    <3>2. \A e : e = d => BeingWritten(e)'
      BY <1>5 DEF Moved, BeingWritten, d, t
    <3>3. ASSUME NEW k \in Processes, Serving(k)', NEW e \in Documents
          PROVE  FileHas(file', host'[k].memory, e) \/ BeingWritten(e)'
      <4>1. CASE e = d
        BY <3>2, <4>1
      <4>2. CASE e # d
        <5>1. FileHas(file, host[k].memory, e)
          BY <1>7, <2>1, <3>1, <3>3 DEF OwnerAgrees
        <5>2. FileHas(file', host[k].memory, e)
          BY <1>3, <1>4, <3>3, <4>2, <5>1, OtherFileStays
        <5> QED BY <1>7, <5>2
      <4> QED BY <4>1, <4>2
    <3> QED BY <3>3 DEF OwnerAgrees
  <2>6. CopyAgrees'
    BY <1>1, <2>1 DEF CopyAgrees, Alone, Busy, AtWork
  <2> QED BY <2>2, <2>4, <2>5, <2>6
<1> QED BY <1>6, <1>8, <1>9 DEF AgreeInv

LEMMA WriteAtStartKeepsFiles ==
    ASSUME FileInvariant, NEW h \in Processes, WriteAtStart(h) PROVE FileInvariant'
<1> USE DEF FileInvariant
<1> DEFINE t == host[h].todo
           d == Head(t)
           m == host[h].memory
<1>1. /\ host[h].stage = "writing"
      /\ file' = [file EXCEPT ![d] = m[d]]
      /\ host' = [host EXCEPT ![h].stage = "loaded", ![h].todo = Tail(t)]
      /\ UNCHANGED <<request, fresh, disturbed>>
  BY DEF WriteAtStart, history
<1>2. t \in Seq(Documents) /\ t # <<>> /\ m \in Memory
  BY <1>1 DEF Shapes, HostSet, Sound, HasLoaded
<1>3. d \in Documents /\ Tail(t) \in Seq(Documents) /\ \A e : Has(t, e) => e = d \/ Has(Tail(t), e)
  BY <1>2, HeadAndTail
<1>4. m[d] \in DocOf(d)
  BY <1>2, <1>3 DEF Memory, DocOf, Documents
<1>5. Put(d, m[d])
  BY <1>1, <1>3, <1>4, FilePut DEF Shapes
<1>6. Moved(h, "loaded", m, Tail(t))
  BY <1>1, <1>3, TodoMoved DEF Shapes, Stages
<1>7. Shapes'
  BY <1>1, <1>5, <1>6 DEF Shapes, Moved, Put
<1>8. \A k \in Processes : /\ Serving(k)' = Serving(k) /\ HasLoaded(k)' = HasLoaded(k)
                           /\ Busy(k)' = Busy(k) /\ Starting(k)' = Starting(k)
                           /\ host'[k].memory = host[k].memory
  <2>1. host'[h].stage = "loaded" /\ host'[h].memory = m
    BY <1>6 DEF Moved
  <2>2. \A k \in Processes \ {h} : host'[k] = host[k]
    BY <1>6 DEF Moved
  <2>3. host[h].stage = "writing"
    BY <1>1
  <2> QED BY <2>1, <2>2, <2>3 DEF Serving, HasLoaded, Busy, Starting
<1>9. Sound'
  BY <1>1, <1>6, <1>8 DEF Sound, Moved, AtWork, UnderWay, Up
<1>10. FileHas(file', m, d)
  <2>1. file'[d] = m[d]
    BY <1>5 DEF Put
  <2> HIDE DEF m, d
  <2> QED BY <1>3, <1>4, <2>1, WrittenIsThere
<1>11. ASSUME ~disturbed' PROVE (Alone /\ StartAgrees /\ OwnerAgrees /\ CopyAgrees)'
  <2>1. ~disturbed /\ Alone /\ StartAgrees /\ OwnerAgrees /\ CopyAgrees
    BY <1>1, <1>11 DEF AgreeInv
  <2>2. Alone'
    BY <1>1, <1>8, <2>1 DEF Alone, AtWork
  <2>3. \A k \in Processes : Starting(k) => k = h
    BY <1>1, <2>1 DEF Alone, Busy, Starting
  <2>0. host'[h].memory = m /\ host'[h].todo = Tail(t)
    BY <1>6 DEF Moved
  <2>4. \A k \in Processes : Serving(k) => host[k].memory = m
    BY <1>1, <2>1 DEF StartAgrees, Starting
  <2>5. ASSUME NEW e \in Documents PROVE Has(t, e) \/ FileHas(file, m, e)
    BY <1>1, <2>1, <2>5 DEF StartAgrees, Starting
  <2> HIDE DEF t, d, m
  <2>6. StartAgrees'
    <3>1. \A k \in Processes : Serving(k)' => host'[k].memory = host'[h].memory
      BY <1>8, <2>4, <2>0
    <3>2. ASSUME NEW e \in Documents PROVE Has(Tail(t), e) \/ FileHas(file', m, e)
      BY <1>3, <1>5, <1>10, <2>5, <3>2, OtherFileStays
    <3> QED BY <1>8, <2>3, <2>0, <3>1, <3>2 DEF StartAgrees
  <2>7. OwnerAgrees'
    <3>1. \A e \in Documents : e # d => ~BeingWritten(e)
      BY <1>1, <2>1 DEF Alone, BeingWritten, Busy, AtWork, d, t
    <3>2. ASSUME NEW k \in Processes, Serving(k)', NEW e \in Documents
          PROVE  FileHas(file', host'[k].memory, e)
      <4>1. host'[k].memory = m
        BY <1>8, <2>4, <3>2
      <4>2. e # d => FileHas(file, m, e)
        BY <1>8, <2>1, <2>4, <3>1, <3>2 DEF OwnerAgrees
      <4>3. FileHas(file', m, e)
        BY <1>3, <1>5, <1>10, <3>2, <4>2, OtherFileStays
      <4> QED BY <4>1, <4>3
    <3> QED BY <3>2 DEF OwnerAgrees
  <2>8. CopyAgrees'
    BY <1>1, <2>1 DEF CopyAgrees, Alone, Busy, AtWork
  <2> QED BY <2>2, <2>6, <2>7, <2>8
<1> QED BY <1>7, <1>9, <1>11 DEF AgreeInv

LEMMA FailAtStartKeepsFiles ==
    ASSUME FileInvariant, NEW h \in Processes, FailAtStart(h) PROVE FileInvariant'
<1> USE DEF FileInvariant
<1> DEFINE t == host[h].todo
<1>1. /\ host[h].stage \in {"loaded", "writing"}
      /\ host[h].stage = "loaded" => t # <<>>
      /\ host' = [host EXCEPT ![h].stage = "loaded", ![h].todo = Tail(t)]
      /\ disturbed'
      /\ UNCHANGED <<file, request, fresh>>
  BY DEF FailAtStart
<1>2. t \in Seq(Documents) /\ t # <<>>
  BY <1>1 DEF Shapes, HostSet, Sound
<1>3. Tail(t) \in Seq(Documents)
  BY <1>2, HeadAndTail
<1>4. Moved(h, "loaded", host[h].memory, Tail(t))
  BY <1>1, <1>3, TodoMoved DEF Shapes, Stages
<1>5. Shapes'
  BY <1>1, <1>4 DEF Shapes, Moved
<1>6. Sound'
  BY <1>1, <1>4 DEF Sound, Moved, AtWork, UnderWay, Up, Serving, HasLoaded
<1> QED BY <1>1, <1>5, <1>6 DEF AgreeInv

LEMMA ServeKeepsFiles ==
    ASSUME FileInvariant, NEW h \in Processes, Serve(h) PROVE FileInvariant'
<1> USE DEF FileInvariant
<1>1. /\ host[h].stage = "loaded" /\ host[h].todo = <<>>
      /\ UNCHANGED <<file, request, fresh, disturbed>>
  BY DEF Serve, history
<1>2. PICK s \in {"serving", "client"} : host' = [host EXCEPT ![h].stage = s]
  BY DEF Serve
<1>3. Moved(h, s, host[h].memory, host[h].todo)
  BY <1>2, StageMoved DEF Shapes, Stages
<1>4. Shapes'
  BY <1>1, <1>3 DEF Shapes, Moved
<1>5. \A k \in Processes : /\ Serving(k) => Serving(k)'
                           /\ HasLoaded(k)' = HasLoaded(k)
                           /\ host'[k].memory = host[k].memory
                           /\ host'[k].todo = host[k].todo
                           /\ Busy(k)' => Busy(k) /\ k # h
                           /\ Starting(k)' => Starting(k) /\ k # h
                           /\ Serving(k)' => Serving(k) \/ k = h
                           /\ host'[k].stage = "writing" <=> host[k].stage = "writing"
  BY <1>1, <1>3 DEF Moved, Serving, HasLoaded, Busy, Starting
<1>6. Sound'
  BY <1>1, <1>5 DEF Sound, AtWork, UnderWay, Up
<1>7. ASSUME ~disturbed' PROVE (Alone /\ StartAgrees /\ OwnerAgrees /\ CopyAgrees)'
  <2>1. ~disturbed /\ Alone /\ StartAgrees /\ OwnerAgrees /\ CopyAgrees
    BY <1>1, <1>7 DEF AgreeInv
  <2>2. Alone'
    BY <1>1, <1>5, <2>1 DEF Alone, AtWork
  <2>3. StartAgrees'
    BY <1>1, <1>5, <2>1 DEF StartAgrees, Starting, Alone, Busy
  <2>4. OwnerAgrees'
    <3>1. \A d : BeingWritten(d)' <=> BeingWritten(d)
      BY <1>1, <1>5 DEF BeingWritten
    <3>2. \A d \in Documents : FileHas(file, host[h].memory, d)
      <4>1. \A d : ~Has(host[h].todo, d)
        BY <1>1 DEF Has
      <4> QED BY <1>1, <2>1, <4>1 DEF StartAgrees, Starting
    <3> QED BY <1>1, <1>5, <2>1, <3>1, <3>2 DEF OwnerAgrees
  <2>5. CopyAgrees'
    BY <1>1, <2>1 DEF CopyAgrees
  <2> QED BY <2>2, <2>3, <2>4, <2>5
<1> QED BY <1>4, <1>6, <1>7 DEF AgreeInv

LEMMA StopKeepsFiles ==
    ASSUME FileInvariant, OneOwner, NEW h \in Processes, Stop(h) PROVE FileInvariant'
<1> USE DEF FileInvariant
<1>1. /\ host' = [host EXCEPT ![h] = Off]
      /\ request' = IF Serving(h) THEN [c \in Clients |-> NoRequest] ELSE request
      /\ disturbed' = (disturbed \/ host[h].stage = "writing"
                       \/ (Serving(h) /\ \E c \in Clients : request[c].stage = "writing"))
      /\ UNCHANGED <<file, fresh>>
  BY DEF Stop
<1>2. Moved(h, "off", None, <<>>)
  BY <1>1, OffMoved DEF Shapes
<1>3. \A c \in Clients : \/ ~Serving(h) /\ request'[c] = request[c]
                         \/ Serving(h) /\ ~AtWork(c)' /\ request'[c].stage = "none"
  BY <1>1 DEF AtWork, NoRequest
<1>4. Shapes'
  <2>1. request' \in RequestSet
    BY <1>1 DEF Shapes, RequestSet, NoRequest, RequestStages
  <2> QED BY <1>1, <1>2, <2>1 DEF Shapes, Moved
<1>5. \A k \in Processes : /\ Serving(k)' => Serving(k) /\ k # h
                           /\ HasLoaded(k)' => HasLoaded(k) /\ k # h
                           /\ Busy(k)' => Busy(k) /\ k # h
                           /\ Starting(k)' => Starting(k) /\ k # h
                           /\ host'[k].stage = "writing" => k # h
                           /\ k # h => host'[k] = host[k]
  BY <1>2 DEF Moved, Serving, HasLoaded, Busy, Starting
<1>6. Sound'
  <2>1. \A c \in Clients : AtWork(c)' => UnderWay(c)'
    <3>1. ASSUME NEW c \in Clients, AtWork(c)' PROVE UnderWay(c)'
      <4>1. ~Serving(h) /\ request'[c] = request[c]
        BY <1>3, <3>1
      <4>2. UnderWay(c)
        BY <3>1, <4>1 DEF Sound, AtWork
      <4>3. Up'
        BY <1>5, <4>1, <4>2 DEF UnderWay, Up, Serving
      <4> QED BY <4>1, <4>2, <4>3 DEF UnderWay
    <3> QED BY <3>1
  <2> QED BY <1>5, <2>1 DEF Sound
<1>7. ASSUME ~disturbed' PROVE (Alone /\ StartAgrees /\ OwnerAgrees /\ CopyAgrees)'
  <2>1. /\ ~disturbed /\ Alone /\ StartAgrees /\ OwnerAgrees /\ CopyAgrees
        /\ host[h].stage # "writing"
    BY <1>1, <1>7 DEF AgreeInv
  <2>2. Alone'
    BY <1>3, <1>5, <2>1 DEF Alone, AtWork
  <2>3. StartAgrees'
    BY <1>1, <1>5, <2>1 DEF StartAgrees
  <2>4. OwnerAgrees'
    <3>1. ASSUME NEW k \in Processes, Serving(k)', NEW d \in Documents
          PROVE  FileHas(file', host'[k].memory, d) \/ BeingWritten(d)'
      <4>1. Serving(k) /\ k # h /\ ~Serving(h) /\ host'[k] = host[k]
        BY <1>5, <3>1 DEF OneOwner
      <4>2. BeingWritten(d) => BeingWritten(d)'
        BY <1>3, <1>5, <2>1, <4>1 DEF BeingWritten
      <4> QED BY <1>1, <2>1, <4>1, <4>2 DEF OwnerAgrees
    <3> QED BY <3>1 DEF OwnerAgrees
  <2>5. CopyAgrees'
    BY <1>1, <1>3, <2>1 DEF CopyAgrees, AtWork
  <2> QED BY <2>2, <2>3, <2>4, <2>5
<1> QED BY <1>4, <1>6, <1>7 DEF AgreeInv

-----------------------------------------------------------------------------
(* One lemma per step of a request.                                        *)
LEMMA SessionKeepsFiles ==
    ASSUME FileInvariant, fresh' \in Nat, UNCHANGED <<file, host, request, disturbed>>
    PROVE  FileInvariant'
<1>1. Shapes' /\ Sound'
  BY DEF FileInvariant, Shapes, Sound, AtWork, UnderWay, Up, Serving, HasLoaded
<1>2. AgreeInv'
  BY DEF FileInvariant, AgreeInv, Alone, StartAgrees, OwnerAgrees, CopyAgrees, Busy, AtWork,
         Serving, Starting, BeingWritten
<1> QED BY <1>1, <1>2 DEF FileInvariant

LEMMA CopyKeepsFiles ==
    ASSUME FileInvariant, NEW c \in Clients, NEW op \in Operations, Copy(c, op)
    PROVE  FileInvariant'
<1> USE DEF FileInvariant
<1> DEFINE d == DocumentOf(op)
           x == Changed(op, host[Owner].memory[d], fresh)
<1>1. /\ Up
      /\ request[c].stage = "none"
      /\ request' = [request EXCEPT ![c] = [stage |-> "copied", op |-> op, copy |-> x]]
      /\ fresh' \in {fresh, fresh + 1}
      /\ disturbed' = (disturbed \/ Others(c))
      /\ UNCHANGED <<file, host>>
  BY DEF Copy
<1>2. host[Owner].memory \in Memory
  BY <1>1, OwnerServes DEF Sound, Serving, HasLoaded
<1>3. x \in CopyOf(op)
  BY <1>2, ChangedIsSound DEF Shapes
<1> HIDE DEF x
<1>4. Asked(c, "copied", op, x)
  BY <1>1, <1>3, CopyAsked DEF Shapes
<1>5. Shapes'
  BY <1>1, <1>4 DEF Shapes, Asked
<1>6. Sound'
  BY <1>1, <1>3, <1>4 DEF Sound, Asked, AtWork, UnderWay, Up, Serving, HasLoaded
<1>7. ASSUME ~disturbed' PROVE (Alone /\ StartAgrees /\ OwnerAgrees /\ CopyAgrees)'
  <2>1. /\ ~disturbed /\ Alone /\ StartAgrees /\ OwnerAgrees /\ CopyAgrees
        /\ ~Others(c)
    BY <1>1, <1>7 DEF AgreeInv
  <2>2. Alone'
    <3>1. Processes \ {c} = Processes
      BY ConfigAssumption DEF Processes
    <3>2. /\ \A k \in Processes : ~Busy(k)'
          /\ \A k \in Clients \ {c} : ~AtWork(k)'
      BY <1>1, <1>4, <2>1, <3>1 DEF Busy, AtWork, Others, Asked
    <3> QED BY <3>2 DEF Alone
  <2>3. StartAgrees'
    BY <1>1, <2>1 DEF StartAgrees, Starting, Serving
  <2>4. OwnerAgrees'
    <3>1. \A e : BeingWritten(e) => BeingWritten(e)'
      BY <1>1, <1>4 DEF BeingWritten, Asked
    <3> QED BY <1>1, <2>1, <3>1 DEF OwnerAgrees, Serving
  <2>5. CopyAgrees'
    BY <1>1, <1>4, <2>1 DEF CopyAgrees, Asked
  <2> QED BY <2>2, <2>3, <2>4, <2>5
<1> QED BY <1>5, <1>6, <1>7 DEF AgreeInv

LEMMA OpenKeepsFiles ==
    ASSUME FileInvariant, NEW c \in Clients, Open(c) PROVE FileInvariant'
<1> USE DEF FileInvariant
<1>1. PICK d : /\ d = DocumentOf(request[c].op)
               /\ file' = [file EXCEPT ![d] = Unreadable]
  BY DEF Open
<1>2. /\ request[c].stage = "copied"
      /\ request' = [request EXCEPT ![c].stage = "writing"]
      /\ UNCHANGED <<host, fresh, disturbed>>
  BY DEF Open, history
<1>3. d \in Documents
  BY <1>1 DEF DocumentOf, Documents
<1>4. Put(d, Unreadable)
  BY <1>1, <1>3, FilePut DEF Shapes
<1>5. Asked(c, "writing", request[c].op, request[c].copy)
  BY <1>2, StageAsked DEF Shapes, RequestStages
<1>6. Shapes'
  BY <1>2, <1>4, <1>5 DEF Shapes, Put, Asked
<1>7. Sound'
  BY <1>2, <1>5 DEF Sound, Asked, AtWork, UnderWay, Up, Serving, HasLoaded
<1>8. ASSUME ~disturbed' PROVE (Alone /\ StartAgrees /\ OwnerAgrees /\ CopyAgrees)'
  <2>1. /\ ~disturbed /\ Alone /\ StartAgrees /\ OwnerAgrees /\ CopyAgrees /\ AtWork(c)
    BY <1>2, <1>8 DEF AgreeInv, AtWork
  <2>2. /\ \A k \in Clients : AtWork(k)' => k = c
        /\ \A k \in Processes : ~Busy(k) /\ ~Busy(k)'
    BY <1>2, <1>5, <2>1 DEF Alone, AtWork, Busy, Asked
  <2>3. Alone' /\ StartAgrees'
    BY <2>2 DEF Alone, StartAgrees, Starting, Busy
  <2>4. OwnerAgrees'
    <3>1. \A e : ~BeingWritten(e)
      BY <1>2, <2>1, <2>2 DEF BeingWritten, Alone, AtWork, Busy
    <3>2. BeingWritten(d)'
      BY <1>1, <1>5 DEF BeingWritten, Asked
    <3>3. ASSUME NEW k \in Processes, Serving(k)', NEW e \in Documents, e # d
          PROVE  FileHas(file', host'[k].memory, e)
      <4>1. FileHas(file, host[k].memory, e)
        BY <1>2, <2>1, <3>1, <3>3 DEF OwnerAgrees, Serving
      <4>2. FileHas(file', host[k].memory, e)
        BY <1>3, <1>4, <3>3, <4>1, OtherFileStays
      <4> QED BY <1>2, <4>2
    <3> QED BY <3>2, <3>3 DEF OwnerAgrees
  <2>5. CopyAgrees'
    BY <1>5, <2>2 DEF CopyAgrees, Asked, AtWork
  <2> QED BY <2>3, <2>4, <2>5
<1> QED BY <1>6, <1>7, <1>8 DEF AgreeInv

LEMMA WriteKeepsFiles ==
    ASSUME FileInvariant, NEW c \in Clients, Write(c) PROVE FileInvariant'
<1> USE DEF FileInvariant
<1>1. PICK d, x : /\ d = DocumentOf(request[c].op) /\ x = request[c].copy
                  /\ file' = [file EXCEPT ![d] = x]
  BY DEF Write
<1>2. /\ request[c].stage = "writing"
      /\ request' = [request EXCEPT ![c].stage = "written"]
      /\ UNCHANGED <<host, fresh, disturbed>>
  BY DEF Write, history
<1>3. d \in Documents /\ x \in DocOf(d)
  BY <1>1, <1>2 DEF DocumentOf, Documents, Sound, AtWork, UnderWay, CopyOf
<1>4. Put(d, x)
  BY <1>1, <1>3, FilePut DEF Shapes
<1>5. Asked(c, "written", request[c].op, request[c].copy)
  BY <1>2, StageAsked DEF Shapes, RequestStages
<1>6. Shapes'
  BY <1>2, <1>4, <1>5 DEF Shapes, Put, Asked
<1>7. Sound'
  BY <1>2, <1>5 DEF Sound, Asked, AtWork, UnderWay, Up, Serving, HasLoaded
<1>8. ASSUME ~disturbed' PROVE (Alone /\ StartAgrees /\ OwnerAgrees /\ CopyAgrees)'
  <2>1. /\ ~disturbed /\ Alone /\ StartAgrees /\ OwnerAgrees /\ CopyAgrees /\ AtWork(c)
    BY <1>2, <1>8 DEF AgreeInv, AtWork
  <2>2. /\ \A k \in Clients : AtWork(k) \/ AtWork(k)' => k = c
        /\ \A k \in Processes : ~Busy(k) /\ ~Busy(k)'
    BY <1>2, <1>5, <2>1 DEF Alone, AtWork, Busy, Asked
  <2>3. Alone' /\ StartAgrees'
    BY <2>2 DEF Alone, StartAgrees, Starting, Busy
  <2>4. OwnerAgrees'
    <3>1. \A e : BeingWritten(e) => e = d
      BY <1>1, <2>1, <2>2 DEF BeingWritten, AtWork, Busy
    <3>2. BeingWritten(d)'
      BY <1>1, <1>5 DEF BeingWritten, Asked
    <3>3. ASSUME NEW k \in Processes, Serving(k)', NEW e \in Documents, e # d
          PROVE  FileHas(file', host'[k].memory, e)
      <4>1. FileHas(file, host[k].memory, e)
        BY <1>2, <2>1, <3>1, <3>3 DEF OwnerAgrees, Serving
      <4>2. FileHas(file', host[k].memory, e)
        BY <1>3, <1>4, <3>3, <4>1, OtherFileStays
      <4> QED BY <1>2, <4>2
    <3> QED BY <3>2, <3>3 DEF OwnerAgrees
  <2>5. CopyAgrees'
    BY <1>1, <1>4, <1>5, <2>2 DEF CopyAgrees, Asked, AtWork, Put
  <2> QED BY <2>3, <2>4, <2>5
<1> QED BY <1>6, <1>7, <1>8 DEF AgreeInv

LEMMA FailKeepsFiles ==
    ASSUME FileInvariant, NEW c \in Clients, Fail(c) PROVE FileInvariant'
<1> USE DEF FileInvariant
<1>1. /\ request[c].stage \in {"copied", "writing"}
      /\ request' = Answer(c)
      /\ disturbed' = (disturbed \/ request[c].stage = "writing")
      /\ UNCHANGED <<file, host, fresh>>
  BY DEF Fail
<1>2. Asked(c, "none", None, None)
  BY <1>1, AnswerAsked DEF Shapes
<1>3. Shapes'
  BY <1>1, <1>2 DEF Shapes, Asked
<1>4. Sound'
  BY <1>1, <1>2 DEF Sound, Asked, AtWork, UnderWay, Up, Serving, HasLoaded
<1>5. ASSUME ~disturbed' PROVE (Alone /\ StartAgrees /\ OwnerAgrees /\ CopyAgrees)'
  <2>1. /\ ~disturbed /\ Alone /\ StartAgrees /\ OwnerAgrees /\ CopyAgrees
        /\ request[c].stage = "copied"
    BY <1>1, <1>5 DEF AgreeInv
  <2>2. Alone'
    BY <1>1, <1>2, <2>1 DEF Alone, AtWork, Busy, Asked
  <2>3. StartAgrees'
    BY <1>1, <2>1 DEF StartAgrees, Starting, Serving
  <2>4. OwnerAgrees'
    <3>1. \A e : BeingWritten(e) => BeingWritten(e)'
      BY <1>1, <1>2, <2>1 DEF BeingWritten, Asked
    <3> QED BY <1>1, <2>1, <3>1 DEF OwnerAgrees, Serving
  <2>5. CopyAgrees'
    BY <1>1, <1>2, <2>1 DEF CopyAgrees, Asked
  <2> QED BY <2>2, <2>3, <2>4, <2>5
<1> QED BY <1>3, <1>4, <1>5 DEF AgreeInv

LEMMA PublishKeepsFiles ==
    ASSUME FileInvariant, OneOwner, NEW c \in Clients, Publish(c) PROVE FileInvariant'
<1> USE DEF FileInvariant
<1>1. PICK d, x, o : /\ d = DocumentOf(request[c].op) /\ x = request[c].copy /\ o = Owner
  OBVIOUS
<1> DEFINE m == [host[o].memory EXCEPT ![d] = x]
<1>2. /\ request[c].stage = "written"
      /\ host' = [host EXCEPT ![o] = [host[o] EXCEPT !.memory = m]]
      /\ request' = Answer(c)
      /\ UNCHANGED <<file, fresh, disturbed>>
  BY <1>1 DEF Publish
<1>3. /\ d \in Documents /\ x \in DocOf(d) /\ Up
      /\ o \in Processes /\ Serving(o)
  BY <1>1, <1>2, OwnerServes DEF DocumentOf, Documents, Sound, AtWork, UnderWay, CopyOf
<1>4. host[o].memory \in Memory
  BY <1>3 DEF Sound, Serving, HasLoaded
<1>5. m \in Memory /\ m[d] = x /\ \A e \in Documents \ {d} : m[e] = host[o].memory[e]
  BY <1>3, <1>4, MemoryReplaced
<1> HIDE DEF m
<1>6. Moved(o, host[o].stage, m, host[o].todo)
  BY <1>2, <1>3, <1>5, MemoryMoved DEF Shapes
<1>7. Asked(c, "none", None, None)
  BY <1>2, AnswerAsked DEF Shapes
<1>8. Shapes'
  BY <1>2, <1>6, <1>7 DEF Shapes, Moved, Asked
<1>9. \A k \in Processes : /\ host'[k].stage = host[k].stage
                           /\ host'[k].todo = host[k].todo
                           /\ host'[k].memory = IF k = o THEN m ELSE host[k].memory
  BY <1>6 DEF Moved
<1>10. Sound'
  BY <1>2, <1>5, <1>7, <1>9 DEF Sound, Asked, AtWork, UnderWay, Up, Serving, HasLoaded
<1>11. ASSUME ~disturbed' PROVE (Alone /\ StartAgrees /\ OwnerAgrees /\ CopyAgrees)'
  <2>1. /\ ~disturbed /\ Alone /\ StartAgrees /\ OwnerAgrees /\ CopyAgrees /\ AtWork(c)
    BY <1>2, <1>11 DEF AgreeInv, AtWork
  <2>2. /\ \A k \in Clients : ~AtWork(k)'
        /\ \A k \in Clients : AtWork(k) => k = c
        /\ \A k \in Processes : ~Busy(k) /\ ~Busy(k)'
    BY <1>7, <1>9, <2>1 DEF Alone, AtWork, Busy, Asked
  <2>3. Alone' /\ StartAgrees' /\ CopyAgrees'
    BY <2>2 DEF Alone, StartAgrees, CopyAgrees, Starting, Busy, AtWork
  <2>4. OwnerAgrees'
    <3>1. ASSUME NEW k \in Processes, Serving(k)' PROVE k = o
      BY <1>3, <1>9, <3>1 DEF OneOwner, Serving
    <3>2. \A e : BeingWritten(e) => e = d
      BY <1>1, <2>1, <2>2 DEF BeingWritten, AtWork, Busy
    <3>3. FileHas(file, m, d)
      <4>1. file[d] = x
        BY <1>1, <1>2, <2>1 DEF CopyAgrees
      <4> QED BY <1>3, <1>5, <4>1, WrittenIsThere
    <3>4. ASSUME NEW e \in Documents, e # d PROVE FileHas(file, m, e)
      <4>1. FileHas(file, host[o].memory, e)
        BY <1>3, <2>1, <3>2, <3>4 DEF OwnerAgrees
      <4>2. m[e] = host[o].memory[e]
        BY <1>5, <3>4
      <4> QED BY <3>4, <4>1, <4>2 DEF FileHas, Documents
    <3> QED BY <1>2, <1>9, <3>1, <3>3, <3>4 DEF OwnerAgrees
  <2> QED BY <2>3, <2>4
<1> QED BY <1>8, <1>10, <1>11 DEF AgreeInv

LEMMA FilesStep == FileInvariant /\ OneOwner /\ [Next]_vars => FileInvariant'
<1> SUFFICES ASSUME FileInvariant, OneOwner, [Next]_vars PROVE FileInvariant'
  OBVIOUS
<1>1. fresh \in Nat
  BY DEF FileInvariant, Shapes
<1>2. CASE UNCHANGED vars
  BY <1>1, <1>2, SessionKeepsFiles DEF vars
<1>3. ASSUME NEW c \in Clients, \E l \in Listeners : Login(c, l) \/ Logout(c, l)
      PROVE  FileInvariant'
  <2>1. UNCHANGED <<file, host, request, disturbed>> /\ fresh' \in {fresh, fresh + 1}
    BY <1>3 DEF Login, Logout, history
  <2> QED BY <1>1, <2>1, SessionKeepsFiles
<1>4. CASE Next
  BY <1>3, <1>4, BeginKeepsFiles, ReadPortKeepsFiles, LoadKeepsFiles, OpenAtStartKeepsFiles,
     WriteAtStartKeepsFiles, FailAtStartKeepsFiles, ServeKeepsFiles, StopKeepsFiles,
     CopyKeepsFiles, OpenKeepsFiles, WriteKeepsFiles, FailKeepsFiles, PublishKeepsFiles DEF Next
<1> QED BY <1>2, <1>4

(* The documents stay sound, and are in the files or on their way there    *)
(* (with_runtime_repositories loads what the handlers saved).              *)
THEOREM FilesInvariant == Spec => []FileInvariant
BY FileInit, FilesStep, LockMeansOwner, PTL DEF Spec

(* A restart finds what the clients were answered: at rest the files hold  *)
(* what the owner has in memory, as long as no two changes overlapped and  *)
(* none broke off (save_runtime_settings, save_routing_plans).             *)
THEOREM FilesFollowTheOwner == Spec => []FilesAgreeAtRest
<1>1. FileInvariant => FilesAgreeAtRest
  <2> SUFFICES ASSUME FileInvariant, ~disturbed, Up, AtRest
               PROVE  /\ file.settings = host[Owner].memory.settings
                      /\ Loaded(file.plans, NoPlans) = host[Owner].memory.plans
    BY DEF FilesAgreeAtRest
  <2>1. \A d : ~BeingWritten(d)
    BY DEF BeingWritten, AtRest, Busy, AtWork
  <2>2. \A d \in Documents : FileHas(file, host[Owner].memory, d)
    BY <2>1, OwnerServes DEF FileInvariant, AgreeInv, OwnerAgrees
  <2> QED BY <2>2 DEF FileHas, Documents
<1> QED BY <1>1, FilesInvariant, PTL

-----------------------------------------------------------------------------
(* What was given up.  Secrets and session ids come from one counter; a    *)
(* session is in one listener and has not been given up.                   *)
Issued(s) == \A x \in s : x \in 1..fresh
SessionInv ==
    /\ sessions \in [Listeners -> SUBSET Nat]
    /\ \A l \in Listeners : Issued(sessions[l])
    /\ Issued(void)
    /\ \A l, m \in Listeners : l # m => sessions[l] \cap sessions[m] = {}
    /\ \A l \in Listeners : sessions[l] \cap void = {}

(* A secret that is in use, or may come to be: in the file, loaded, or in  *)
(* a change.  It is no session, and as long as nothing overlapped it has   *)
(* not been given up; a new one differs from the one it will replace.      *)
ChangesSettings(c) == AtWork(c) /\ DocumentOf(request[c].op) = "settings"
InPlay(x) ==
    \/ file.settings # Unreadable /\ x = file.settings.secret
    \/ \E h \in Processes :
          (Starting(h) \/ Serving(h)) /\ x = host[h].memory.settings.secret
    \/ \E c \in Clients : ChangesSettings(c) /\ x = request[c].copy.secret

NoSession(x) == x \in 0..fresh /\ \A l \in Listeners : x \notin sessions[l]
SecretInv == \A x : InPlay(x) => NoSession(x)

Replaces ==
    \A c \in Clients, k \in Processes :
        AtWork(c) /\ request[c].op.kind = "regenerate" /\ Serving(k) =>
            host[k].memory.settings.secret # request[c].copy.secret

LiveInv == ~disturbed => Replaces /\ \A x : InPlay(x) => x \notin void

GivenUpInv == SessionInv /\ SecretInv /\ LiveInv

LEMMA GivenUpInit == Init => GivenUpInv
<1> SUFFICES ASSUME Init PROVE GivenUpInv
  OBVIOUS
<1>1. SessionInv
  BY DEF Init, SessionInv, Issued
<1>2. /\ \A h \in Processes : host[h].stage = "off"
      /\ \A c \in Clients : ~AtWork(c)
      /\ void = {} /\ \A l \in Listeners : sessions[l] = {}
  BY DEF Init, Off, AtWork, NoRequest
<1>3. file.settings # Unreadable => file.settings.secret \in 0..fresh
  <2>1. file \in Installations /\ fresh = IF Nameless(file.settings) THEN 0 ELSE 2
    BY DEF Init
  <2>2. CASE file.settings = Unreadable
    BY <2>2
  <2>3. CASE file.settings = [secret |-> Empty, instance |-> Empty, port |-> DefaultPort]
    BY <2>1, <2>3 DEF Nameless, Empty
  <2>4. CASE file.settings = [secret |-> 1, instance |-> 2, port |-> DefaultPort]
    BY <2>1, <2>4 DEF Nameless, Empty
  <2> QED BY <2>1, <2>2, <2>3, <2>4 DEF Installations
<1>4. SecretInv
  BY <1>2, <1>3 DEF SecretInv, NoSession, InPlay, Starting, Serving, ChangesSettings
<1>5. LiveInv
  BY <1>2 DEF LiveInv, Replaces
<1> QED BY <1>1, <1>4, <1>5 DEF GivenUpInv

(* What a step has to show: the secrets in play are those of before or     *)
(* new ones, the sessions too, and only sessions are given up.             *)
New(x) == x \in (fresh + 1)..fresh' /\ \A l \in Listeners : x \notin sessions'[l]
LEMMA SecretsGoOn ==
    ASSUME GivenUpInv, fresh \in Nat, fresh' \in Nat, fresh <= fresh', SessionInv',
           \A l \in Listeners : \A x \in sessions'[l] : x \in sessions[l] \/ x > fresh,
           \A x \in void' : x \in void \/ \E l \in Listeners : x \in sessions[l],
           \A x : InPlay(x)' => InPlay(x) \/ New(x),
           ~disturbed' => ~disturbed /\ Replaces'
    PROVE  GivenUpInv'
<1>1. \A x : InPlay(x) => NoSession(x)
  BY DEF GivenUpInv, SecretInv
<1>2. \A x : InPlay(x)' => NoSession(x)'
  <2>1. ASSUME NEW x, InPlay(x) PROVE NoSession(x)'
    BY <1>1, <2>1 DEF NoSession
  <2>2. ASSUME NEW x, New(x) PROVE NoSession(x)'
    BY <2>2 DEF New, NoSession
  <2> QED BY <2>1, <2>2
<1>3. ASSUME ~disturbed', NEW x, InPlay(x)' PROVE x \notin void'
  <2>1. CASE InPlay(x)
    BY <1>1, <1>3, <2>1 DEF GivenUpInv, LiveInv, NoSession
  <2>2. CASE New(x)
    <3>1. x > fresh /\ x \in Nat
      BY <2>2 DEF New
    <3>2. x \notin void /\ \A l \in Listeners : x \notin sessions[l]
      BY <3>1 DEF GivenUpInv, SessionInv, Issued
    <3> QED BY <3>2
  <2> QED BY <1>3, <2>1, <2>2
<1> QED BY <1>2, <1>3 DEF GivenUpInv, SecretInv, LiveInv

LEMMA SessionsStay ==
    ASSUME SessionInv, UNCHANGED <<sessions, void>>, fresh \in Nat, fresh' \in Nat,
           fresh <= fresh'
    PROVE  SessionInv'
  BY DEF SessionInv, Issued

LEMMA SessionsEnd ==
    ASSUME SessionInv, sessions' = [l \in Listeners |-> {}],
           void' = void \/ void' = void \cup UNION {sessions[l] : l \in Listeners},
           fresh' = fresh
    PROVE  SessionInv'
<1>1. Issued(void)'
  <2>1. \A x \in void' : x \in void \/ \E l \in Listeners : x \in sessions[l]
    OBVIOUS
  <2> QED BY <2>1 DEF SessionInv, Issued
<1> QED BY <1>1 DEF SessionInv, Issued

(* Who serves or starts up did so before, with the memory it has.          *)
HostStays ==
    \A k \in Processes :
        /\ (Starting(k) \/ Serving(k))' => Starting(k) \/ Serving(k)
        /\ (Starting(k) \/ Serving(k))' => host'[k].memory = host[k].memory

LEMMA BeginKeepsSecrets ==
    ASSUME FileInvariant, GivenUpInv, NEW h \in Processes,
           Begin(h) \/ ReadPort(h) \/ FailAtStart(h)
    PROVE  GivenUpInv'
<1>1. /\ UNCHANGED <<file, request, sessions, void, fresh>> /\ fresh \in Nat
      /\ disturbed => disturbed'
  <2>1. CASE Begin(h)
    BY <2>1 DEF Begin, FileInvariant, Shapes
  <2>2. CASE ReadPort(h)
    BY <2>2 DEF ReadPort, FileInvariant, Shapes, history
  <2>3. CASE FailAtStart(h)
    BY <2>3 DEF FailAtStart, FileInvariant, Shapes
  <2> QED BY <2>1, <2>2, <2>3
<1>2. HostStays /\ \A k \in Processes : Serving(k)' = Serving(k)
  <2>1. CASE Begin(h)
    <3>1. host[h].stage = "off" /\ Moved(h, "port", host[h].memory, host[h].todo)
      BY <2>1, StageMoved DEF Begin, FileInvariant, Shapes, Stages
    <3> QED BY <3>1 DEF HostStays, Moved, Starting, Serving
  <2>2. CASE ReadPort(h)
    <3>1. PICK v \in Nat : host' = [host EXCEPT ![h].port = v]
      BY <2>2, ConfigAssumption DEF ReadPort, FileInvariant, Shapes, FileSet, SettingsFile
    <3>2. Moved(h, host[h].stage, host[h].memory, host[h].todo)
      BY <3>1, PortMoved DEF FileInvariant, Shapes
    <3> QED BY <3>2 DEF HostStays, Moved, Starting, Serving
  <2>3. CASE FailAtStart(h)
    <3>1. /\ host[h].stage \in {"loaded", "writing"} /\ host[h].todo # <<>>
          /\ host' = [host EXCEPT ![h].stage = "loaded", ![h].todo = Tail(host[h].todo)]
      BY <2>3 DEF FailAtStart, FileInvariant, Sound
    <3>2. host[h].todo \in Seq(Documents)
      BY DEF FileInvariant, Shapes, HostSet
    <3>3. Moved(h, "loaded", host[h].memory, Tail(host[h].todo))
      BY <3>1, <3>2, HeadAndTail, TodoMoved DEF FileInvariant, Shapes, Stages
    <3>4. host'[h].stage = "loaded" /\ host'[h].memory = host[h].memory
      BY <3>3 DEF Moved
    <3>5. \A k \in Processes \ {h} : host'[k] = host[k]
      BY <3>3 DEF Moved
    <3> QED BY <3>1, <3>4, <3>5 DEF HostStays, Starting, Serving
  <2> QED BY <2>1, <2>2, <2>3
<1>3. \A x : InPlay(x)' => InPlay(x)
  BY <1>1, <1>2 DEF InPlay, HostStays, ChangesSettings, AtWork
<1>4. ~disturbed' => ~disturbed /\ Replaces'
  BY <1>1, <1>2 DEF GivenUpInv, LiveInv, Replaces, HostStays, AtWork
<1>5. SessionInv'
  BY <1>1, SessionsStay DEF GivenUpInv
<1> QED BY <1>1, <1>3, <1>4, <1>5, SecretsGoOn

LEMMA LoadKeepsSecrets ==
    ASSUME FileInvariant, GivenUpInv, NEW h \in Processes, Load(h) PROVE GivenUpInv'
<1> DEFINE found == Loaded(file.settings, DefaultSettings(fresh))
           settings == Repaired(found, fresh)
           plans == Loaded(file.plans, NoPlans)
           m == [settings |-> settings, plans |-> Canonical(plans)]
           t == (IF NeedsRepair(found) THEN <<"settings">> ELSE <<>>)
                    \o (IF plans # Canonical(plans) THEN <<"plans">> ELSE <<>>)
                    \o <<"settings">>
<1>1. /\ host[h].stage = "port"
      /\ host' = [host EXCEPT ![h].stage = "loaded", ![h].memory = m, ![h].todo = t]
      /\ fresh' = IF file.settings = Unreadable \/ NeedsRepair(found) THEN fresh + 2 ELSE fresh
      /\ UNCHANGED <<file, request, sessions, void, disturbed>>
  BY DEF Load
<1>2. file \in FileSet /\ fresh \in Nat
  BY DEF FileInvariant, Shapes
<1>3. /\ m \in Memory /\ m.settings = settings
      /\ found.secret = Empty => settings.secret = fresh + 1
      /\ found.secret # Empty => settings.secret = found.secret
  BY <1>2, DocumentsLoaded DEF Memory
<1>4. \/ settings.secret = fresh + 1 /\ fresh' = fresh + 2
      \/ file.settings # Unreadable /\ settings.secret = file.settings.secret
  <2>1. CASE file.settings = Unreadable
    <3>1. found.secret = fresh + 1
      BY <2>1 DEF Loaded, DefaultSettings
    <3> QED BY <1>1, <1>2, <1>3, <2>1, <3>1 DEF Empty
  <2>2. CASE file.settings # Unreadable
    <3>1. found = file.settings
      BY <2>2 DEF Loaded
    <3> QED BY <1>1, <1>3, <2>2, <3>1 DEF NeedsRepair
  <2> QED BY <2>1, <2>2
<1>5. fresh' \in Nat /\ fresh <= fresh'
  BY <1>1, <1>2
<1> HIDE DEF m, t, found, plans
<1>6. \E u : host' = [host EXCEPT ![h].stage = "loaded", ![h].memory = m, ![h].todo = u]
  BY <1>1
<1>7. /\ host'[h].stage = "loaded" /\ host'[h].memory = m
      /\ \A k \in Processes \ {h} : host'[k] = host[k]
  BY <1>3, <1>6 DEF FileInvariant, Shapes, HostSet
<1> HIDE DEF settings
<1>8. New(settings.secret) \/ InPlay(settings.secret)
  <2>1. CASE settings.secret = fresh + 1 /\ fresh' = fresh + 2
    <3>1. \A l \in Listeners : fresh + 1 \notin sessions[l]
      BY <1>2 DEF GivenUpInv, SessionInv, Issued
    <3> QED BY <1>1, <1>2, <2>1, <3>1 DEF New
  <2>2. CASE file.settings # Unreadable /\ settings.secret = file.settings.secret
    BY <2>2 DEF InPlay
  <2> QED BY <1>4, <2>1, <2>2
<1>9. \A x : InPlay(x)' => InPlay(x) \/ New(x)
  <2>1. ASSUME NEW x, NEW k \in Processes, (Starting(k) \/ Serving(k))',
               x = host'[k].memory.settings.secret
        PROVE  InPlay(x) \/ New(x)
    <3>1. CASE k = h
      BY <1>3, <1>7, <1>8, <2>1, <3>1
    <3>2. CASE k # h
      BY <1>7, <2>1, <3>2 DEF InPlay, Starting, Serving
    <3> QED BY <3>1, <3>2
  <2>2. ASSUME NEW x, NEW c \in Clients, ChangesSettings(c)', x = request'[c].copy.secret
        PROVE  InPlay(x)
    BY <1>1, <2>2 DEF InPlay, ChangesSettings, AtWork
  <2>3. ASSUME NEW x, file'.settings # Unreadable, x = file'.settings.secret
        PROVE  InPlay(x)
    BY <1>1, <2>3 DEF InPlay
  <2> QED BY <2>1, <2>2, <2>3 DEF InPlay
<1>10. ~disturbed' => ~disturbed /\ Replaces'
  BY <1>1, <1>7 DEF GivenUpInv, LiveInv, Replaces, AtWork, Serving
<1>11. SessionInv'
  BY <1>1, <1>2, <1>5, SessionsStay DEF GivenUpInv
<1> QED BY <1>1, <1>2, <1>5, <1>9, <1>10, <1>11, SecretsGoOn

LEMMA WritingKeepsSecrets ==
    ASSUME FileInvariant, GivenUpInv, NEW h \in Processes, OpenAtStart(h) \/ WriteAtStart(h)
    PROVE  GivenUpInv'
<1>1. /\ UNCHANGED <<request, sessions, void, fresh, disturbed>> /\ fresh \in Nat
      /\ host[h].stage \in {"loaded", "writing"} /\ host[h].todo # <<>>
  BY DEF OpenAtStart, WriteAtStart, FileInvariant, Shapes, Sound, history
<1>2. host[h].todo \in Seq(Documents) /\ host[h].memory \in Memory
  BY <1>1 DEF FileInvariant, Shapes, HostSet, Sound, HasLoaded
<1>3. Head(host[h].todo) \in Documents /\ Tail(host[h].todo) \in Seq(Documents)
  BY <1>1, <1>2, HeadAndTail
<1>4. HostStays /\ \A k \in Processes : Serving(k)' = Serving(k)
  <2>1. CASE OpenAtStart(h)
    <3>1. Moved(h, "writing", host[h].memory, host[h].todo)
      BY <2>1, StageMoved DEF OpenAtStart, FileInvariant, Shapes, Stages
    <3> QED BY <1>1, <3>1 DEF HostStays, Moved, Starting, Serving
  <2>2. CASE WriteAtStart(h)
    <3>1. Moved(h, "loaded", host[h].memory, Tail(host[h].todo))
      BY <1>3, <2>2, TodoMoved DEF WriteAtStart, FileInvariant, Shapes, Stages
    <3>2. host'[h].stage = "loaded" /\ host'[h].memory = host[h].memory
      BY <3>1 DEF Moved
    <3>3. \A k \in Processes \ {h} : host'[k] = host[k]
      BY <3>1 DEF Moved
    <3> QED BY <1>1, <3>2, <3>3 DEF HostStays, Starting, Serving
  <2> QED BY <2>1, <2>2
<1>5. file'.settings = Unreadable \/ file'.settings = file.settings
        \/ file'.settings = host[h].memory.settings
  <2>1. CASE OpenAtStart(h)
    <3>1. Put(Head(host[h].todo), Unreadable)
      BY <1>3, <2>1, FilePut DEF OpenAtStart, FileInvariant, Shapes
    <3> QED BY <3>1 DEF Put, Documents
  <2>2. CASE WriteAtStart(h)
    <3>1. host[h].memory[Head(host[h].todo)] \in DocOf(Head(host[h].todo))
      BY <1>2, <1>3 DEF Memory, DocOf, Documents
    <3>2. Put(Head(host[h].todo), host[h].memory[Head(host[h].todo)])
      BY <1>3, <2>2, <3>1, FilePut DEF WriteAtStart, FileInvariant, Shapes
    <3> QED BY <3>2 DEF Put, Documents
  <2> QED BY <2>1, <2>2
<1>6. \A x : InPlay(x)' => InPlay(x)
  BY <1>1, <1>4, <1>5 DEF InPlay, HostStays, ChangesSettings, AtWork, Starting
<1>7. ~disturbed' => ~disturbed /\ Replaces'
  BY <1>1, <1>4 DEF GivenUpInv, LiveInv, Replaces, HostStays, AtWork
<1>8. SessionInv'
  BY <1>1, SessionsStay DEF GivenUpInv
<1> QED BY <1>1, <1>6, <1>7, <1>8, SecretsGoOn

LEMMA ServeKeepsSecrets ==
    ASSUME FileInvariant, GivenUpInv, NEW h \in Processes, Serve(h) PROVE GivenUpInv'
<1>1. /\ host[h].stage = "loaded" /\ UNCHANGED <<file, request, void, fresh, disturbed>>
      /\ sessions' = sessions \/ sessions' = [l \in Listeners |-> {}]
  BY DEF Serve, history
<1>2. PICK s \in {"serving", "client"} : host' = [host EXCEPT ![h].stage = s]
  BY DEF Serve
<1>3. Moved(h, s, host[h].memory, host[h].todo)
  BY <1>2, StageMoved DEF FileInvariant, Shapes, Stages
<1>4. HostStays
  BY <1>1, <1>3 DEF HostStays, Moved, Starting, Serving
<1>5. \A x : InPlay(x)' => InPlay(x)
  BY <1>1, <1>4 DEF InPlay, HostStays, ChangesSettings, AtWork
<1>6. ASSUME ~disturbed' PROVE Replaces'
  BY <1>1, <1>6 DEF FileInvariant, AgreeInv, Alone, Busy, Replaces, AtWork
<1>7. fresh \in Nat /\ fresh' = fresh
  BY <1>1 DEF FileInvariant, Shapes
<1>8. SessionInv'
  BY <1>1, <1>7, SessionsStay, SessionsEnd DEF GivenUpInv
<1>9. \A l \in Listeners : \A x \in sessions'[l] : x \in sessions[l]
  BY <1>1
<1> QED BY <1>1, <1>5, <1>6, <1>7, <1>8, <1>9, SecretsGoOn

LEMMA StopKeepsSecrets ==
    ASSUME FileInvariant, GivenUpInv, NEW h \in Processes, Stop(h) PROVE GivenUpInv'
<1>1. /\ host' = [host EXCEPT ![h] = Off]
      /\ UNCHANGED <<file, fresh>>
      /\ request' = IF Serving(h) THEN [c \in Clients |-> NoRequest] ELSE request
      /\ disturbed => disturbed'
  BY DEF Stop
<1>2. \/ UNCHANGED <<sessions, void>>
      \/ /\ sessions' = [l \in Listeners |-> {}]
         /\ void' = void \cup UNION {sessions[l] : l \in Listeners}
  BY DEF Stop
<1>3. Moved(h, "off", None, <<>>)
  BY <1>1, OffMoved DEF FileInvariant, Shapes
<1>4. HostStays /\ \A k \in Processes : Serving(k)' => Serving(k)
  BY <1>3 DEF HostStays, Moved, Starting, Serving
<1>5. \A c \in Clients : AtWork(c)' => AtWork(c) /\ request'[c] = request[c]
  BY <1>1 DEF AtWork, NoRequest
<1>6. \A x : InPlay(x)' => InPlay(x)
  BY <1>1, <1>4, <1>5 DEF InPlay, HostStays, ChangesSettings
<1>7. ~disturbed' => ~disturbed /\ Replaces'
  BY <1>1, <1>4, <1>5 DEF GivenUpInv, LiveInv, Replaces, HostStays
<1>8. fresh \in Nat /\ fresh' = fresh
  BY <1>1 DEF FileInvariant, Shapes
<1>9. SessionInv'
  BY <1>2, <1>8, SessionsStay, SessionsEnd DEF GivenUpInv
<1>10. /\ \A l \in Listeners : \A x \in sessions'[l] : x \in sessions[l]
       /\ \A x \in void' : x \in void \/ \E l \in Listeners : x \in sessions[l]
  BY <1>2
<1> QED BY <1>6, <1>7, <1>8, <1>9, <1>10, SecretsGoOn

(* A session more or less.                                                 *)
LEMMA SessionStepKeepsSecrets ==
    ASSUME FileInvariant, GivenUpInv, NEW c \in Clients, NEW l \in Listeners,
           Login(c, l) \/ Logout(c, l)
    PROVE  GivenUpInv'
<1>1. UNCHANGED <<file, host, request, disturbed>> /\ fresh \in Nat
  BY DEF Login, Logout, history, FileInvariant, Shapes
<1>2. \A x : InPlay(x)' => InPlay(x)
  BY <1>1 DEF InPlay, ChangesSettings, AtWork, Starting, Serving
<1>3. ~disturbed' => ~disturbed /\ Replaces'
  BY <1>1 DEF GivenUpInv, LiveInv, Replaces, AtWork, Serving
<1>4. CASE Login(c, l)
  <2>1. /\ fresh' = fresh + 1 /\ void' = void
        /\ sessions' = [sessions EXCEPT ![l] = @ \cup {fresh + 1}]
    BY <1>4 DEF Login, history
  <2>2. sessions \in [Listeners -> SUBSET Nat]
    BY DEF GivenUpInv, SessionInv
  <2>3. /\ sessions' \in [Listeners -> SUBSET Nat]
        /\ sessions'[l] = sessions[l] \cup {fresh + 1}
        /\ \A k \in Listeners \ {l} : sessions'[k] = sessions[k]
    BY <1>1, <2>1, <2>2
  <2>4. \A k \in Listeners : \A x \in sessions'[k] :
            \/ x \in sessions[k]
            \/ k = l /\ x = fresh + 1
    BY <2>3
  <2>5. /\ \A k \in Listeners : fresh + 1 \notin sessions[k]
        /\ fresh + 1 \notin void
    BY <1>1 DEF GivenUpInv, SessionInv, Issued
  <2>6. (\A k \in Listeners : Issued(sessions[k]))' /\ Issued(void)'
    BY <1>1, <2>1, <2>4 DEF GivenUpInv, SessionInv, Issued
  <2>7. \A k, m \in Listeners : k # m => sessions'[k] \cap sessions'[m] = {}
    BY <2>3, <2>5 DEF GivenUpInv, SessionInv
  <2>8. \A k \in Listeners : sessions'[k] \cap void' = {}
    BY <2>1, <2>3, <2>5 DEF GivenUpInv, SessionInv
  <2>9. SessionInv'
    BY <2>3, <2>6, <2>7, <2>8 DEF SessionInv
  <2>10. fresh' \in Nat /\ fresh <= fresh' /\ fresh + 1 > fresh
    BY <1>1, <2>1
  <2> QED BY <1>1, <1>2, <1>3, <2>1, <2>4, <2>9, <2>10, SecretsGoOn
<1>5. CASE Logout(c, l)
  <2> DEFINE z == cookie[c]
  <2>1. /\ fresh' = fresh
        /\ sessions' = [sessions EXCEPT ![l] = @ \ {z}]
        /\ void' = IF z \in sessions[l] THEN void \cup {z} ELSE void
    BY <1>5 DEF Logout
  <2> HIDE DEF z
  <2>2. sessions \in [Listeners -> SUBSET Nat]
    BY DEF GivenUpInv, SessionInv
  <2>3. /\ sessions' \in [Listeners -> SUBSET Nat]
        /\ sessions'[l] = sessions[l] \ {z}
        /\ \A k \in Listeners \ {l} : sessions'[k] = sessions[k]
    BY <2>1, <2>2
  <2>4. \A k \in Listeners : \A x \in sessions'[k] : x \in sessions[k]
    BY <2>3
  <2>5. \A x \in void' : x \in void \/ (x = z /\ z \in sessions[l])
    BY <2>1
  <2>6. (\A k \in Listeners : Issued(sessions[k]))' /\ Issued(void)'
    BY <2>1, <2>4, <2>5 DEF GivenUpInv, SessionInv, Issued
  <2>7. \A k, m \in Listeners : k # m => sessions'[k] \cap sessions'[m] = {}
    BY <2>4 DEF GivenUpInv, SessionInv
  <2>8. \A k \in Listeners : sessions'[k] \cap void' = {}
    <3>1. ASSUME NEW k \in Listeners, NEW x \in sessions'[k], x \in void' PROVE FALSE
      <4>1. x \in sessions[k]
        BY <2>4, <3>1
      <4>2. x \notin void
        BY <4>1 DEF GivenUpInv, SessionInv
      <4>3. x = z /\ z \in sessions[l]
        BY <2>5, <3>1, <4>2
      <4>4. k # l
        BY <2>3, <3>1, <4>3
      <4> QED BY <4>1, <4>3, <4>4 DEF GivenUpInv, SessionInv
    <3> QED BY <3>1
  <2>9. SessionInv'
    BY <2>3, <2>6, <2>7, <2>8 DEF SessionInv
  <2>10. fresh' \in Nat /\ fresh <= fresh'
    BY <1>1, <2>1
  <2> QED BY <1>2, <1>1, <1>3, <2>4, <2>5, <2>9, <2>10, SecretsGoOn
<1> QED BY <1>4, <1>5

LEMMA CopyKeepsSecrets ==
    ASSUME FileInvariant, GivenUpInv, NEW c \in Clients, NEW op \in Operations, Copy(c, op)
    PROVE  GivenUpInv'
<1> DEFINE d == DocumentOf(op)
           m == host[Owner].memory
           x == Changed(op, m[d], fresh)
<1>1. /\ Up
      /\ request' = [request EXCEPT ![c] = [stage |-> "copied", op |-> op, copy |-> x]]
      /\ fresh' = IF op.kind = "regenerate" THEN fresh + 1 ELSE fresh
      /\ disturbed => disturbed'
      /\ UNCHANGED <<file, host, sessions, void>>
  BY DEF Copy
<1>2. Owner \in Processes /\ Serving(Owner) /\ m \in Memory
  BY <1>1, OwnerServes DEF FileInvariant, Sound, Serving, HasLoaded
<1>3. fresh \in Nat /\ fresh' \in Nat /\ fresh <= fresh'
  BY <1>1 DEF FileInvariant, Shapes
<1>4. /\ x \in CopyOf(op)
      /\ d = "settings" => x.secret = IF op.kind = "regenerate" THEN fresh + 1
                                                               ELSE m.settings.secret
      /\ op.kind = "regenerate" => d = "settings"
  BY <1>2, <1>3, ChangedIsSound
<1> HIDE DEF x
<1>5. Asked(c, "copied", op, x)
  BY <1>1, <1>4, CopyAsked DEF FileInvariant, Shapes
<1>6. InPlay(m.settings.secret)
  BY <1>2 DEF InPlay
<1>7. op.kind = "regenerate" => New(fresh + 1)
  <2>1. \A l \in Listeners : fresh + 1 \notin sessions[l]
    BY <1>3 DEF GivenUpInv, SessionInv, Issued
  <2> QED BY <1>1, <1>3, <2>1 DEF New
<1>8. \A y : InPlay(y)' => InPlay(y) \/ New(y)
  <2>1. ASSUME NEW y, NEW k \in Clients, ChangesSettings(k)', y = request'[k].copy.secret
        PROVE  InPlay(y) \/ New(y)
    <3>1. CASE k = c
      <4>1. request'[k].op = op /\ request'[k].copy = x
        BY <1>5, <3>1 DEF Asked
      <4>2. d = "settings" /\ y = x.secret
        BY <2>1, <4>1 DEF ChangesSettings
      <4> QED BY <1>4, <1>6, <1>7, <4>2
    <3>2. CASE k # c
      BY <1>5, <2>1, <3>2 DEF Asked, ChangesSettings, AtWork, InPlay
    <3> QED BY <3>1, <3>2
  <2> QED BY <1>1, <2>1 DEF InPlay, Starting, Serving
<1>9. ASSUME ~disturbed' PROVE ~disturbed /\ Replaces'
  <2>1. ~disturbed
    BY <1>1, <1>9
  <2>2. ASSUME op.kind = "regenerate", NEW k \in Processes, Serving(k)
        PROVE  host[k].memory.settings.secret # x.secret
    <3>1. InPlay(host[k].memory.settings.secret)
      BY <2>2 DEF InPlay
    <3>2. host[k].memory.settings.secret \in 0..fresh
      BY <3>1 DEF GivenUpInv, SecretInv, NoSession
    <3> QED BY <1>3, <1>4, <2>2, <3>2
  <2>3. ASSUME NEW a \in Clients, NEW k \in Processes, AtWork(a)',
               request'[a].op.kind = "regenerate", Serving(k)'
        PROVE  host'[k].memory.settings.secret # request'[a].copy.secret
    <3>1. CASE a = c
      BY <1>1, <1>5, <2>2, <2>3, <3>1 DEF Asked, Serving
    <3>2. CASE a # c
      BY <1>1, <1>5, <2>1, <2>3, <3>2 DEF Asked, Serving, AtWork, GivenUpInv, LiveInv, Replaces
    <3> QED BY <3>1, <3>2
  <2> QED BY <2>1, <2>3 DEF Replaces
<1>10. SessionInv'
  BY <1>1, <1>3, SessionsStay DEF GivenUpInv
<1> QED BY <1>1, <1>3, <1>8, <1>9, <1>10, SecretsGoOn

LEMMA RequestStepKeepsSecrets ==
    ASSUME FileInvariant, GivenUpInv, NEW c \in Clients, Open(c) \/ Write(c) \/ Fail(c)
    PROVE  GivenUpInv'
<1>1. /\ AtWork(c) /\ UNCHANGED <<host, sessions, void, fresh>> /\ fresh \in Nat
      /\ disturbed => disturbed'
  <2>1. CASE Open(c)
    BY <2>1 DEF Open, FileInvariant, Shapes, AtWork, history
  <2>2. CASE Write(c)
    BY <2>2 DEF Write, FileInvariant, Shapes, AtWork, history
  <2>3. CASE Fail(c)
    BY <2>3 DEF Fail, FileInvariant, Shapes, AtWork
  <2> QED BY <2>1, <2>2, <2>3
<1>2. \A k \in Clients : AtWork(k)' => /\ AtWork(k)
                                       /\ request'[k].op = request[k].op
                                       /\ request'[k].copy = request[k].copy
  <2>1. CASE Open(c)
    <3>1. Asked(c, "writing", request[c].op, request[c].copy)
      BY <2>1, StageAsked DEF Open, FileInvariant, Shapes, RequestStages
    <3> QED BY <1>1, <3>1 DEF Asked, AtWork
  <2>2. CASE Write(c)
    <3>1. Asked(c, "written", request[c].op, request[c].copy)
      BY <2>2, StageAsked DEF Write, FileInvariant, Shapes, RequestStages
    <3> QED BY <1>1, <3>1 DEF Asked, AtWork
  <2>3. CASE Fail(c)
    <3>1. Asked(c, "none", None, None)
      BY <2>3, AnswerAsked DEF Fail, FileInvariant, Shapes
    <3> QED BY <1>1, <3>1 DEF Asked, AtWork
  <2> QED BY <2>1, <2>2, <2>3
<1>3. \/ file'.settings \in {Unreadable, file.settings}
      \/ ChangesSettings(c) /\ file'.settings = request[c].copy
  <2>1. CASE Open(c)
    <3>1. PICK d \in Documents : file' = [file EXCEPT ![d] = Unreadable]
      BY <2>1 DEF Open, DocumentOf, Documents
    <3>2. Put(d, Unreadable)
      BY <3>1, FilePut DEF FileInvariant, Shapes
    <3> QED BY <3>2 DEF Put, Documents
  <2>2. CASE Write(c)
    <3>1. PICK d, x : /\ d = DocumentOf(request[c].op) /\ x = request[c].copy
                      /\ file' = [file EXCEPT ![d] = x]
      BY <2>2 DEF Write
    <3>2. d \in Documents /\ x \in DocOf(d)
      BY <1>1, <3>1 DEF DocumentOf, Documents, FileInvariant, Sound, UnderWay, CopyOf
    <3>3. Put(d, x)
      BY <3>1, <3>2, FilePut DEF FileInvariant, Shapes
    <3> QED BY <1>1, <3>1, <3>2, <3>3 DEF Put, Documents, ChangesSettings
  <2>3. CASE Fail(c)
    BY <2>3 DEF Fail
  <2> QED BY <2>1, <2>2, <2>3
<1>4. \A x : InPlay(x)' => InPlay(x)
  BY <1>1, <1>2, <1>3 DEF InPlay, ChangesSettings, Starting, Serving
<1>5. ~disturbed' => ~disturbed /\ Replaces'
  BY <1>1, <1>2 DEF GivenUpInv, LiveInv, Replaces, Serving
<1>6. SessionInv'
  BY <1>1, SessionsStay DEF GivenUpInv
<1> QED BY <1>1, <1>4, <1>5, <1>6, SecretsGoOn

LEMMA PublishKeepsSecrets ==
    ASSUME FileInvariant, OneOwner, GivenUpInv, NEW c \in Clients, Publish(c)
    PROVE  GivenUpInv'
<1>1. PICK d, x, o : /\ d = DocumentOf(request[c].op) /\ x = request[c].copy /\ o = Owner
  OBVIOUS
<1> DEFINE m == [host[o].memory EXCEPT ![d] = x]
           old == host[o].memory.settings.secret
           renewed == request[c].op.kind = "regenerate"
<1>2. /\ request[c].stage = "written" /\ AtWork(c)
      /\ host' = [host EXCEPT ![o] = [host[o] EXCEPT !.memory = m]]
      /\ request' = Answer(c)
      /\ void' = IF renewed THEN void \cup {old} ELSE void
      /\ UNCHANGED <<file, fresh, sessions, disturbed>>
  BY <1>1 DEF Publish, AtWork
<1>3. /\ d \in Documents /\ x \in DocOf(d) /\ Up
      /\ o \in Processes /\ Serving(o)
      /\ renewed => d = "settings"
  BY <1>1, <1>2, OwnerServes DEF DocumentOf, Documents, FileInvariant, Sound, UnderWay, CopyOf
<1>4. host[o].memory \in Memory /\ fresh \in Nat
  BY <1>3 DEF FileInvariant, Shapes, Sound, Serving, HasLoaded
<1>5. m \in Memory /\ m[d] = x /\ \A e \in Documents \ {d} : m[e] = host[o].memory[e]
  BY <1>3, <1>4, MemoryReplaced
<1>6. m.settings = IF d = "settings" THEN x ELSE host[o].memory.settings
  BY <1>3, <1>5 DEF Documents
<1>7. old \in 1..fresh /\ \A l \in Listeners : old \notin sessions[l]
  <2>1. InPlay(old)
    BY <1>3 DEF InPlay
  <2>2. old \in Nat \ {0}
    BY <1>4 DEF Memory, SettingsDoc
  <2> QED BY <1>4, <2>1, <2>2 DEF GivenUpInv, SecretInv, NoSession
<1> HIDE DEF m, old, renewed
<1>8. Moved(o, host[o].stage, m, host[o].todo)
  BY <1>2, <1>3, <1>5, MemoryMoved DEF FileInvariant, Shapes
<1>9. Asked(c, "none", None, None)
  BY <1>2, AnswerAsked DEF FileInvariant, Shapes
<1>10. /\ \A k \in Processes : /\ host'[k].stage = host[k].stage
                               /\ host'[k].memory = IF k = o THEN m ELSE host[k].memory
       /\ \A k \in Clients : AtWork(k)' => k # c /\ request'[k] = request[k]
  BY <1>8, <1>9 DEF Moved, Asked, AtWork
<1>11. SessionInv'
  BY <1>2, <1>7 DEF GivenUpInv, SessionInv, Issued
<1>12. SecretInv'
  <2>1. InPlay(m.settings.secret)
    BY <1>1, <1>2, <1>3, <1>6 DEF InPlay, ChangesSettings
  <2>2. ASSUME NEW y, InPlay(y)' PROVE InPlay(y)
    BY <1>2, <1>10, <2>1, <2>2 DEF InPlay, ChangesSettings, AtWork, Starting, Serving
  <2>3. \A y : NoSession(y) => NoSession(y)'
    BY <1>2 DEF NoSession
  <2> QED BY <2>2, <2>3 DEF GivenUpInv, SecretInv
<1>13. ASSUME ~disturbed' PROVE Replaces' /\ \A y : InPlay(y)' => y \notin void'
  <2>1. /\ Alone /\ CopyAgrees /\ Replaces
        /\ \A y : InPlay(y) => y \notin void
    BY <1>2, <1>13 DEF FileInvariant, AgreeInv, GivenUpInv, LiveInv
  <2>2. /\ \A k \in Clients : ~AtWork(k)'
        /\ \A k \in Processes : ~Starting(k)'
    BY <1>2, <1>10, <2>1 DEF Alone, AtWork, Busy, Starting
  <2>3. \A k \in Processes : Serving(k)' => k = o
    BY <1>3, <1>10 DEF OneOwner, Serving
  <2>4. d = "settings" => file.settings = x
    BY <1>1, <1>2, <2>1 DEF CopyAgrees
  <2>5. renewed => x.secret # old
    BY <1>1, <1>2, <1>3, <2>1 DEF Replaces, renewed, old
  <2>6. ASSUME NEW y, InPlay(y)' PROVE y \notin void'
    <3>1. (file.settings # Unreadable /\ y = file.settings.secret) \/ y = m.settings.secret
      BY <1>2, <1>10, <2>2, <2>3, <2>6 DEF InPlay, ChangesSettings
    <3>2. y \notin void
      <4>1. InPlay(m.settings.secret)
        BY <1>1, <1>2, <1>3, <1>6 DEF InPlay, ChangesSettings
      <4>2. InPlay(y)
        BY <3>1, <4>1 DEF InPlay
      <4> QED BY <2>1, <4>2
    <3>3. renewed => y # old
      BY <1>3, <1>6, <2>4, <2>5, <3>1
    <3> QED BY <1>2, <3>2, <3>3
  <2> QED BY <2>2, <2>6 DEF Replaces
<1> QED BY <1>11, <1>12, <1>13 DEF GivenUpInv, LiveInv

LEMMA GivenUpStep == GivenUpInv /\ FileInvariant /\ OneOwner /\ [Next]_vars => GivenUpInv'
<1> SUFFICES ASSUME GivenUpInv, FileInvariant, OneOwner, [Next]_vars PROVE GivenUpInv'
  OBVIOUS
<1>1. CASE UNCHANGED vars
  <2>1. UNCHANGED <<file, host, request, sessions, void, fresh, disturbed>>
    BY <1>1 DEF vars
  <2> QED BY <2>1 DEF GivenUpInv, SessionInv, Issued, SecretInv, LiveInv, InPlay, NoSession,
                      Replaces, ChangesSettings, AtWork, Starting, Serving
<1>2. CASE Next
  BY <1>2, BeginKeepsSecrets, LoadKeepsSecrets, WritingKeepsSecrets, ServeKeepsSecrets,
     StopKeepsSecrets, SessionStepKeepsSecrets, CopyKeepsSecrets, RequestStepKeepsSecrets,
     PublishKeepsSecrets DEF Next
<1> QED BY <1>1, <1>2

(* What was given up opens no door again, neither a secret after its       *)
(* replacement nor a session after its end, restarts included, as long as  *)
(* no two changes overlapped and none broke off (regenerate_http_secret,   *)
(* http_auth_logout, is_http_authenticated).                               *)
THEOREM GivenUpNeverReturns == Spec => []GivenUpStaysOut
<1>1. GivenUpInv => GivenUpStaysOut
  <2> SUFFICES ASSUME GivenUpInv, ~disturbed, Up, NEW l \in Listeners
               PROVE  Accepted(l) \cap void = {}
    BY DEF GivenUpStaysOut
  <2>1. Owner \in Processes /\ Serving(Owner)
    BY OwnerServes
  <2>2. host[Owner].memory.settings.secret \notin void
    BY <2>1 DEF GivenUpInv, LiveInv, InPlay
  <2>3. Override \notin void
    BY ConfigAssumption DEF GivenUpInv, SessionInv, Issued
  <2>4. Effective(Owner) \notin void
    BY <2>2, <2>3 DEF Effective
  <2> QED BY <2>4 DEF GivenUpInv, SessionInv, Accepted
<1> QED BY GivenUpInit, GivenUpStep, FilesInvariant, LockMeansOwner, <1>1, PTL DEF Spec

-----------------------------------------------------------------------------
(* The numbers.  Whatever holds settings names a secret and an identity    *)
(* that the counter has made, or none; memory is empty until it is loaded. *)
InUse(s) ==
    \/ file.settings # Unreadable /\ s = file.settings
    \/ \E h \in Processes : HasLoaded(h) /\ s = host[h].memory.settings
    \/ \E c \in Clients : ChangesSettings(c) /\ s = request[c].copy
Made(s, n) == s.secret \in 0..n /\ s.instance \in 0..n
Bounds == fresh \in 0..MaxFresh /\ starts \in 0..MaxStarts /\ lock \in Processes \cup {None}
EmptyBefore == \A h \in Processes : ~HasLoaded(h) => host[h].memory = None
NumbersInv == Bounds /\ EmptyBefore /\ \A s : InUse(s) => Made(s, fresh)

LEMMA NumbersInit == Init => NumbersInv
<1> SUFFICES ASSUME Init PROVE NumbersInv
  OBVIOUS
<1>1. /\ \A h \in Processes : host[h].stage = "off" /\ host[h].memory = None
      /\ \A c \in Clients : ~AtWork(c)
      /\ lock = None /\ starts = 0
  BY DEF Init, Off, AtWork, NoRequest
<1>2. fresh \in {0, 2} /\ (file.settings # Unreadable => Made(file.settings, fresh))
  <2>1. file \in Installations /\ fresh = IF Nameless(file.settings) THEN 0 ELSE 2
    BY DEF Init
  <2>2. CASE file.settings = Unreadable
    BY <2>1, <2>2
  <2>3. CASE file.settings = [secret |-> Empty, instance |-> Empty, port |-> DefaultPort]
    BY <2>1, <2>3 DEF Nameless, Empty, Made
  <2>4. CASE file.settings = [secret |-> 1, instance |-> 2, port |-> DefaultPort]
    BY <2>1, <2>4 DEF Nameless, Empty, Made
  <2> QED BY <2>1, <2>2, <2>3, <2>4 DEF Installations
<1>3. Bounds
  BY <1>1, <1>2, ConfigAssumption DEF Bounds
<1>4. \A s : InUse(s) => Made(s, fresh)
  BY <1>1, <1>2 DEF InUse, HasLoaded, ChangesSettings
<1> QED BY <1>1, <1>3, <1>4 DEF NumbersInv, EmptyBefore

(* What a step has to show: settings in use are those of before, or made   *)
(* of numbers the counter has reached.                                     *)
LEMMA NumbersGoOn ==
    ASSUME NumbersInv, Bounds', fresh <= fresh', EmptyBefore',
           \A s : InUse(s)' => InUse(s) \/ Made(s, fresh')
    PROVE  NumbersInv'
<1>1. fresh \in Nat /\ fresh' \in Nat
  BY DEF NumbersInv, Bounds
<1>2. \A s : Made(s, fresh) => Made(s, fresh')
  BY <1>1 DEF Made
<1> QED BY <1>2 DEF NumbersInv

(* No memory changes but that of a process that ends.                      *)
MemoriesStay ==
    \A k \in Processes :
        /\ HasLoaded(k)' => HasLoaded(k)
        /\ host'[k].memory = IF HasLoaded(k) /\ ~HasLoaded(k)' THEN None ELSE host[k].memory

LEMMA NumbersStay ==
    ASSUME NumbersInv, MemoriesStay, fresh' = fresh, starts' \in 0..MaxStarts,
           lock' \in Processes \cup {None},
           file'.settings = Unreadable \/ InUse(file'.settings),
           \A c \in Clients : ChangesSettings(c)' =>
               ChangesSettings(c) /\ request'[c].copy = request[c].copy
    PROVE  NumbersInv'
<1>1. Bounds' /\ fresh <= fresh'
  BY DEF NumbersInv, Bounds
<1>2. EmptyBefore'
  BY DEF NumbersInv, EmptyBefore, MemoriesStay
<1>3. ASSUME NEW s, InUse(s)' PROVE InUse(s)
  <2>1. CASE file'.settings # Unreadable /\ s = file'.settings
    BY <2>1
  <2>2. CASE \E h \in Processes : HasLoaded(h)' /\ s = host'[h].memory.settings
    BY <2>2 DEF MemoriesStay, InUse
  <2>3. CASE \E c \in Clients : ChangesSettings(c)' /\ s = request'[c].copy
    BY <2>3 DEF InUse
  <2> QED BY <1>3, <2>1, <2>2, <2>3 DEF InUse
<1> QED BY <1>1, <1>2, <1>3, NumbersGoOn

LEMMA StartKeepsNumbers ==
    ASSUME FileInvariant, NumbersInv, NEW h \in Processes,
           Begin(h) \/ ReadPort(h) \/ FailAtStart(h) \/ Serve(h)
    PROVE  NumbersInv'
<1>1. /\ UNCHANGED <<file, request, fresh>>
      /\ starts' \in 0..MaxStarts /\ lock' \in Processes \cup {None}
  <2>1. CASE Begin(h)
    BY <2>1, ConfigAssumption DEF Begin, NumbersInv, Bounds
  <2>2. CASE ReadPort(h)
    BY <2>2 DEF ReadPort, NumbersInv, Bounds
  <2>3. CASE FailAtStart(h)
    BY <2>3 DEF FailAtStart, NumbersInv, Bounds
  <2>4. CASE Serve(h)
    BY <2>4 DEF Serve, NumbersInv, Bounds
  <2> QED BY <2>1, <2>2, <2>3, <2>4
<1>2. MemoriesStay
  <2>1. CASE Begin(h)
    <3>1. host[h].stage = "off" /\ Moved(h, "port", host[h].memory, host[h].todo)
      BY <2>1, StageMoved DEF Begin, FileInvariant, Shapes, Stages
    <3> QED BY <3>1 DEF MemoriesStay, Moved, HasLoaded
  <2>2. CASE ReadPort(h)
    <3>1. PICK v \in Nat : host' = [host EXCEPT ![h].port = v]
      BY <2>2, ConfigAssumption DEF ReadPort, FileInvariant, Shapes, FileSet, SettingsFile
    <3>2. Moved(h, host[h].stage, host[h].memory, host[h].todo)
      BY <3>1, PortMoved DEF FileInvariant, Shapes
    <3> QED BY <3>2 DEF MemoriesStay, Moved, HasLoaded
  <2>3. CASE FailAtStart(h)
    <3>1. /\ host[h].stage \in {"loaded", "writing"} /\ host[h].todo # <<>>
          /\ host' = [host EXCEPT ![h].stage = "loaded", ![h].todo = Tail(host[h].todo)]
      BY <2>3 DEF FailAtStart, FileInvariant, Sound
    <3>2. host[h].todo \in Seq(Documents)
      BY DEF FileInvariant, Shapes, HostSet
    <3>3. Moved(h, "loaded", host[h].memory, Tail(host[h].todo))
      BY <3>1, <3>2, HeadAndTail, TodoMoved DEF FileInvariant, Shapes, Stages
    <3>4. /\ host'[h].stage = "loaded" /\ host'[h].memory = host[h].memory
          /\ \A k \in Processes \ {h} : host'[k] = host[k]
      BY <3>3 DEF Moved
    <3>5. HasLoaded(h) /\ HasLoaded(h)'
      BY <3>1, <3>4 DEF HasLoaded
    <3>6. \A k \in Processes \ {h} : HasLoaded(k)' = HasLoaded(k)
      BY <3>4 DEF HasLoaded
    <3> QED BY <3>4, <3>5, <3>6 DEF MemoriesStay
  <2>4. CASE Serve(h)
    <3>1. host[h].stage = "loaded"
      BY <2>4 DEF Serve
    <3>2. PICK s \in {"serving", "client"} : host' = [host EXCEPT ![h].stage = s]
      BY <2>4 DEF Serve
    <3>3. Moved(h, s, host[h].memory, host[h].todo)
      BY <3>2, StageMoved DEF FileInvariant, Shapes, Stages
    <3> QED BY <3>1, <3>3 DEF MemoriesStay, Moved, HasLoaded
  <2> QED BY <2>1, <2>2, <2>3, <2>4
<1>3. \A c \in Clients : ChangesSettings(c)' =>
          ChangesSettings(c) /\ request'[c].copy = request[c].copy
  BY <1>1 DEF ChangesSettings, AtWork
<1>4. file'.settings = Unreadable \/ InUse(file'.settings)
  BY <1>1 DEF InUse
<1> QED BY <1>1, <1>2, <1>3, <1>4, NumbersStay

LEMMA WritingKeepsNumbers ==
    ASSUME FileInvariant, NumbersInv, NEW h \in Processes, OpenAtStart(h) \/ WriteAtStart(h)
    PROVE  NumbersInv'
<1>1. /\ UNCHANGED <<request, fresh, starts, lock>>
      /\ host[h].stage \in {"loaded", "writing"} /\ host[h].todo # <<>>
  BY DEF OpenAtStart, WriteAtStart, FileInvariant, Sound
<1>2. host[h].todo \in Seq(Documents) /\ host[h].memory \in Memory
  BY <1>1 DEF FileInvariant, Shapes, HostSet, Sound, HasLoaded
<1>3. Head(host[h].todo) \in Documents /\ Tail(host[h].todo) \in Seq(Documents)
  BY <1>1, <1>2, HeadAndTail
<1>4. MemoriesStay
  <2>1. CASE OpenAtStart(h)
    <3>1. Moved(h, "writing", host[h].memory, host[h].todo)
      BY <2>1, StageMoved DEF OpenAtStart, FileInvariant, Shapes, Stages
    <3> QED BY <1>1, <3>1 DEF MemoriesStay, Moved, HasLoaded
  <2>2. CASE WriteAtStart(h)
    <3>1. Moved(h, "loaded", host[h].memory, Tail(host[h].todo))
      BY <1>3, <2>2, TodoMoved DEF WriteAtStart, FileInvariant, Shapes, Stages
    <3>2. /\ host'[h].stage = "loaded" /\ host'[h].memory = host[h].memory
          /\ \A k \in Processes \ {h} : host'[k] = host[k]
      BY <3>1 DEF Moved
    <3>3. HasLoaded(h) /\ HasLoaded(h)'
      BY <1>1, <3>2 DEF HasLoaded
    <3>4. \A k \in Processes \ {h} : HasLoaded(k)' = HasLoaded(k)
      BY <3>2 DEF HasLoaded
    <3> QED BY <3>2, <3>3, <3>4 DEF MemoriesStay
  <2> QED BY <2>1, <2>2
<1>5. file'.settings = Unreadable \/ file'.settings = file.settings
        \/ file'.settings = host[h].memory.settings
  <2>1. CASE OpenAtStart(h)
    <3>1. Put(Head(host[h].todo), Unreadable)
      BY <1>3, <2>1, FilePut DEF OpenAtStart, FileInvariant, Shapes
    <3> QED BY <3>1 DEF Put, Documents
  <2>2. CASE WriteAtStart(h)
    <3>1. host[h].memory[Head(host[h].todo)] \in DocOf(Head(host[h].todo))
      BY <1>2, <1>3 DEF Memory, DocOf, Documents
    <3>2. Put(Head(host[h].todo), host[h].memory[Head(host[h].todo)])
      BY <1>3, <2>2, <3>1, FilePut DEF WriteAtStart, FileInvariant, Shapes
    <3> QED BY <3>2 DEF Put, Documents
  <2> QED BY <2>1, <2>2
<1>6. file'.settings = Unreadable \/ InUse(file'.settings)
  BY <1>1, <1>5 DEF InUse, HasLoaded
<1>7. starts' \in 0..MaxStarts /\ lock' \in Processes \cup {None}
  BY <1>1 DEF NumbersInv, Bounds
<1>8. \A c \in Clients : ChangesSettings(c)' =>
          ChangesSettings(c) /\ request'[c].copy = request[c].copy
  BY <1>1 DEF ChangesSettings, AtWork
<1> QED BY <1>1, <1>4, <1>6, <1>7, <1>8, NumbersStay

LEMMA StopKeepsNumbers ==
    ASSUME FileInvariant, NumbersInv, NEW h \in Processes, Stop(h) PROVE NumbersInv'
<1>1. /\ host' = [host EXCEPT ![h] = Off]
      /\ UNCHANGED <<file, fresh, starts>>
      /\ request' = IF Serving(h) THEN [c \in Clients |-> NoRequest] ELSE request
      /\ lock' = IF lock = h THEN None ELSE lock
  BY DEF Stop
<1>2. Moved(h, "off", None, <<>>)
  BY <1>1, OffMoved DEF FileInvariant, Shapes
<1>3. MemoriesStay
  BY <1>2 DEF MemoriesStay, Moved, HasLoaded, NumbersInv, EmptyBefore
<1>4. \A c \in Clients : AtWork(c)' => AtWork(c) /\ request'[c] = request[c]
  BY <1>1 DEF AtWork, NoRequest
<1>5. \A c \in Clients : ChangesSettings(c)' =>
          ChangesSettings(c) /\ request'[c].copy = request[c].copy
  BY <1>4 DEF ChangesSettings
<1>6. starts' \in 0..MaxStarts /\ lock' \in Processes \cup {None}
  BY <1>1 DEF NumbersInv, Bounds
<1>7. file'.settings = Unreadable \/ InUse(file'.settings)
  BY <1>1 DEF InUse
<1> QED BY <1>1, <1>3, <1>5, <1>6, <1>7, NumbersStay

LEMMA LoadKeepsNumbers ==
    ASSUME FileInvariant, NumbersInv, NEW h \in Processes, Load(h) PROVE NumbersInv'
<1> DEFINE found == Loaded(file.settings, DefaultSettings(fresh))
           settings == Repaired(found, fresh)
           plans == Loaded(file.plans, NoPlans)
           m == [settings |-> settings, plans |-> Canonical(plans)]
           t == (IF NeedsRepair(found) THEN <<"settings">> ELSE <<>>)
                    \o (IF plans # Canonical(plans) THEN <<"plans">> ELSE <<>>)
                    \o <<"settings">>
<1>1. /\ host[h].stage = "port"
      /\ host' = [host EXCEPT ![h].stage = "loaded", ![h].memory = m, ![h].todo = t]
      /\ fresh' = IF file.settings = Unreadable \/ NeedsRepair(found) THEN fresh + 2 ELSE fresh
      /\ file.settings = Unreadable \/ NeedsRepair(file.settings) => fresh + 2 <= MaxFresh
      /\ UNCHANGED <<file, request, lock, starts>>
  BY DEF Load
<1>2. file \in FileSet /\ fresh \in 0..MaxFresh /\ fresh \in Nat /\ MaxFresh \in Nat
  BY ConfigAssumption DEF FileInvariant, Shapes, NumbersInv, Bounds
<1>3. m \in Memory /\ m.settings = settings
  BY <1>2, DocumentsLoaded DEF Memory
<1>4. Made(settings, fresh') /\ fresh' \in 0..MaxFresh /\ fresh <= fresh'
  <2>1. CASE file.settings = Unreadable
    <3>1. /\ found.secret = fresh + 1 /\ found.instance = fresh + 2
          /\ found = DefaultSettings(fresh)
      BY <2>1 DEF Loaded, DefaultSettings
    <3>2. settings = found
      BY <1>2, <3>1 DEF Repaired, Empty, DefaultSettings
    <3> QED BY <1>1, <1>2, <2>1, <3>1, <3>2 DEF Made
  <2>2. CASE file.settings # Unreadable
    <3>1. found = file.settings /\ found \in SettingsFile /\ Made(found, fresh)
      BY <1>2, <2>2 DEF Loaded, FileSet, NumbersInv, InUse
    <3>2. /\ settings.secret = IF found.secret = Empty THEN fresh + 1 ELSE found.secret
          /\ settings.instance = IF found.instance = Empty THEN fresh + 2 ELSE found.instance
      BY <3>1 DEF Repaired, SettingsFile
    <3>3. CASE NeedsRepair(found)
      <4>1. fresh' = fresh + 2 /\ fresh + 2 <= MaxFresh
        BY <1>1, <3>1, <3>3
      <4>2. found.secret \in 0..fresh /\ found.instance \in 0..fresh
        BY <3>1 DEF Made
      <4>3. settings.secret \in 0..(fresh + 2) /\ settings.instance \in 0..(fresh + 2)
        BY <1>2, <3>2, <4>2
      <4> QED BY <1>2, <4>1, <4>3 DEF Made
    <3>4. CASE ~NeedsRepair(found)
      <4>1. fresh' = fresh
        BY <1>1, <2>2, <3>4
      <4> QED BY <1>2, <3>1, <3>2, <3>4, <4>1 DEF Made, NeedsRepair
    <3> QED BY <3>3, <3>4
  <2> QED BY <2>1, <2>2
<1> HIDE DEF m, t, found, plans
<1>5. \E u : host' = [host EXCEPT ![h].stage = "loaded", ![h].memory = m, ![h].todo = u]
  BY <1>1
<1>6. /\ host'[h].stage = "loaded" /\ host'[h].memory = m
      /\ \A k \in Processes \ {h} : host'[k] = host[k]
  BY <1>3, <1>5 DEF FileInvariant, Shapes, HostSet
<1> HIDE DEF settings
<1>7. EmptyBefore'
  BY <1>6 DEF NumbersInv, EmptyBefore, HasLoaded
<1>8. Bounds'
  BY <1>1, <1>4 DEF NumbersInv, Bounds
<1>9. \A s : InUse(s)' => InUse(s) \/ Made(s, fresh')
  <2>1. ASSUME NEW k \in Processes, HasLoaded(k)'
        PROVE  \/ InUse(host'[k].memory.settings)
               \/ Made(host'[k].memory.settings, fresh')
    <3>1. CASE k = h
      BY <1>3, <1>4, <1>6, <3>1
    <3>2. CASE k # h
      <4>1. host'[k] = host[k]
        BY <1>6, <3>2
      <4>2. HasLoaded(k)
        BY <2>1, <4>1 DEF HasLoaded
      <4> QED BY <4>1, <4>2 DEF InUse
    <3> QED BY <3>1, <3>2
  <2> QED BY <1>1, <2>1 DEF InUse, ChangesSettings, AtWork
<1> QED BY <1>4, <1>7, <1>8, <1>9, NumbersGoOn

LEMMA SessionKeepsNumbers ==
    ASSUME NumbersInv, NEW c \in Clients, NEW l \in Listeners, Login(c, l) \/ Logout(c, l)
    PROVE  NumbersInv'
<1>1. UNCHANGED <<file, host, request, lock, starts>>
  BY DEF Login, Logout
<1>2. fresh \in Nat /\ MaxFresh \in Nat
  BY ConfigAssumption DEF NumbersInv, Bounds
<1>3. fresh' \in 0..MaxFresh /\ fresh <= fresh'
  <2>1. CASE Login(c, l)
    BY <1>2, <2>1 DEF Login, NumbersInv, Bounds
  <2>2. CASE Logout(c, l)
    BY <1>2, <2>2 DEF Logout, NumbersInv, Bounds
  <2> QED BY <2>1, <2>2
<1>4. Bounds'
  BY <1>1, <1>3 DEF NumbersInv, Bounds
<1>5. EmptyBefore' /\ \A s : InUse(s)' => InUse(s)
  BY <1>1 DEF NumbersInv, EmptyBefore, HasLoaded, InUse, ChangesSettings, AtWork
<1> QED BY <1>3, <1>4, <1>5, NumbersGoOn

LEMMA CopyKeepsNumbers ==
    ASSUME FileInvariant, NumbersInv, NEW c \in Clients, NEW op \in Operations, Copy(c, op)
    PROVE  NumbersInv'
<1> DEFINE d == DocumentOf(op)
           m == host[Owner].memory
           x == Changed(op, m[d], fresh)
<1>1. /\ Up
      /\ request' = [request EXCEPT ![c] = [stage |-> "copied", op |-> op, copy |-> x]]
      /\ op.kind = "regenerate" => fresh < MaxFresh
      /\ fresh' = IF op.kind = "regenerate" THEN fresh + 1 ELSE fresh
      /\ UNCHANGED <<file, host, lock, starts>>
  BY DEF Copy
<1>2. Owner \in Processes /\ HasLoaded(Owner) /\ m \in Memory
  BY <1>1, OwnerServes DEF FileInvariant, Sound, Serving, HasLoaded
<1>3. fresh \in 0..MaxFresh /\ fresh \in Nat /\ MaxFresh \in Nat
  BY ConfigAssumption DEF NumbersInv, Bounds
<1>4. fresh' \in 0..MaxFresh /\ fresh <= fresh' /\ fresh' \in Nat
  BY <1>1, <1>3
<1>5. Made(m.settings, fresh)
  BY <1>2 DEF NumbersInv, InUse
<1>6. d = "settings" => Made(x, fresh')
  <2>1. CASE op.kind = "update"
    <3>1. x = [m.settings EXCEPT !.port = AtLeastOne(op.port)]
      BY <2>1 DEF Changed, DocumentOf
    <3>2. x.secret = m.settings.secret /\ x.instance = m.settings.instance
      BY <1>2, <3>1 DEF Memory, SettingsDoc
    <3> QED BY <1>3, <1>4, <1>5, <3>2 DEF Made
  <2>2. CASE op.kind = "regenerate"
    <3>1. x = [m.settings EXCEPT !.secret = fresh + 1]
      BY <2>2 DEF Changed, DocumentOf
    <3>2. x.secret = fresh + 1 /\ x.instance = m.settings.instance
      BY <1>2, <3>1 DEF Memory, SettingsDoc
    <3> QED BY <1>1, <1>3, <1>4, <1>5, <2>2, <3>2 DEF Made
  <2> QED BY <2>1, <2>2 DEF DocumentOf
<1>7. x \in CopyOf(op)
  BY <1>2, <1>3, ChangedIsSound
<1> HIDE DEF x
<1>8. Asked(c, "copied", op, x)
  BY <1>1, <1>7, CopyAsked DEF FileInvariant, Shapes
<1>9. \A s : InUse(s)' => InUse(s) \/ Made(s, fresh')
  <2>1. ASSUME NEW k \in Clients, ChangesSettings(k)'
        PROVE  InUse(request'[k].copy) \/ Made(request'[k].copy, fresh')
    <3>1. CASE k = c
      BY <1>6, <1>8, <2>1, <3>1 DEF Asked, ChangesSettings
    <3>2. CASE k # c
      BY <1>8, <2>1, <3>2 DEF Asked, ChangesSettings, AtWork, InUse
    <3> QED BY <3>1, <3>2
  <2> QED BY <1>1, <2>1 DEF InUse, HasLoaded
<1>10. Bounds' /\ EmptyBefore'
  BY <1>1, <1>4 DEF NumbersInv, Bounds, EmptyBefore, HasLoaded
<1> QED BY <1>4, <1>9, <1>10, NumbersGoOn

LEMMA RequestKeepsNumbers ==
    ASSUME FileInvariant, NumbersInv, NEW c \in Clients, Open(c) \/ Write(c) \/ Fail(c)
    PROVE  NumbersInv'
<1>1. AtWork(c) /\ UNCHANGED <<host, fresh, starts, lock>>
  <2>1. CASE Open(c)
    BY <2>1 DEF Open, AtWork
  <2>2. CASE Write(c)
    BY <2>2 DEF Write, AtWork
  <2>3. CASE Fail(c)
    BY <2>3 DEF Fail, AtWork
  <2> QED BY <2>1, <2>2, <2>3
<1>2. \A k \in Clients : AtWork(k)' => /\ AtWork(k)
                                       /\ request'[k].op = request[k].op
                                       /\ request'[k].copy = request[k].copy
  <2>1. CASE Open(c)
    <3>1. Asked(c, "writing", request[c].op, request[c].copy)
      BY <2>1, StageAsked DEF Open, FileInvariant, Shapes, RequestStages
    <3> QED BY <1>1, <3>1 DEF Asked, AtWork
  <2>2. CASE Write(c)
    <3>1. Asked(c, "written", request[c].op, request[c].copy)
      BY <2>2, StageAsked DEF Write, FileInvariant, Shapes, RequestStages
    <3> QED BY <1>1, <3>1 DEF Asked, AtWork
  <2>3. CASE Fail(c)
    <3>1. Asked(c, "none", None, None)
      BY <2>3, AnswerAsked DEF Fail, FileInvariant, Shapes
    <3> QED BY <1>1, <3>1 DEF Asked, AtWork
  <2> QED BY <2>1, <2>2, <2>3
<1>3. \/ file'.settings \in {Unreadable, file.settings}
      \/ ChangesSettings(c) /\ file'.settings = request[c].copy
  <2>1. CASE Open(c)
    <3>1. PICK d \in Documents : file' = [file EXCEPT ![d] = Unreadable]
      BY <2>1 DEF Open, DocumentOf, Documents
    <3>2. Put(d, Unreadable)
      BY <3>1, FilePut DEF FileInvariant, Shapes
    <3> QED BY <3>2 DEF Put, Documents
  <2>2. CASE Write(c)
    <3>1. PICK d, x : /\ d = DocumentOf(request[c].op) /\ x = request[c].copy
                      /\ file' = [file EXCEPT ![d] = x]
      BY <2>2 DEF Write
    <3>2. d \in Documents /\ x \in DocOf(d)
      BY <1>1, <3>1 DEF DocumentOf, Documents, FileInvariant, Sound, UnderWay, CopyOf
    <3>3. Put(d, x)
      BY <3>1, <3>2, FilePut DEF FileInvariant, Shapes
    <3> QED BY <1>1, <3>1, <3>2, <3>3 DEF Put, Documents, ChangesSettings
  <2>3. CASE Fail(c)
    BY <2>3 DEF Fail
  <2> QED BY <2>1, <2>2, <2>3
<1>4. MemoriesStay
  BY <1>1 DEF MemoriesStay, HasLoaded
<1>5. file'.settings = Unreadable \/ InUse(file'.settings)
  BY <1>3 DEF InUse
<1>6. \A k \in Clients : ChangesSettings(k)' =>
          ChangesSettings(k) /\ request'[k].copy = request[k].copy
  BY <1>2 DEF ChangesSettings
<1>7. starts' \in 0..MaxStarts /\ lock' \in Processes \cup {None}
  BY <1>1 DEF NumbersInv, Bounds
<1> QED BY <1>1, <1>4, <1>5, <1>6, <1>7, NumbersStay

LEMMA PublishKeepsNumbers ==
    ASSUME FileInvariant, NumbersInv, NEW c \in Clients, Publish(c) PROVE NumbersInv'
<1>1. PICK d, x, o : /\ d = DocumentOf(request[c].op) /\ x = request[c].copy /\ o = Owner
  OBVIOUS
<1> DEFINE m == [host[o].memory EXCEPT ![d] = x]
<1>2. /\ AtWork(c)
      /\ host' = [host EXCEPT ![o] = [host[o] EXCEPT !.memory = m]]
      /\ request' = Answer(c)
      /\ UNCHANGED <<file, fresh, lock, starts>>
  BY <1>1 DEF Publish, AtWork
<1>3. /\ d \in Documents /\ x \in DocOf(d) /\ Up
      /\ o \in Processes /\ HasLoaded(o)
  BY <1>1, <1>2, OwnerServes
     DEF DocumentOf, Documents, FileInvariant, Sound, UnderWay, CopyOf, Serving, HasLoaded
<1>4. host[o].memory \in Memory
  BY <1>3 DEF FileInvariant, Sound
<1>5. m \in Memory /\ m[d] = x /\ \A e \in Documents \ {d} : m[e] = host[o].memory[e]
  BY <1>3, <1>4, MemoryReplaced
<1>6. m.settings = IF d = "settings" THEN x ELSE host[o].memory.settings
  BY <1>3, <1>5 DEF Documents
<1> HIDE DEF m
<1>7. Moved(o, host[o].stage, m, host[o].todo)
  BY <1>2, <1>3, <1>5, MemoryMoved DEF FileInvariant, Shapes
<1>8. Asked(c, "none", None, None)
  BY <1>2, AnswerAsked DEF FileInvariant, Shapes
<1>9. InUse(m.settings)
  BY <1>1, <1>2, <1>3, <1>6 DEF InUse, ChangesSettings
<1>10. \A s : InUse(s)' => InUse(s)
  <2>1. ASSUME NEW k \in Processes, HasLoaded(k)' PROVE InUse(host'[k].memory.settings)
    <3>1. CASE k = o
      BY <1>7, <1>9, <3>1 DEF Moved
    <3>2. CASE k # o
      <4>1. host'[k] = host[k]
        BY <1>7, <3>2 DEF Moved
      <4> QED BY <2>1, <4>1 DEF HasLoaded, InUse
    <3> QED BY <3>1, <3>2
  <2>2. ASSUME NEW k \in Clients, ChangesSettings(k)' PROVE InUse(request'[k].copy)
    BY <1>8, <2>2 DEF Asked, ChangesSettings, AtWork, InUse
  <2> QED BY <1>2, <2>1, <2>2 DEF InUse
<1>11. EmptyBefore'
  <2>1. ASSUME NEW k \in Processes, ~HasLoaded(k)' PROVE host'[k].memory = None
    <3>1. k # o
      BY <1>3, <1>7, <2>1 DEF Moved, HasLoaded
    <3>2. host'[k] = host[k]
      BY <1>7, <3>1 DEF Moved
    <3> QED BY <2>1, <3>2 DEF NumbersInv, EmptyBefore, HasLoaded
  <2> QED BY <2>1 DEF EmptyBefore
<1>12. Bounds' /\ fresh <= fresh'
  BY <1>2 DEF NumbersInv, Bounds
<1> QED BY <1>10, <1>11, <1>12, NumbersGoOn

LEMMA NumbersStep == NumbersInv /\ FileInvariant /\ [Next]_vars => NumbersInv'
<1> SUFFICES ASSUME NumbersInv, FileInvariant, [Next]_vars PROVE NumbersInv'
  OBVIOUS
<1>1. CASE UNCHANGED vars
  <2>1. UNCHANGED <<file, host, request, fresh, starts, lock>>
    BY <1>1 DEF vars
  <2> QED BY <2>1 DEF NumbersInv, Bounds, EmptyBefore, InUse, HasLoaded, ChangesSettings, AtWork
<1>2. CASE Next
  BY <1>2, StartKeepsNumbers, LoadKeepsNumbers, WritingKeepsNumbers, StopKeepsNumbers,
     SessionKeepsNumbers, CopyKeepsNumbers, RequestKeepsNumbers, PublishKeepsNumbers DEF Next
<1> QED BY <1>1, <1>2

(* Every variable keeps its type: what is in a file, in memory or in a     *)
(* session is of the counter's making (start_app_server,                   *)
(* load_runtime_settings, regenerate_http_secret).                         *)
THEOREM ConfigTypesHold == Spec => []TypeOK
<1>1. FileInvariant /\ GivenUpInv /\ NumbersInv => TypeOK
  <2> SUFFICES ASSUME FileInvariant, GivenUpInv, NumbersInv PROVE TypeOK
    OBVIOUS
  <2>1. fresh \in 0..MaxFresh /\ fresh \in Nat /\ MaxFresh \in Nat
    BY ConfigAssumption DEF NumbersInv, Bounds
  <2>2. \A s : Made(s, fresh) => s.secret \in 0..MaxFresh /\ s.instance \in 0..MaxFresh
    BY <2>1 DEF Made
  <2>3. /\ file.settings \in Settings \cup {Unreadable}
        /\ file.plans \in PlansFile \cup {Unreadable}
    <3>1. /\ file.settings \in SettingsFile \cup {Unreadable}
          /\ file.plans \in PlansFile \cup {Unreadable}
      BY DEF FileInvariant, Shapes, FileSet
    <3>2. file.settings # Unreadable =>
              file.settings.secret \in 0..MaxFresh /\ file.settings.instance \in 0..MaxFresh
      BY <2>2 DEF NumbersInv, InUse
    <3> QED BY <3>1, <3>2 DEF SettingsFile, Settings
  <2>4. ASSUME NEW h \in Processes
        PROVE  /\ host[h].stage \in Stages /\ host[h].todo \in Seq(Documents)
               /\ host[h].memory # None => /\ host[h].memory.settings \in Settings
                                           /\ host[h].memory.plans \in PlansFile
    <3>1. /\ host[h].stage \in Stages /\ host[h].todo \in Seq(Documents)
          /\ host[h].memory # None => host[h].memory \in Memory
      BY DEF FileInvariant, Shapes, HostSet
    <3>2. ASSUME host[h].memory # None
          PROVE  host[h].memory.settings \in Settings /\ host[h].memory.plans \in PlansFile
      <4>1. HasLoaded(h)
        BY <3>2 DEF NumbersInv, EmptyBefore
      <4>2. /\ host[h].memory.settings.secret \in 0..MaxFresh
            /\ host[h].memory.settings.instance \in 0..MaxFresh
        BY <2>2, <4>1 DEF NumbersInv, InUse
      <4>3. host[h].memory.settings \in SettingsDoc /\ host[h].memory.plans \in PlansDoc
        BY <3>1, <3>2 DEF Memory
      <4>4. PlansDoc \subseteq PlansFile
        BY DEF PlansDoc, PlansFile
      <4> QED BY <4>2, <4>3, <4>4 DEF SettingsDoc, Settings
    <3> QED BY <3>1, <3>2
  <2>5. \A c \in Clients : request[c].stage \in {"none", "copied", "writing", "written"}
    BY DEF FileInvariant, Shapes, RequestSet, RequestStages
  <2>6. \A l \in Listeners : sessions[l] \subseteq 0..MaxFresh
    BY <2>1 DEF GivenUpInv, SessionInv, Issued
  <2> QED BY <2>1, <2>3, <2>4, <2>5, <2>6 DEF TypeOK, NumbersInv, Bounds
<1>2. Spec => []NumbersInv
  BY NumbersInit, NumbersStep, FilesInvariant, PTL DEF Spec
<1>3. Spec => []GivenUpInv
  BY GivenUpInit, GivenUpStep, FilesInvariant, LockMeansOwner, PTL DEF Spec
<1> QED BY <1>1, <1>2, <1>3, FilesInvariant, PTL
=============================================================================
