---------------------------- MODULE ProviderAdmin ----------------------------
(***************************************************************************)
(* The providers of the service: their manifests, in files and in the      *)
(* registry; the cache of the options that each offers; and the three that *)
(* work on them: the clients, the background loop, and the automatic       *)
(* disabling of a provider that answers that its balance is too low.  The  *)
(* registry is changed under its write lock, whole operations at a time;   *)
(* everything else happens between two locks or across a call to the       *)
(* provider.                                                               *)
(* A manifest is kept as its revision and whether it is enabled; a         *)
(* priority is part of the revision.                                       *)
(***************************************************************************)
EXTENDS Naturals, Sequences, FiniteSets, SequencesExt, Selections

CONSTANTS
    Order,          \* the ids of the providers, mocks aside, as they are listed
    Drained,        \* those that answer that their balance is too low
    Clients,        \* of the API
    Loop,           \* the background loop
    Bad,            \* a file that is no manifest
    None,           \* no file, no manifest, no entry
    MaxEdits        \* bound of the revisions

ASSUME AdminAssumption ==
    /\ Order \in Seq(Range(Order))
    /\ Drained \subseteq Range(Order) /\ Loop \notin Clients
    /\ MaxEdits \in Nat

VARIABLES
    file,           \* provider -> its manifest file
    registry,       \* provider -> its manifest in memory
    options,        \* provider -> its entry of provider_option_cache
    optionsFile,    \* provider -> its entry in provider-options-cache.json
    job,            \* who works -> what it has still to do
    edits,          \* the last revision
    foreign         \* providers whose file was not written by the registry

registryVars == <<file, registry, edits, foreign>>
cacheVars == <<options, optionsFile>>
vars == <<registryVars, cacheVars, job>>

Providers == Range(Order)
Workers == Clients \cup {Loop}
Manifests == [enabled : BOOLEAN, rev : 0..MaxEdits]

-----------------------------------------------------------------------------
(* The registry.  A change is written to its file and everything is loaded *)
(* again from the files, if each of them can be read; otherwise the file   *)
(* is put back.                                                            *)
Readable(files) == \A p \in Providers : files[p] # Bad

Store(p, m) == [file EXCEPT ![p] = m]

(* Defect: the file is not put back.                                       *)
SaveWithoutRollback(p, m) ==
    /\ file' = Store(p, m)
    /\ registry' = IF Readable(Store(p, m)) THEN Store(p, m) ELSE registry
    /\ foreign' = IF Readable(Store(p, m)) THEN {} ELSE foreign

SaveManifest(p, m) ==
    IF Readable(Store(p, m))
    THEN /\ file' = Store(p, m)
         /\ registry' = Store(p, m)
         /\ foreign' = {}
    ELSE UNCHANGED <<file, registry, foreign>>

(* The file of p cannot be written, and is left as it was or truncated.    *)
TornFile(p) ==
    /\ file' \in {file, Store(p, Bad)}
    /\ foreign' = foreign \cup {p}
    /\ UNCHANGED registry

(* Priorities are given to the manifests in memory, which are written one  *)
(* after the other; what the files hold of them by now is overwritten.     *)
Reordered(S, rev) ==
    [p \in Providers |-> IF p \in S /\ registry[p] # None
                         THEN [registry[p] EXCEPT !.rev = rev] ELSE file[p]]
SetPriorities(S, rev) ==
    LET files == Reordered(S, rev)
    IN  /\ file' = files
        /\ IF Readable(files)
           THEN registry' = files /\ foreign' = {}
           ELSE /\ registry' = [p \in Providers |-> IF p \in S /\ registry[p] # None
                                                    THEN files[p] ELSE registry[p]]
                /\ foreign' = foreign \ {p \in S : registry[p] # None}

-----------------------------------------------------------------------------
Idle == [step |-> "idle", provider |-> None, copy |-> None, todo |-> <<>>,
         options |-> None]

Init ==
    /\ file \in [Providers -> {[enabled |-> FALSE, rev |-> 0]}]
    /\ registry = file
    /\ options = [p \in Providers |-> None]
    /\ optionsFile = options
    /\ job = [w \in Workers |-> Idle]
    /\ edits = 0
    /\ foreign = {}

Do(w, changes) == job' = [job EXCEPT ![w] = changes]

Listed(S) == Filtered(Order, S)

(* What a worker goes on with: the refreshes it has left, and the loop,    *)
(* once they are done, with the balances.                                  *)
Onward(w) == IF Tail(job[w].todo) = <<>> /\ w = Loop
             THEN [Idle EXCEPT !.step = "balances"]
             ELSE [Idle EXCEPT !.todo = Tail(job[w].todo),
                               !.step = IF Tail(job[w].todo) = <<>> THEN "idle" ELSE "refresh"]

-----------------------------------------------------------------------------
(* The clients' changes.                                                   *)
Fresh(p) == options[p] # None /\ options[p].fresh
CanEnable(p) == Fresh(p)

(* A client saves the whole manifest; one that is enabled needs fresh      *)
(* options.  A refresh of its options follows.                             *)
Save(w, p, enabled) ==
    /\ job[w].step = "idle"
    /\ edits < MaxEdits
    /\ enabled => CanEnable(p)
    /\ edits' = edits + 1
    /\ SaveManifest(p, [enabled |-> enabled, rev |-> edits + 1])
    /\ IF file' = file THEN UNCHANGED job
                       ELSE Do(w, [Idle EXCEPT !.step = "refresh", !.todo = <<p>>])
    /\ UNCHANGED <<cacheVars>>

(* The file of p cannot be written, for a manifest or for its priority;    *)
(* priorities that were written before it are put back.                    *)
WriteFails(w, p) ==
    /\ job[w].step = "idle"
    /\ edits < MaxEdits
    /\ edits' = edits + 1
    /\ TornFile(p)
    /\ UNCHANGED <<cacheVars, job>>

Reorder(w, S) ==
    /\ job[w].step = "idle"
    /\ edits < MaxEdits
    /\ edits' = edits + 1
    /\ SetPriorities(S, edits + 1)
    /\ UNCHANGED <<cacheVars, job>>

Reload ==
    /\ foreign # {}
    /\ Readable(file)
    /\ registry' = file
    /\ foreign' = {}
    /\ UNCHANGED <<file, edits, cacheVars, job>>

(* Someone edits, breaks, repairs or removes a file by hand.               *)
EditFile(p) ==
    /\ edits < MaxEdits
    /\ edits' = edits + 1
    /\ \E m \in {Bad, None, [enabled |-> FALSE, rev |-> edits + 1]} : file' = Store(p, m)
    /\ foreign' = foreign \cup {p}
    /\ UNCHANGED <<registry, cacheVars, job>>

-----------------------------------------------------------------------------
Current(w) == Head(job[w].todo)

(* A refresh of the options: the manifest is read, the provider asked, its *)
(* answer entered, and a copy of the whole cache saved.                    *)
AskOptions(w) ==
    /\ job[w].step = "idle"
    /\ w # Loop
    /\ \E p \in Providers : Do(w, [Idle EXCEPT !.step = "refresh", !.todo = <<p>>])
    /\ UNCHANGED <<registryVars, cacheVars>>

Discover(w) ==
    /\ job[w].step = "refresh"
    /\ registry[Current(w)] # None
    /\ Do(w, [job[w] EXCEPT !.step = "asked", !.copy = registry[Current(w)]])
    /\ UNCHANGED <<registryVars, cacheVars>>

Unknown(w) ==
    /\ job[w].step = "refresh"
    /\ registry[Current(w)] = None
    /\ Do(w, Onward(w))
    /\ UNCHANGED <<registryVars, cacheVars>>

(* The provider refuses, or its credentials are not valid.                 *)
Refuse(w) ==
    /\ job[w].step = "asked"
    /\ Do(w, Onward(w))
    /\ UNCHANGED <<registryVars, cacheVars>>

EnterOptions(w, p) ==
    /\ job[w].step = "asked"
    /\ Current(w) = p
    /\ options' = [options EXCEPT ![p] = [rev |-> job[w].copy.rev, fresh |-> TRUE]]
    /\ Do(w, [job[w] EXCEPT !.step = "entered",
                 !.options = [q \in Providers |-> IF options'[q] = None THEN None
                                                  ELSE options'[q].rev]])
    /\ UNCHANGED <<registryVars, optionsFile>>

SaveCache(w) ==
    /\ job[w].step = "entered"
    /\ optionsFile' = job[w].options
    /\ Do(w, Onward(w))
    /\ UNCHANGED <<registryVars, options>>

(* The time to live of an entry is over.                                   *)
Age(p) ==
    /\ Fresh(p)
    /\ options' = [options EXCEPT ![p].fresh = FALSE]
    /\ UNCHANGED <<registryVars, optionsFile, job>>

-----------------------------------------------------------------------------
(* The background loop: all options are refreshed as soon as one is stale  *)
(* or missing, then the balance of each enabled provider is asked for.     *)

(* Defect: only what was never there is missed.                            *)
PollTheMissing ==
    /\ job[Loop].step = "idle"
    /\ LET known == {p \in Providers : registry[p] # None}
       IN  IF \E p \in known : options[p] = None
           THEN Do(Loop, [Idle EXCEPT !.step = "refresh", !.todo = Listed(known)])
           ELSE Do(Loop, [Idle EXCEPT !.step = "balances"])
    /\ UNCHANGED <<registryVars, cacheVars>>

Poll ==
    /\ job[Loop].step = "idle"
    /\ LET known == {p \in Providers : registry[p] # None}
       IN  IF \E p \in known : ~Fresh(p)
           THEN Do(Loop, [Idle EXCEPT !.step = "refresh", !.todo = Listed(known)])
           ELSE Do(Loop, [Idle EXCEPT !.step = "balances"])
    /\ UNCHANGED <<registryVars, cacheVars>>

Balances ==
    /\ job[Loop].step = "balances"
    /\ LET asked == {p \in Providers : registry[p] # None /\ registry[p].enabled}
       IN  Do(Loop, IF asked = {} THEN Idle
                    ELSE [Idle EXCEPT !.step = "balance", !.todo = Listed(asked)])
    /\ UNCHANGED <<registryVars, cacheVars>>

(* What the loop does after the provider at the head of its list.          *)
NextBalance(w) == IF w # Loop \/ Tail(job[w].todo) = <<>> THEN Idle
                  ELSE [Idle EXCEPT !.step = "balance", !.todo = Tail(job[w].todo)]

(* An answer, or an error that is none about the balance.                  *)
BalanceKnown ==
    /\ job[Loop].step = "balance"
    /\ Current(Loop) \notin Drained
    /\ Do(Loop, NextBalance(Loop))
    /\ UNCHANGED <<registryVars, cacheVars>>

(* The provider says that its balance is too low, to the loop or to an     *)
(* acquisition of a client: its manifest is read, and nothing is done with *)
(* one that is not there or disabled already.                              *)
LowBalance(w, p) ==
    /\ p \in Drained
    /\ IF w = Loop THEN job[w].step = "balance" /\ Current(w) = p ELSE job[w].step = "idle"
    /\ IF registry[p] # None /\ registry[p].enabled
       THEN Do(w, [job[w] EXCEPT !.step = "disabling", !.provider = p, !.copy = registry[p]])
       ELSE Do(w, NextBalance(w))
    /\ UNCHANGED <<registryVars, cacheVars>>

(* Defect: the copy is saved as it is.                                     *)
DisableNothing(w) ==
    /\ job[w].step = "disabling"
    /\ SaveManifest(job[w].provider, job[w].copy)
    /\ Do(w, NextBalance(w))
    /\ UNCHANGED <<edits, cacheVars>>

(* Defect: what is saved is a new manifest.                                *)
DisableAnew(w) ==
    /\ job[w].step = "disabling"
    /\ SaveManifest(job[w].provider, [enabled |-> FALSE, rev |-> 0])
    /\ Do(w, NextBalance(w))
    /\ UNCHANGED <<edits, cacheVars>>

(* The copy is saved, disabled.                                            *)
Disable(w) ==
    /\ job[w].step = "disabling"
    /\ SaveManifest(job[w].provider, [job[w].copy EXCEPT !.enabled = FALSE])
    /\ Do(w, NextBalance(w))
    /\ UNCHANGED <<edits, cacheVars>>

-----------------------------------------------------------------------------
(* A restart; it needs every file to be a manifest.                        *)
Restart ==
    /\ edits < MaxEdits
    /\ Readable(file)
    /\ edits' = edits + 1
    /\ registry' = file
    /\ foreign' = {}
    /\ options' = [p \in Providers |->
                      IF optionsFile[p] = None THEN None
                      ELSE [rev |-> optionsFile[p], fresh |-> Fresh(p)]]
    /\ job' = [w \in Workers |-> Idle]
    /\ UNCHANGED <<file, optionsFile>>

Refreshing(w) ==
    \/ Discover(w) \/ Unknown(w) \/ Refuse(w)
    \/ \E p \in Providers : EnterOptions(w, p)
    \/ SaveCache(w)

LoopStep ==
    \/ Poll \/ Balances \/ BalanceKnown \/ Refreshing(Loop) \/ Disable(Loop)
    \/ \E p \in Providers : LowBalance(Loop, p)

Next ==
    \/ \E w \in Clients, p \in Providers :
          \/ \E enabled \in BOOLEAN : Save(w, p, enabled)
          \/ WriteFails(w, p)
    \/ \E w \in Clients, S \in SUBSET Providers : Reorder(w, S)
    \/ \E w \in Clients : AskOptions(w)
    \/ Reload \/ Restart
    \/ LoopStep
    \/ \E w \in Clients : Refreshing(w) \/ Disable(w) \/ \E p \in Providers : LowBalance(w, p)
    \/ \E p \in Providers : EditFile(p) \/ Age(p)

Spec == Init /\ [][Next]_vars

(* The loop goes round, no provider refuses to tell its options for ever,  *)
(* and entries get old.                                                    *)
FairSpec ==
    /\ Spec
    /\ WF_vars(LoopStep)
    /\ \A p \in Providers : SF_vars(EnterOptions(Loop, p)) /\ WF_vars(Age(p))

-----------------------------------------------------------------------------
TypeOK ==
    /\ file \in [Providers -> Manifests \cup {Bad, None}]
    /\ registry \in [Providers -> Manifests \cup {None}]
    /\ options \in [Providers -> [rev : 0..MaxEdits, fresh : BOOLEAN] \cup {None}]
    /\ optionsFile \in [Providers -> 0..MaxEdits \cup {None}]
    /\ \A w \in Workers : job[w].step \in
          {"idle", "refresh", "asked", "entered", "balances", "balance", "disabling"}
    /\ foreign \subseteq Providers
    /\ edits \in 0..MaxEdits

(* The registry is what the files are, whatever operation failed and was   *)
(* rolled back, but for files that were edited by hand or torn since.      *)
RegistryMatchesFiles == \A p \in Providers \ foreign : registry[p] = file[p]

(* What is in force of a provider gives way to something newer only, but   *)
(* for one that was changed while it was about to be disabled.             *)
ChangesStand ==
    [][\A p \in Providers :
          registry[p] # None /\ registry'[p] # None /\ registry'[p].rev < registry[p].rev =>
             \E w \in Workers : /\ job[w].step = "disabling" /\ job[w].provider = p
                                /\ job[w].copy # registry[p]]_vars

(* In the end the cached options are those of the manifest in force,       *)
(* though a refresh may have begun before it was saved and end after it.   *)
OptionsCatchUp ==
    <>[](\A p \in Providers : registry[p] = None \/
            (options[p] # None /\ options[p].rev = registry[p].rev))

(* A provider without balance ends up disabled, unless a file that is no   *)
(* manifest keeps the registry from being loaded.                          *)
DrainedIsDisabled ==
    <>[](Readable(file) => \A p \in Drained : registry[p] = None \/ ~registry[p].enabled)

=============================================================================
