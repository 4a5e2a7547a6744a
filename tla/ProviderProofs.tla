--------------------------- MODULE ProviderProofs ---------------------------
(***************************************************************************)
(* Proofs about the administration of the providers (ProviderAdmin) and    *)
(* about their names (ProviderNames).                                      *)
(* Administration.  For any providers, clients and number of changes: the  *)
(* registry is what the files are, but for files that were edited by hand  *)
(* or torn; and what is in force gives way to something newer only.  The   *)
(* second needs more than the first: what stands in a file, loaded or not, *)
(* is never older than what is in force (FilesAreNewer), or else the next  *)
(* operation on any provider, which loads all files, would bring back the  *)
(* old one.                                                                *)
(* Names.  For any tables, lists of a provider, callers and requests: the  *)
(* lists of options are lists of items that were named, in the order of    *)
(* their names, wherever options are kept (Held); when the labels tell     *)
(* names apart, naming them again changes nothing; and when the provider's *)
(* words do, too, requests bear its words and answers the names            *)
(* (NamesApart).                                                           *)
(***************************************************************************)
EXTENDS ProviderAdmin, ProviderNames, SelectionProofs, TLAPS

(* Manifests up to a revision.                                             *)
Until(e) == [enabled : BOOLEAN, rev : 0..e]

Files(e) == [Providers -> Until(e) \cup {Bad, None}]

RegistryShape ==
    /\ edits \in Nat
    /\ file \in Files(edits)
    /\ registry \in [Providers -> Until(edits) \cup {None}]

FilesAreNewer ==
    \A p \in Providers :
        file[p] # Bad /\ file[p] # None /\ registry[p] # None
            => registry[p].rev <= file[p].rev

(* A job has the fields of Idle; one that is about to disable a provider   *)
(* has a manifest to save.                                                 *)
Fields == {"step", "provider", "copy", "todo", "options"}
SoundJob(j, e) ==
    /\ j = [f \in Fields |-> j[f]]
    /\ j.step = "disabling" => j.copy \in Until(e) /\ j.provider \in Providers

JobsSound ==
    /\ job = [w \in Workers |-> job[w]]
    /\ \A w \in Workers : SoundJob(job[w], edits)

IInv == RegistryShape /\ RegistryMatchesFiles /\ FilesAreNewer /\ JobsSound

(* Whether p gives way in a step, as ChangesStand has it.                  *)
Stands(p) ==
    registry[p] # None /\ registry'[p] # None /\ registry'[p].rev < registry[p].rev =>
        \E w \in Workers : /\ job[w].step = "disabling" /\ job[w].provider = p
                           /\ job[w].copy # registry[p]

Kept == IInv' /\ \A p \in Providers : Stands(p)

-----------------------------------------------------------------------------
LEMMA UntilGrows == ASSUME NEW e \in Nat PROVE Until(e) \subseteq Until(e + 1)
  BY DEF Until

LEMMA IdleIsSound == ASSUME NEW e PROVE SoundJob(Idle, e)
  BY DEF SoundJob, Idle, Fields

LEMMA InitIInv == Init => IInv
<1> SUFFICES ASSUME Init PROVE IInv
  OBVIOUS
<1> DEFINE first == [enabled |-> FALSE, rev |-> 0]
<1>0. file \in [Providers -> {first}] /\ registry = file /\ edits = 0 /\ first \in Until(0)
  BY DEF Init, Until
<1> HIDE DEF first
<1>a. file \in Files(edits) /\ registry \in [Providers -> Until(edits) \cup {None}]
  BY <1>0 DEF Files
<1>b. \A p \in Providers : file[p] = first /\ first.rev <= first.rev
  BY <1>0 DEF Until
<1>1. RegistryShape /\ RegistryMatchesFiles /\ FilesAreNewer
  BY <1>0, <1>a, <1>b DEF RegistryShape, RegistryMatchesFiles, FilesAreNewer
<1>2. JobsSound
  BY IdleIsSound DEF Init, JobsSound
<1> QED BY <1>1, <1>2 DEF IInv

(* A worker moves on, and the registry stays.                              *)
LEMMA JobMoves ==
    ASSUME IInv, NEW w \in Workers, NEW j, SoundJob(j, edits),
           job' = [job EXCEPT ![w] = j], UNCHANGED registryVars
    PROVE  Kept
<1>1. JobsSound'
  BY DEF IInv, JobsSound, registryVars
<1>2. RegistryShape' /\ RegistryMatchesFiles' /\ FilesAreNewer'
  BY DEF IInv, registryVars, RegistryShape, RegistryMatchesFiles, FilesAreNewer
<1>3. \A p \in Providers : Stands(p)
  BY DEF IInv, registryVars, RegistryShape, Until, Stands
<1> QED BY <1>1, <1>2, <1>3 DEF Kept, IInv

(* More revisions do no harm to the jobs.                                  *)
LEMMA JobsStaySound ==
    ASSUME IInv, edits' \in {edits, edits + 1}, job' = job PROVE JobsSound'
  BY UntilGrows DEF IInv, RegistryShape, JobsSound, SoundJob

(* A worker that moved on while a revision was made.                       *)
LEMMA OneJobMoves ==
    ASSUME IInv, edits' \in {edits, edits + 1}, NEW w \in Workers, NEW j, SoundJob(j, edits'),
           job' = [job EXCEPT ![w] = j]
    PROVE  JobsSound'
  BY UntilGrows DEF IInv, RegistryShape, JobsSound, SoundJob

(* All files are loaded, each a manifest: registry and files are one.      *)
LEMMA LoadingKeeps ==
    ASSUME edits' \in Nat, file' \in Files(edits'), Readable(file'), registry' = file', JobsSound'
    PROVE  IInv'
<1>1. \A p \in Providers : file'[p] \in Until(edits') \cup {None}
  BY DEF Files, Readable
<1>2. registry' \in [Providers -> Until(edits') \cup {None}]
  BY <1>1 DEF Files
<1>3. FilesAreNewer'
  BY <1>1 DEF FilesAreNewer, Until
<1> QED BY <1>2, <1>3 DEF IInv, RegistryShape, RegistryMatchesFiles

(* What a loaded file brings into force is not older than what was there.  *)
LEMMA LoadedStands ==
    ASSUME IInv, NEW p \in Providers, file[p] # Bad, registry'[p] = file[p] PROVE Stands(p)
  BY DEF IInv, RegistryShape, Files, Until, FilesAreNewer, Stands

-----------------------------------------------------------------------------
(* A manifest of revision e is saved, by a client or by the disabling.     *)
LEMMA SaveManifestKeeps ==
    ASSUME IInv, NEW q \in Providers, edits' \in {edits, edits + 1}, NEW m \in Until(edits'),
           SaveManifest(q, m), JobsSound'
    PROVE  /\ IInv'
           /\ \A p \in Providers \ {q} : Stands(p)
           /\ registry'[q] \in {m, registry[q]}
<1>0. file \in Files(edits') /\ edits' \in Nat /\ registry \in [Providers -> Until(edits') \cup {None}]
  BY UntilGrows DEF IInv, RegistryShape, Files
<1>1. CASE Readable(Store(q, m))
  <2>1. file' = Store(q, m) /\ registry' = Store(q, m)
    BY <1>1 DEF SaveManifest
  <2>2. file' \in Files(edits') /\ Readable(file')
    BY <1>0, <1>1, <2>1 DEF Store, Files
  <2>3. IInv'
    BY <2>1, <2>2, <1>0, LoadingKeeps
  <2>4. ASSUME NEW p \in Providers \ {q} PROVE Stands(p)
    <3>1. registry'[p] = file[p] /\ file[p] # Bad
      BY <2>1, <2>2, <1>0 DEF Store, Files, Readable
    <3> QED BY <3>1, LoadedStands
  <2>5. registry'[q] = m
    BY <2>1, <1>0 DEF Store, Files
  <2> QED BY <2>3, <2>4, <2>5
<1>2. CASE ~Readable(Store(q, m))
  <2>1. UNCHANGED <<file, registry, foreign>>
    BY <1>2 DEF SaveManifest
  <2>2. IInv'
    BY <2>1, <1>0 DEF IInv, RegistryShape, RegistryMatchesFiles, FilesAreNewer
  <2>3. \A p \in Providers : Stands(p)
    BY <2>1 DEF IInv, RegistryShape, Until, Stands
  <2> QED BY <2>1, <2>2, <2>3
<1> QED BY <1>1, <1>2

LEMMA SaveKeeps ==
    ASSUME IInv, NEW w \in Clients, NEW p \in Providers, NEW b \in BOOLEAN, Save(w, p, b)
    PROVE  Kept
<1> DEFINE m == [enabled |-> b, rev |-> edits + 1]
<1>0. edits \in Nat /\ edits' = edits + 1 /\ m \in Until(edits') /\ w \in Workers
  BY DEF IInv, RegistryShape, Save, Until, Workers
<1>1. JobsSound'
  <2>1. CASE job' = job
    BY <2>1, <1>0, JobsStaySound
  <2>2. CASE job' # job
    <3> DEFINE j == [Idle EXCEPT !.step = "refresh", !.todo = <<p>>]
    <3>1. job' = [job EXCEPT ![w] = j]
      BY <2>2 DEF Save, Do
    <3>2. SoundJob(j, edits')
      BY DEF SoundJob, Idle, Fields
    <3> HIDE DEF j
    <3> QED BY <3>1, <3>2, <1>0, OneJobMoves
  <2> QED BY <2>1, <2>2
<1>2. SaveManifest(p, m)
  BY DEF Save
<1>3. IInv' /\ (\A q \in Providers \ {p} : Stands(q)) /\ registry'[p] \in {m, registry[p]}
  BY <1>0, <1>1, <1>2, SaveManifestKeeps
<1>4. Stands(p)
  BY <1>0, <1>3 DEF IInv, RegistryShape, Until, Stands
<1> QED BY <1>3, <1>4 DEF Kept

(* Only here may something older come into force: the manifest that was    *)
(* read before another one was saved.                                      *)
LEMMA DisableKeeps ==
    ASSUME IInv, NEW w \in Workers, Disable(w) PROVE Kept
<1> DEFINE q == job[w].provider
           m == [job[w].copy EXCEPT !.enabled = FALSE]
<1>0. /\ SoundJob(job[w], edits) /\ job[w].step = "disabling"
      /\ job[w].copy \in Until(edits) /\ q \in Providers
      /\ edits' = edits /\ edits \in Nat
  BY DEF IInv, RegistryShape, JobsSound, SoundJob, Disable
<1>1. m \in Until(edits') /\ m.rev = job[w].copy.rev
  BY <1>0 DEF Until
<1>2. PICK j : job' = [job EXCEPT ![w] = j] /\ SoundJob(j, edits')
  <2>1. SoundJob(NextBalance(w), edits')
    BY IdleIsSound DEF NextBalance, SoundJob, Idle, Fields
  <2> QED BY <2>1 DEF Disable, Do
<1>3. JobsSound'
  BY <1>0, <1>2, OneJobMoves
<1>4. SaveManifest(q, m)
  BY DEF Disable
<1> HIDE DEF m
<1>5. IInv' /\ (\A p \in Providers \ {q} : Stands(p)) /\ registry'[q] \in {m, registry[q]}
  BY <1>0, <1>1, <1>3, <1>4, SaveManifestKeeps
<1>6. Stands(q)
  <2>1. CASE job[w].copy # registry[q]
    BY <2>1, <1>0 DEF Stands
  <2>2. CASE job[w].copy = registry[q]
    BY <2>2, <1>0, <1>1, <1>5 DEF Stands, Until
  <2> QED BY <2>1, <2>2
<1> QED BY <1>5, <1>6 DEF Kept

-----------------------------------------------------------------------------
(* A file that could not be written, or was edited, is foreign, and holds  *)
(* nothing old: nothing, no manifest, or the newest one.                   *)
LEMMA ForeignFileKeeps ==
    ASSUME IInv, NEW p \in Providers, edits' = edits + 1, UNCHANGED <<registry, job>>,
           NEW m, m \in {Bad, None} \/ (m \in Until(edits') /\ m.rev = edits'),
           file' \in {file, Store(p, m)}, foreign' = foreign \cup {p}
    PROVE  Kept
<1>0. /\ edits \in Nat /\ edits' \in Nat
      /\ file \in Files(edits') /\ registry \in [Providers -> Until(edits') \cup {None}]
  BY UntilGrows DEF IInv, RegistryShape, Files
<1>1. file' \in Files(edits') /\ \A q \in Providers \ {p} : file'[q] = file[q]
  BY <1>0 DEF Files, Store
<1>2. file'[p] \in {file[p], m}
  BY <1>0 DEF Files, Store
<1>3. RegistryShape' /\ RegistryMatchesFiles'
  BY <1>0, <1>1 DEF IInv, RegistryShape, RegistryMatchesFiles
<1>4. FilesAreNewer'
  <2> SUFFICES ASSUME NEW q \in Providers, file'[q] # Bad, file'[q] # None, registry[q] # None
               PROVE  registry[q].rev <= file'[q].rev
    BY DEF FilesAreNewer
  <2>1. CASE file'[q] = file[q]
    BY <2>1 DEF IInv, FilesAreNewer
  <2>2. CASE file'[q] # file[q]
    <3>1. file'[q] = m /\ m.rev = edits'
      BY <2>2, <1>1, <1>2
    <3>2. registry[q] \in Until(edits')
      BY <1>0
    <3> QED BY <3>1, <3>2, <1>0 DEF Until
  <2> QED BY <2>1, <2>2
<1>5. JobsSound'
  BY JobsStaySound
<1>6. \A q \in Providers : Stands(q)
  BY DEF IInv, RegistryShape, Until, Stands
<1> QED BY <1>3, <1>4, <1>5, <1>6 DEF Kept, IInv

(* Priorities are given: the files that are written hold the newest        *)
(* revision of what is in force, the others are as they were.              *)
LEMMA ReorderKeeps ==
    ASSUME IInv, NEW w \in Clients, NEW S \in SUBSET Providers, Reorder(w, S) PROVE Kept
<1> DEFINE files == Reordered(S, edits + 1)
<1>0. /\ edits \in Nat /\ edits' = edits + 1 /\ job' = job
      /\ file \in Files(edits') /\ registry \in [Providers -> Until(edits') \cup {None}]
  BY UntilGrows DEF IInv, RegistryShape, Files, Reorder
<1>1. JobsSound'
  BY <1>0, JobsStaySound
<1>2. ASSUME NEW p \in Providers
      PROVE  IF p \in S /\ registry[p] # None
             THEN files[p] \in Until(edits') /\ files[p].rev = edits'
             ELSE files[p] = file[p]
  BY <1>0 DEF Reordered, Until
<1>3. files \in Files(edits')
  BY <1>0, <1>2 DEF Files, Reordered
<1>4. file' = files /\ SetPriorities(S, edits + 1)
  BY DEF Reorder, SetPriorities
<1> HIDE DEF files
<1>5. CASE Readable(files)
  <2>1. registry' = files
    BY <1>4, <1>5 DEF SetPriorities, files
  <2>2. IInv'
    BY <2>1, <1>0, <1>1, <1>3, <1>4, <1>5, LoadingKeeps
  <2>3. ASSUME NEW p \in Providers PROVE Stands(p)
    <3>1. CASE p \in S /\ registry[p] # None
      BY <3>1, <2>1, <1>2, <1>0 DEF Stands, Until
    <3>2. CASE ~(p \in S /\ registry[p] # None)
      BY <3>2, <2>1, <1>2, <1>5, LoadedStands DEF Readable
    <3> QED BY <3>1, <3>2
  <2> QED BY <2>2, <2>3 DEF Kept
<1>6. CASE ~Readable(files)
  <2>1. /\ registry' = [p \in Providers |-> IF p \in S /\ registry[p] # None
                                            THEN files[p] ELSE registry[p]]
        /\ foreign' = foreign \ {p \in S : registry[p] # None}
    BY <1>4, <1>6 DEF SetPriorities, files
  <2>2. RegistryShape'
    BY <2>1, <1>0, <1>2, <1>3, <1>4 DEF RegistryShape
  <2>3. RegistryMatchesFiles'
    BY <2>1, <1>2, <1>4 DEF IInv, RegistryMatchesFiles
  <2>4. FilesAreNewer'
    BY <2>1, <1>0, <1>2, <1>4 DEF IInv, FilesAreNewer, Until
  <2>5. \A p \in Providers : Stands(p)
    BY <2>1, <1>0, <1>2 DEF Stands, Until
  <2> QED BY <2>2, <2>3, <2>4, <2>5, <1>1 DEF Kept, IInv
<1> QED BY <1>5, <1>6

(* Everything is loaded from the files.                                    *)
LEMMA ReloadKeeps ==
    ASSUME IInv, Readable(file), registry' = file, file' = file,
           edits' \in {edits, edits + 1}, JobsSound'
    PROVE  Kept
<1>1. edits' \in Nat /\ file' \in Files(edits')
  BY UntilGrows DEF IInv, RegistryShape, Files
<1>2. \A p \in Providers : Stands(p)
  BY LoadedStands DEF Readable
<1> QED BY <1>1, <1>2, LoadingKeeps DEF Kept

LEMMA RestartKeeps == ASSUME IInv, Restart PROVE Kept
<1>1. JobsSound'
  BY IdleIsSound DEF Restart, JobsSound
<1> QED BY <1>1, ReloadKeeps DEF Restart

-----------------------------------------------------------------------------
(* What leaves the registry alone moves one worker at most.                *)
LEMMA JobStepKeeps ==
    ASSUME IInv, NEW w \in Workers, UNCHANGED registryVars,
           \/ AskOptions(w) \/ Discover(w) \/ Unknown(w) \/ Refuse(w) \/ SaveCache(w)
           \/ \E p \in Providers : EnterOptions(w, p) \/ LowBalance(w, p)
           \/ w = Loop /\ (Poll \/ Balances \/ BalanceKnown)
    PROVE  Kept
<1> DEFINE old == job[w]
<1>0. SoundJob(old, edits)
  BY DEF IInv, JobsSound
<1> HIDE DEF old
<1>a. ASSUME NEW j, SoundJob(j, edits), job' = [job EXCEPT ![w] = j] PROVE Kept
  BY <1>a, JobMoves
<1>b. SoundJob(Onward(w), edits) /\ SoundJob(NextBalance(w), edits)
  BY IdleIsSound DEF Onward, NextBalance, SoundJob, Idle, Fields
<1>c. ASSUME NEW step, step # "disabling", NEW todo PROVE SoundJob([Idle EXCEPT !.step = step, !.todo = todo], edits)
  BY <1>c DEF SoundJob, Idle, Fields
<1>1. CASE AskOptions(w)
  BY <1>1, <1>a, <1>c DEF AskOptions, Do
<1>2. CASE Discover(w)
  <2> DEFINE j == [old EXCEPT !.step = "asked", !.copy = registry[Current(w)]]
  <2>1. SoundJob(j, edits)
    BY <1>0 DEF SoundJob, Fields
  <2>2. job' = [job EXCEPT ![w] = j]
    BY <1>2 DEF Discover, Do, old
  <2> HIDE DEF j
  <2> QED BY <2>1, <2>2, <1>a
<1>3. CASE Unknown(w) \/ Refuse(w) \/ SaveCache(w)
  BY <1>3, <1>a, <1>b DEF Unknown, Refuse, SaveCache, Do
<1>4. CASE \E p \in Providers : EnterOptions(w, p)
  <2>1. PICK entered : job' = [job EXCEPT ![w] = [old EXCEPT !.step = "entered", !.options = entered]]
    BY <1>4 DEF EnterOptions, Do, old
  <2>2. SoundJob([old EXCEPT !.step = "entered", !.options = entered], edits)
    BY <1>0 DEF SoundJob, Fields
  <2> QED BY <2>1, <2>2, <1>a
<1>5. CASE \E p \in Providers : LowBalance(w, p)
  <2>1. PICK p \in Providers : LowBalance(w, p)
    BY <1>5
  <2>2. CASE registry[p] # None /\ registry[p].enabled
    <3> DEFINE j == [old EXCEPT !.step = "disabling", !.provider = p, !.copy = registry[p]]
    <3>1. registry[p] \in Until(edits)
      BY <2>2 DEF IInv, RegistryShape
    <3>2. SoundJob(j, edits)
      BY <1>0, <3>1 DEF SoundJob, Fields
    <3>3. job' = [job EXCEPT ![w] = j]
      BY <2>1, <2>2 DEF LowBalance, Do, old
    <3> HIDE DEF j
    <3> QED BY <3>2, <3>3, <1>a
  <2>3. CASE ~(registry[p] # None /\ registry[p].enabled)
    BY <2>1, <2>3, <1>a, <1>b DEF LowBalance, Do
  <2> QED BY <2>2, <2>3
<1>6. CASE w = Loop /\ (Poll \/ Balances \/ BalanceKnown)
  <2>1. SoundJob([Idle EXCEPT !.step = "balances"], edits)
    BY DEF SoundJob, Idle, Fields
  <2>2. PICK j : job' = [job EXCEPT ![w] = j] /\ SoundJob(j, edits)
    <3>1. CASE Poll
      BY <1>6, <3>1, <1>c, <2>1 DEF Poll, Do
    <3>2. CASE Balances
      BY <1>6, <3>2, <1>c, IdleIsSound DEF Balances, Do
    <3>3. CASE BalanceKnown
      BY <1>6, <3>3, <1>b DEF BalanceKnown, Do
    <3> QED BY <1>6, <3>1, <3>2, <3>3
  <2> QED BY <2>2, <1>a
<1> QED BY <1>1, <1>2, <1>3, <1>4, <1>5, <1>6

(* The options get old, or nothing happens at all.                         *)
LEMMA QuietStepKeeps == ASSUME IInv, UNCHANGED registryVars, UNCHANGED job PROVE Kept
<1>1. JobsSound' /\ RegistryShape' /\ RegistryMatchesFiles' /\ FilesAreNewer'
  BY DEF IInv, registryVars, JobsSound, RegistryShape, RegistryMatchesFiles, FilesAreNewer
<1>2. \A p \in Providers : Stands(p)
  BY DEF IInv, registryVars, RegistryShape, Until, Stands
<1> QED BY <1>1, <1>2 DEF Kept, IInv

LEMMA StepKeeps == ASSUME IInv, [Next]_vars PROVE Kept
<1>1. CASE \E w \in Clients, p \in Providers, b \in BOOLEAN : Save(w, p, b)
  BY <1>1, SaveKeeps
<1>2. CASE \E w \in Clients, p \in Providers : WriteFails(w, p)
  <2>1. PICK w \in Clients, p \in Providers : WriteFails(w, p)
    BY <1>2
  <2> QED BY <2>1, ForeignFileKeeps DEF WriteFails, TornFile
<1>3. CASE \E w \in Clients, S \in SUBSET Providers : Reorder(w, S)
  BY <1>3, ReorderKeeps
<1>4. CASE Reload
  <2>1. JobsSound'
    BY <1>4, JobsStaySound DEF Reload
  <2> QED BY <1>4, <2>1, ReloadKeeps DEF Reload
<1>5. CASE Restart
  BY <1>5, RestartKeeps
<1>6. CASE \E p \in Providers : EditFile(p)
  <2>1. PICK p \in Providers, m \in {Bad, None, [enabled |-> FALSE, rev |-> edits + 1]} :
          EditFile(p) /\ file' = Store(p, m)
    BY <1>6 DEF EditFile
  <2>2. m \in {Bad, None} \/ (m \in Until(edits') /\ m.rev = edits')
    <3>1. edits \in Nat /\ edits' = edits + 1
      BY <2>1 DEF EditFile, IInv, RegistryShape
    <3> DEFINE newest == [enabled |-> FALSE, rev |-> edits + 1]
    <3>2. newest \in Until(edits') /\ newest.rev = edits'
      BY <3>1 DEF Until
    <3>3. m \in {Bad, None, newest}
      BY <2>1
    <3> HIDE DEF newest
    <3> QED BY <3>2, <3>3
  <2> QED BY <2>1, <2>2, ForeignFileKeeps DEF EditFile
<1>7. CASE \E p \in Providers : Age(p)
  BY <1>7, QuietStepKeeps DEF Age
<1>8. CASE \E w \in Workers : Disable(w)
  BY <1>8, DisableKeeps
<1>9. ASSUME NEW w \in Workers,
             \/ AskOptions(w) \/ Refreshing(w) \/ \E p \in Providers : LowBalance(w, p)
             \/ w = Loop /\ (Poll \/ Balances \/ BalanceKnown)
      PROVE  Kept
  <2>1. UNCHANGED registryVars
    BY <1>9 DEF AskOptions, Refreshing, Discover, Unknown, Refuse, EnterOptions, SaveCache,
                LowBalance, Poll, Balances, BalanceKnown, registryVars, cacheVars
  <2> QED BY <1>9, <2>1, JobStepKeeps DEF Refreshing
<1>10. CASE LoopStep
  BY <1>10, <1>8, <1>9 DEF LoopStep, Workers
<1>11. CASE UNCHANGED vars
  BY <1>11, QuietStepKeeps DEF vars
<1> QED BY <1>1, <1>2, <1>3, <1>4, <1>5, <1>6, <1>7, <1>8, <1>9, <1>10, <1>11 DEF Next, Workers

-----------------------------------------------------------------------------
(* Whatever was saved, reordered, rolled back, disabled or failed, the     *)
(* registry is what the files are, but for those edited by hand or torn    *)
(* since (save_manifest, set_priorities and reload of registry.rs).        *)
THEOREM RegistryAgreesWithFiles == Spec => []RegistryMatchesFiles
<1>1. IInv /\ [Next]_vars => IInv'
  BY StepKeeps DEF Kept
<1>2. IInv => RegistryMatchesFiles
  BY DEF IInv
<1> QED BY InitIInv, <1>1, <1>2, PTL DEF Spec

(* What is in force gives way to something newer only, though every change *)
(* of one provider loads the files of all, but for a provider that was     *)
(* changed while it was about to be disabled                               *)
(* (maybe_disable_provider_for_low_balance).                               *)
THEOREM NothingOldComesIntoForce == Spec => ChangesStand
<1>1. IInv /\ [Next]_vars => IInv'
  BY StepKeeps DEF Kept
<1>2. IInv /\ [Next]_vars =>
        [\A p \in Providers :
            registry[p] # None /\ registry'[p] # None /\ registry'[p].rev < registry[p].rev =>
               \E w \in Workers : /\ job[w].step = "disabling" /\ job[w].provider = p
                                  /\ job[w].copy # registry[p]]_vars
  BY StepKeeps DEF Kept, Stands
<1> QED BY InitIInv, <1>1, <1>2, PTL DEF Spec, ChangesStand

-----------------------------------------------------------------------------
(* The types of the caches and of the jobs, of which the registry needs    *)
(* nothing: a worker that is at a provider has one at the head of its      *)
(* list, one that has asked holds a manifest, and one that has entered its *)
(* answer a copy of the whole cache.                                       *)
Steps == {"idle", "refresh", "asked", "entered", "balances", "balance", "disabling"}
Cache == [Providers -> [rev : 0..MaxEdits, fresh : BOOLEAN] \cup {None}]
SavedCache == [Providers -> 0..MaxEdits \cup {None}]

TypedJob(w, j) ==
    /\ j.step \in Steps
    /\ j.todo \in Seq(Providers)
    /\ j.step \in {"refresh", "asked", "entered", "balance"} => j.todo # <<>>
    /\ w = Loop /\ j.step = "disabling" => j.todo # <<>>
    /\ j.step = "asked" => j.copy.rev \in 0..MaxEdits
    /\ j.step = "entered" => j.options \in SavedCache

TypedCaches ==
    /\ options \in Cache
    /\ optionsFile \in SavedCache
    /\ \A w \in Workers : TypedJob(w, job[w])
    /\ foreign \subseteq Providers
    /\ edits \in 0..MaxEdits

LEMMA InitTyped == Init => TypedCaches
<1> SUFFICES ASSUME Init PROVE TypedCaches
  OBVIOUS
<1>1. \A w \in Workers : TypedJob(w, Idle)
  BY DEF TypedJob, Idle, Steps
<1>2. job = [w \in Workers |-> Idle]
  BY DEF Init
<1> QED BY <1>1, <1>2, AdminAssumption DEF Init, TypedCaches, Cache, SavedCache

(* What a worker may be about to do next.                                  *)
LEMMA NextJobsTyped ==
    ASSUME NEW w
    PROVE  /\ TypedJob(w, Idle) /\ TypedJob(w, [Idle EXCEPT !.step = "balances"])
           /\ \A step \in {"refresh", "balance"}, todo \in Seq(Providers) \ {<<>>} :
                 TypedJob(w, [Idle EXCEPT !.step = step, !.todo = todo])
  BY DEF TypedJob, Idle, Steps

LEMMA OnwardTyped ==
    ASSUME NEW w \in Workers, TypedJob(w, job[w]), job[w].todo # <<>>
    PROVE  TypedJob(w, Onward(w)) /\ TypedJob(w, NextBalance(w)) /\ Current(w) \in Providers
<1>1. Tail(job[w].todo) \in Seq(Providers) /\ Head(job[w].todo) \in Providers
  BY DEF TypedJob
<1> DEFINE rest == Tail(job[w].todo)
<1> HIDE DEF rest
<1>2. CASE rest = <<>>
  <2>1. TypedJob(w, [Idle EXCEPT !.todo = rest, !.step = "idle"])
    BY <1>2 DEF TypedJob, Idle, Steps
  <2>2. /\ Onward(w) \in {[Idle EXCEPT !.step = "balances"], [Idle EXCEPT !.todo = rest, !.step = "idle"]}
        /\ NextBalance(w) = Idle
    BY <1>2 DEF Onward, NextBalance, rest
  <2> QED BY <1>1, <2>1, <2>2, NextJobsTyped DEF Current
<1>3. CASE rest # <<>>
  <2>1. /\ Onward(w) = [Idle EXCEPT !.step = "refresh", !.todo = rest]
        /\ NextBalance(w) \in {Idle, [Idle EXCEPT !.step = "balance", !.todo = rest]}
    BY <1>3 DEF Onward, NextBalance, Idle, rest
  <2>2. rest \in Seq(Providers) \ {<<>>}
    BY <1>1, <1>3 DEF rest
  <2>3. /\ TypedJob(w, [Idle EXCEPT !.step = "refresh", !.todo = rest])
        /\ TypedJob(w, [Idle EXCEPT !.step = "balance", !.todo = rest])
        /\ TypedJob(w, Idle)
    BY <2>2, NextJobsTyped
  <2> QED BY <1>1, <2>1, <2>3 DEF Current
<1> QED BY <1>2, <1>3

(* A list of some providers is not empty if one of them is there.          *)
LEMMA ListedTyped ==
    ASSUME NEW S \in SUBSET Providers, S # {}
    PROVE  Listed(S) \in Seq(Providers) \ {<<>>}
<1>1. Order \in Seq(Providers) /\ ToSet(Order) = Providers
  BY AdminAssumption DEF Providers, Range, ToSet
<1>2. Listed(S) \in Seq(Providers \cap S) /\ ToSet(Listed(S)) = Providers \cap S
  BY <1>1, FilteredMembers DEF Listed
<1>3. ToSet(<<>>) = {}
  BY DEF ToSet
<1> QED BY <1>2, <1>3, SeqOfMore

(* One worker moves on at most, and the caches stay.                       *)
LEMMA JobTyped ==
    ASSUME IInv, TypedCaches, NEW w \in Workers, NEW j, TypedJob(w, j),
           job' = [job EXCEPT ![w] = j], UNCHANGED cacheVars,
           foreign' \in SUBSET Providers, edits' \in 0..MaxEdits
    PROVE  TypedCaches'
<1>1. \A v \in Workers : job'[v] = IF v = w THEN j ELSE job[v]
  BY DEF IInv, JobsSound
<1> QED BY <1>1 DEF TypedCaches, cacheVars

LEMMA RegistryTyped ==
    ASSUME TypedCaches, UNCHANGED <<cacheVars, job>>,
           foreign' \in SUBSET Providers, edits' \in 0..MaxEdits
    PROVE  TypedCaches'
  BY DEF TypedCaches, cacheVars

(* The steps of a refresh.                                                 *)
LEMMA RefreshTyped ==
    ASSUME IInv, TypedCaches, NEW w \in Workers, Refreshing(w) PROVE TypedCaches'
<1> DEFINE old == job[w]
<1>0. /\ foreign' \in SUBSET Providers /\ edits' \in 0..MaxEdits
      /\ TypedJob(w, old) /\ SoundJob(old, edits)
      /\ options \in Cache /\ optionsFile \in SavedCache
  BY DEF TypedCaches, IInv, JobsSound, registryVars, Refreshing, Discover, Unknown, Refuse,
         EnterOptions, SaveCache
<1>1. old.step \in {"refresh", "asked", "entered"} /\ old.todo # <<>>
  BY <1>0 DEF Refreshing, Discover, Unknown, Refuse, EnterOptions, SaveCache, TypedJob
<1>2. TypedJob(w, Onward(w)) /\ Current(w) \in Providers
  BY <1>0, <1>1, OnwardTyped
<1>3. CASE Unknown(w) \/ Refuse(w)
  BY <1>0, <1>2, <1>3, JobTyped DEF Unknown, Refuse, Do
<1>4. CASE Discover(w)
  <2>1. registry[Current(w)] \in Until(edits) /\ edits \in 0..MaxEdits
    BY <1>2, <1>4 DEF Discover, IInv, RegistryShape, TypedCaches
  <2>2. registry[Current(w)].rev \in 0..MaxEdits
    BY <2>1, AdminAssumption DEF Until
  <2> DEFINE j == [old EXCEPT !.step = "asked", !.copy = registry[Current(w)]]
  <2>3. TypedJob(w, j)
    BY <1>0, <1>1, <2>2 DEF SoundJob, Fields, TypedJob, Steps
  <2>4. job' = [job EXCEPT ![w] = j] /\ UNCHANGED cacheVars
    BY <1>4 DEF Discover, Do
  <2> HIDE DEF j, old
  <2> QED BY <1>0, <2>3, <2>4, JobTyped
<1>5. CASE SaveCache(w)
  <2>1. optionsFile' \in SavedCache /\ options' = options
    BY <1>0, <1>5 DEF SaveCache, TypedJob
  <2>2. \A v \in Workers : job'[v] = IF v = w THEN Onward(w) ELSE job[v]
    BY <1>5 DEF SaveCache, Do, IInv, JobsSound
  <2>3. \A v \in Workers : TypedJob(v, job'[v])
    BY <1>2, <2>2 DEF TypedCaches
  <2> QED BY <1>0, <2>1, <2>3 DEF TypedCaches
<1>6. ASSUME NEW p \in Providers, EnterOptions(w, p) PROVE TypedCaches'
  <2> DEFINE stored == [q \in Providers |-> IF options'[q] = None THEN None ELSE options'[q].rev]
             j == [old EXCEPT !.step = "entered", !.options = stored]
  <2>1. old.copy.rev \in 0..MaxEdits
    BY <1>0, <1>6 DEF EnterOptions, TypedJob
  <2>2. options' \in Cache
    BY <1>0, <1>6, <2>1 DEF EnterOptions, Cache
  <2>3. stored \in SavedCache
    BY <2>2 DEF Cache, SavedCache
  <2>4. job' = [job EXCEPT ![w] = j] /\ optionsFile' = optionsFile
    BY <1>6 DEF EnterOptions, Do
  <2> HIDE DEF stored
  <2>5. TypedJob(w, j)
    BY <1>0, <1>1, <2>3 DEF SoundJob, Fields, TypedJob, Steps
  <2> HIDE DEF j, old
  <2>6. \A v \in Workers : job'[v] = IF v = w THEN j ELSE job[v]
    BY <2>4 DEF IInv, JobsSound
  <2> QED BY <1>0, <2>2, <2>4, <2>5, <2>6 DEF TypedCaches
<1> QED BY <1>3, <1>4, <1>5, <1>6 DEF Refreshing

(* The rest of the loop, and disabling.                                    *)
LEMMA LoopTyped ==
    ASSUME IInv, TypedCaches, NEW w \in Workers,
           \/ w = Loop /\ (Poll \/ Balances \/ BalanceKnown)
           \/ Disable(w) \/ \E p \in Providers : LowBalance(w, p)
    PROVE  TypedCaches'
<1> DEFINE old == job[w]
<1>0. TypedJob(w, old) /\ SoundJob(old, edits)
  BY DEF TypedCaches, IInv, JobsSound
<1>1. /\ UNCHANGED cacheVars
      /\ foreign' \in SUBSET Providers /\ edits' \in 0..MaxEdits
  BY DEF TypedCaches, Poll, Balances, BalanceKnown, Disable, LowBalance, SaveManifest, registryVars
<1>2. SUFFICES \E j : TypedJob(w, j) /\ job' = [job EXCEPT ![w] = j]
  BY <1>1, JobTyped
<1>3. ASSUME old.todo # <<>> PROVE TypedJob(w, NextBalance(w))
  BY <1>0, <1>3, OnwardTyped
<1>4. CASE w = Loop /\ Poll
  <2> DEFINE known == {p \in Providers : registry[p] # None}
  <2>1. CASE \E p \in known : ~Fresh(p)
    <3>1. Listed(known) \in Seq(Providers) \ {<<>>}
      BY <2>1, ListedTyped
    <3>2. job' = [job EXCEPT ![w] = [Idle EXCEPT !.step = "refresh", !.todo = Listed(known)]]
      BY <1>4, <2>1 DEF Poll, Do
    <3> HIDE DEF known
    <3> QED BY <3>1, <3>2, NextJobsTyped
  <2>2. CASE ~ \E p \in known : ~Fresh(p)
    BY <1>4, <2>2, NextJobsTyped DEF Poll, Do
  <2> QED BY <2>1, <2>2
<1>5. CASE w = Loop /\ Balances
  <2> DEFINE asked == {p \in Providers : registry[p] # None /\ registry[p].enabled}
  <2>1. CASE asked # {}
    <3>1. Listed(asked) \in Seq(Providers) \ {<<>>}
      BY <2>1, ListedTyped
    <3>2. job' = [job EXCEPT ![w] = [Idle EXCEPT !.step = "balance", !.todo = Listed(asked)]]
      BY <1>5, <2>1 DEF Balances, Do
    <3> HIDE DEF asked
    <3> QED BY <3>1, <3>2, NextJobsTyped
  <2>2. CASE asked = {}
    BY <1>5, <2>2, NextJobsTyped DEF Balances, Do
  <2> QED BY <2>1, <2>2
<1>6. CASE w = Loop /\ BalanceKnown
  <2>1. old.todo # <<>>
    BY <1>0, <1>6 DEF BalanceKnown, TypedJob
  <2> QED BY <1>3, <1>6, <2>1 DEF BalanceKnown, Do
<1>7. CASE Disable(w)
  <2>1. job' = [job EXCEPT ![w] = NextBalance(w)] /\ old.step = "disabling"
    BY <1>7 DEF Disable, Do
  <2>2. CASE w = Loop
    BY <1>0, <1>3, <2>1, <2>2 DEF TypedJob
  <2>3. CASE w # Loop
    BY <2>1, <2>3, NextJobsTyped DEF NextBalance
  <2> QED BY <2>2, <2>3
<1>8. ASSUME NEW p \in Providers, LowBalance(w, p) PROVE \E j : TypedJob(w, j) /\ job' = [job EXCEPT ![w] = j]
  <2>1. w = Loop => old.step = "balance" /\ old.todo # <<>>
    BY <1>0, <1>8 DEF LowBalance, TypedJob
  <2>2. CASE registry[p] # None /\ registry[p].enabled
    <3> DEFINE j == [old EXCEPT !.step = "disabling", !.provider = p, !.copy = registry[p]]
    <3>1. job' = [job EXCEPT ![w] = j]
      BY <1>8, <2>2 DEF LowBalance, Do
    <3> HIDE DEF old
    <3>2. TypedJob(w, j)
      BY <1>0, <2>1 DEF SoundJob, Fields, TypedJob, Steps
    <3> QED BY <3>1, <3>2
  <2>3. CASE ~(registry[p] # None /\ registry[p].enabled)
    <3>1. job' = [job EXCEPT ![w] = NextBalance(w)]
      BY <1>8, <2>3 DEF LowBalance, Do
    <3>2. TypedJob(w, NextBalance(w))
      <4>1. CASE w = Loop
        BY <1>3, <2>1, <4>1
      <4>2. CASE w # Loop
        BY <4>2, NextJobsTyped DEF NextBalance
      <4> QED BY <4>1, <4>2
    <3> QED BY <3>1, <3>2
  <2> QED BY <2>2, <2>3
<1> QED BY <1>4, <1>5, <1>6, <1>7, <1>8

(* A client's changes, edits by hand, and restarts.                        *)
LEMMA ChangeTyped ==
    ASSUME IInv, TypedCaches,
           \/ \E w \in Clients, p \in Providers :
                 \/ \E enabled \in BOOLEAN : Save(w, p, enabled)
                 \/ WriteFails(w, p)
           \/ \E w \in Clients, S \in SUBSET Providers : Reorder(w, S)
           \/ Reload \/ \E p \in Providers : EditFile(p)
    PROVE  TypedCaches'
<1>0. foreign \in SUBSET Providers /\ edits \in 0..MaxEdits /\ MaxEdits \in Nat
  BY AdminAssumption DEF TypedCaches
<1>1. /\ UNCHANGED cacheVars
      /\ foreign' \in SUBSET Providers /\ edits' \in 0..MaxEdits
  <2>1. UNCHANGED cacheVars
    BY DEF Save, WriteFails, Reorder, Reload, EditFile
  <2>2. edits' \in {edits, edits + 1} /\ (edits' = edits \/ edits < MaxEdits)
    BY DEF Save, WriteFails, Reorder, Reload, EditFile
  <2>3. ASSUME NEW w \in Clients, NEW p \in Providers, NEW b \in BOOLEAN, Save(w, p, b)
        PROVE  foreign' \in SUBSET Providers
    <3>1. PICK m : SaveManifest(p, m)
      BY <2>3 DEF Save
    <3> QED BY <1>0, <3>1 DEF SaveManifest
  <2>4. ASSUME NEW w \in Clients, NEW p \in Providers, WriteFails(w, p)
        PROVE  foreign' \in SUBSET Providers
    BY <1>0, <2>4 DEF WriteFails, TornFile
  <2>5. ASSUME NEW w \in Clients, NEW S \in SUBSET Providers, Reorder(w, S)
        PROVE  foreign' \in SUBSET Providers
    BY <1>0, <2>5 DEF Reorder, SetPriorities
  <2>6. ASSUME Reload \/ \E p \in Providers : EditFile(p)
        PROVE  foreign' \in SUBSET Providers
    BY <1>0, <2>6 DEF Reload, EditFile
  <2>7. foreign' \in SUBSET Providers
    BY <2>3, <2>4, <2>5, <2>6
  <2> QED BY <1>0, <2>1, <2>2, <2>7
<1>2. CASE UNCHANGED job
  BY <1>1, <1>2, RegistryTyped
<1>3. ASSUME NEW w \in Clients, NEW p \in Providers,
             job' = [job EXCEPT ![w] = [Idle EXCEPT !.step = "refresh", !.todo = <<p>>]]
      PROVE  TypedCaches'
  <2>1. <<p>> \in Seq(Providers) \ {<<>>}
    OBVIOUS
  <2> DEFINE j == [Idle EXCEPT !.step = "refresh", !.todo = <<p>>]
  <2>2. TypedJob(w, j)
    BY <2>1, NextJobsTyped
  <2> HIDE DEF j
  <2> QED BY <1>1, <1>3, <2>2, JobTyped DEF Workers, j
<1> QED BY <1>2, <1>3 DEF Save, Do, WriteFails, Reorder, Reload, EditFile

LEMMA RestartTyped == ASSUME TypedCaches, Restart PROVE TypedCaches'
<1>1. options' \in Cache /\ optionsFile' \in SavedCache
  BY DEF TypedCaches, Restart, Fresh, Cache, SavedCache
<1>2. \A w \in Workers : TypedJob(w, job'[w])
  BY NextJobsTyped DEF Restart
<1>3. foreign' \subseteq Providers /\ edits' \in 0..MaxEdits
  BY AdminAssumption DEF TypedCaches, Restart
<1> QED BY <1>1, <1>2, <1>3 DEF TypedCaches

LEMMA StepTyped == ASSUME IInv, TypedCaches, [Next]_vars PROVE TypedCaches'
<1>1. ASSUME NEW p \in Providers, Age(p) PROVE TypedCaches'
  <2>1. options' \in Cache
    BY <1>1 DEF Age, Fresh, TypedCaches, Cache
  <2> QED BY <1>1, <2>1 DEF Age, TypedCaches, registryVars
<1>2. ASSUME NEW w \in Clients, AskOptions(w) PROVE TypedCaches'
  <2>1. PICK p \in Providers :
          job' = [job EXCEPT ![w] = [Idle EXCEPT !.step = "refresh", !.todo = <<p>>]]
    BY <1>2 DEF AskOptions, Do
  <2>2. <<p>> \in Seq(Providers) \ {<<>>}
    OBVIOUS
  <2> DEFINE j == [Idle EXCEPT !.step = "refresh", !.todo = <<p>>]
  <2>3. TypedJob(w, j)
    BY <2>2, NextJobsTyped
  <2>4. UNCHANGED cacheVars /\ foreign' \in SUBSET Providers /\ edits' \in 0..MaxEdits
    BY <1>2 DEF AskOptions, registryVars, TypedCaches
  <2> HIDE DEF j
  <2> QED BY <2>1, <2>3, <2>4, JobTyped DEF Workers, j
<1>3. CASE UNCHANGED vars
  BY <1>3 DEF vars, registryVars, cacheVars, TypedCaches
<1> QED BY <1>1, <1>2, <1>3, RefreshTyped, LoopTyped, ChangeTyped, RestartTyped
        DEF Next, LoopStep, Workers

(* Files, registry, caches and jobs keep their types, the lists of what    *)
(* refreshes and balances are still to do included.                        *)
THEOREM AdminTypesHold == Spec => []TypeOK
<1>1. IInv /\ [Next]_vars => IInv'
  BY StepKeeps DEF Kept
<1>2. IInv /\ TypedCaches /\ [Next]_vars => TypedCaches'
  BY StepTyped
<1>3. IInv /\ TypedCaches => TypeOK
  <2> SUFFICES ASSUME IInv, TypedCaches PROVE TypeOK
    OBVIOUS
  <2>1. Until(edits) \subseteq Manifests
    BY AdminAssumption DEF Until, Manifests, TypedCaches
  <2>2. /\ file \in [Providers -> Manifests \cup {Bad, None}]
        /\ registry \in [Providers -> Manifests \cup {None}]
    BY <2>1 DEF IInv, RegistryShape, Files
  <2> QED BY <2>2 DEF TypedCaches, TypedJob, Cache, SavedCache, Steps, TypeOK
<1> QED BY InitIInv, InitTyped, <1>1, <1>2, <1>3, PTL DEF Spec

-----------------------------------------------------------------------------
(* Lists of names.                                                         *)
(* The members of a list are finitely many.                                *)
LEMMA ListIsFinite == ASSUME NEW A, NEW s \in Seq(A) PROVE IsFiniteSet(ToSet(s))
<1>1. Len(s) \in Nat /\ DOMAIN s = 1..Len(s)
  OBVIOUS
<1>2. s \in Surjection(1..Len(s), ToSet(s))
  BY <1>1 DEF Surjection, ToSet
<1>3. IsFiniteSet(1..Len(s))
  BY <1>1, FS_Interval
<1> QED BY <1>2, <1>3, FS_Surjection

(* A list of items in the order of their names.                            *)
Sorted(items) ==
    \A i, j \in 1..Len(items) : i < j => Position[items[i].value] < Position[items[j].value]

(* The places of the names of a list.                                      *)
NamePlaces(items) == [i \in 1..Len(items) |-> Position[items[i].value]]

LEMMA NamePlacesAre ==
    ASSUME NEW I, \A item \in I : item.value \in Words, NEW items \in Seq(I)
    PROVE  /\ NamePlaces(items) \in Seq(Nat) /\ Len(NamePlaces(items)) = Len(items)
           /\ DOMAIN items = 1..Len(items) /\ Len(items) \in Nat
           /\ \A i \in 1..Len(items) : /\ NamePlaces(items)[i] = Position[items[i].value]
                                       /\ items[i] \in I
           /\ {Position[value] : value \in Values(items)} = ToSet(NamePlaces(items))
           /\ {Position[value] : value \in Values(items)} \subseteq Nat
           /\ IsFiniteSet({Position[value] : value \in Values(items)})
<1> DEFINE q == NamePlaces(items)
           P == {Position[value] : value \in Values(items)}
<1>1. /\ DOMAIN items = 1..Len(items)
      /\ Len(items) \in Nat
      /\ \A i \in 1..Len(items) : items[i] \in I
  OBVIOUS
<1>2. \A i \in 1..Len(items) : Position[items[i].value] \in Nat
  BY <1>1, TablesAssumption
<1>3. q \in Seq(Nat) /\ Len(q) = Len(items) /\ DOMAIN q = 1..Len(items)
  BY <1>1, <1>2 DEF NamePlaces
<1>4. \A i \in 1..Len(items) : q[i] = Position[items[i].value]
  BY DEF NamePlaces
<1>5. Values(items) = {items[i].value : i \in 1..Len(items)}
  BY <1>1 DEF Values
<1>6. ToSet(q) = {q[i] : i \in 1..Len(items)}
  BY <1>3 DEF ToSet
<1> HIDE DEF q
<1>7. P = ToSet(q)
  BY <1>4, <1>5, <1>6
<1>8. ToSet(q) \subseteq Nat
  BY <1>3, <1>6
<1>9. IsFiniteSet(ToSet(q))
  BY <1>3, ListIsFinite
<1> HIDE DEF P
<1>10. P \subseteq Nat /\ IsFiniteSet(P)
  BY <1>7, <1>8, <1>9
<1> QED BY <1>1, <1>3, <1>4, <1>7, <1>10 DEF q, P

(* The first of its name at each place of their order.                     *)
LEMMA DedupedIs ==
    ASSUME NEW I, \A item \in I : item.value \in Words, NEW items \in Seq(I)
    PROVE  LET places == Ascending(ToSet(NamePlaces(items)))
               d == Deduped(items)
           IN  /\ places \in Seq(Nat) /\ Increases(places)
               /\ ToSet(places) = ToSet(NamePlaces(items))
               /\ d = [n \in 1..Len(places) |-> d[n]]
               /\ \A n \in 1..Len(places) :
                     \E k \in 1..Len(items) : /\ d[n] = items[k]
                                              /\ Position[items[k].value] = places[n]
<1> DEFINE places == Ascending(ToSet(NamePlaces(items)))
           d == Deduped(items)
           At(place) == {item \in ToSet(items) : Position[item.value] = place}
           q == NamePlaces(items)
<1>1. /\ q \in Seq(Nat) /\ Len(q) = Len(items)
      /\ DOMAIN items = 1..Len(items) /\ Len(items) \in Nat
      /\ \A i \in 1..Len(items) : q[i] = Position[items[i].value] /\ items[i] \in I
      /\ {Position[value] : value \in Values(items)} = ToSet(q)
      /\ ToSet(q) \subseteq Nat /\ IsFiniteSet(ToSet(q))
  BY NamePlacesAre
<1>2. /\ places \in Seq(ToSet(q)) /\ Increases(places) /\ ToSet(places) = ToSet(q)
  BY <1>1, AscendingSorts DEF q
<1>3. DOMAIN places = 1..Len(places) /\ places \in Seq(Nat)
  BY <1>1, <1>2
<1>4. d = [n \in DOMAIN places |-> FirstIn(items, At(places[n]), Absent)]
  BY <1>1 DEF Deduped
<1> HIDE DEF places, d, q
<1>5. ASSUME NEW n \in 1..Len(places)
      PROVE  \E k \in 1..Len(items) : d[n] = items[k] /\ Position[items[k].value] = places[n]
  <2>1. places[n] \in ToSet(q)
    BY <1>2, <1>3 DEF ToSet
  <2>2. PICK i \in 1..Len(items) : places[n] = Position[items[i].value]
    BY <1>1, <2>1 DEF ToSet
  <2>3. items[i] \in At(places[n])
    BY <1>1, <2>2 DEF ToSet
  <2> DEFINE S == At(places[n])
  <2>4. \A x \in S : Position[x.value] = places[n]
    OBVIOUS
  <2>5. d[n] = FirstIn(items, S, Absent)
    BY <1>3, <1>4
  <2> HIDE DEF S, At
  <2>6. PICK k \in 1..Len(items) : IsFirst(items, S, k) /\ FirstIn(items, S, Absent) = items[k]
    BY <2>3, FirstInFound DEF S
  <2> QED BY <2>4, <2>5, <2>6 DEF IsFirst
<1>6. d = [n \in 1..Len(places) |-> d[n]]
  BY <1>3, <1>4
<1> QED BY <1>1, <1>2, <1>3, <1>5, <1>6 DEF places, d, q

(* A list is left with one item for each of its names, in their order.     *)
LEMMA DedupedLists ==
    ASSUME NEW I, \A item \in I : item.value \in Words, NEW items \in Seq(I)
    PROVE  /\ Deduped(items) \in Seq(I)
           /\ \A n \in 1..Len(Deduped(items)) :
                 Deduped(items)[n] \in ToSet(items)
           /\ Values(Deduped(items)) = Values(items)
           /\ Sorted(Deduped(items))
<1> DEFINE q == NamePlaces(items)
           places == Ascending(ToSet(q))
           d == Deduped(items)
<1>1. /\ q \in Seq(Nat) /\ Len(q) = Len(items)
      /\ DOMAIN items = 1..Len(items) /\ Len(items) \in Nat
      /\ \A i \in 1..Len(items) : q[i] = Position[items[i].value] /\ items[i] \in I
  BY NamePlacesAre
<1>2. /\ places \in Seq(Nat) /\ Increases(places)
      /\ ToSet(places) = ToSet(q)
      /\ d = [n \in 1..Len(places) |-> d[n]]
      /\ \A n \in 1..Len(places) :
            \E k \in 1..Len(items) : /\ d[n] = items[k]
                                     /\ Position[items[k].value] = places[n]
  BY DedupedIs DEF q, places, d
<1> HIDE DEF q, places, d
<1>3. Len(places) \in Nat /\ DOMAIN places = 1..Len(places)
  BY <1>2
<1>4. \A n \in 1..Len(places) : d[n] \in I
  BY <1>1, <1>2
<1>5. d \in Seq(I) /\ Len(d) = Len(places) /\ DOMAIN d = 1..Len(places)
  BY <1>2, <1>3, <1>4
<1>6. ASSUME NEW n \in 1..Len(places) PROVE d[n] \in ToSet(items)
  BY <1>1, <1>2 DEF ToSet
<1>7. \A n \in 1..Len(places) : Position[d[n].value] = places[n]
  BY <1>2
<1>8. Sorted(d)
  BY <1>5, <1>7, <1>2, <1>3 DEF Sorted, Increases
<1>9. Values(d) = Values(items)
  <2>1. ASSUME NEW n \in 1..Len(places) PROVE d[n].value \in Values(items)
    BY <1>1, <1>2 DEF Values
  <2>2. ASSUME NEW i \in 1..Len(items) PROVE items[i].value \in Values(d)
    <3>1. q[i] \in ToSet(q)
      BY <1>1 DEF ToSet
    <3>2. PICK n \in 1..Len(places) : places[n] = q[i]
      BY <3>1, <1>2, <1>3 DEF ToSet
    <3>3. Position[d[n].value] = Position[items[i].value]
      BY <3>2, <1>1, <1>7
    <3>4. d[n].value = items[i].value
      <4>1. d[n].value \in Words /\ items[i].value \in Words
        BY <1>1, <1>4
      <4> QED BY <3>3, <4>1, TablesAssumption
    <3> QED BY <3>4, <1>5 DEF Values
  <2> QED BY <2>1, <2>2, <1>1, <1>5 DEF Values
<1> QED BY <1>5, <1>6, <1>8, <1>9 DEF d

(* A list in the order of its names stays as it is.                        *)
LEMMA SortedStays ==
    ASSUME NEW I, \A item \in I : item.value \in Words, NEW items \in Seq(I), Sorted(items)
    PROVE  Deduped(items) = items
<1> DEFINE q == NamePlaces(items)
           places == Ascending(ToSet(q))
           d == Deduped(items)
<1>1. /\ q \in Seq(Nat) /\ Len(q) = Len(items)
      /\ DOMAIN items = 1..Len(items) /\ Len(items) \in Nat
      /\ \A i \in 1..Len(items) : q[i] = Position[items[i].value] /\ items[i] \in I
  BY NamePlacesAre
<1>2. /\ places \in Seq(Nat) /\ Increases(places)
      /\ ToSet(places) = ToSet(q)
      /\ d = [n \in 1..Len(places) |-> d[n]]
      /\ \A n \in 1..Len(places) :
            \E k \in 1..Len(items) : /\ d[n] = items[k]
                                     /\ Position[items[k].value] = places[n]
  BY DedupedIs DEF q, places, d
<1> HIDE DEF q, places, d
<1>3. \A i, j \in 1..Len(items) : i < j => q[i] < q[j]
  BY <1>1 DEF Sorted
<1>4. Increases(q)
  BY <1>1, <1>3 DEF Increases
<1>5. places = q
  BY <1>1, <1>2, <1>4, OneOrder
<1>6. ASSUME NEW n \in 1..Len(items) PROVE d[n] = items[n]
  <2>1. PICK k \in 1..Len(items) : d[n] = items[k] /\ Position[items[k].value] = places[n]
    BY <1>1, <1>2, <1>5
  <2>2. q[k] = q[n]
    BY <2>1, <1>1, <1>5
  <2>3. ~(k < n) /\ ~(n < k)
    <3>1. q[k] \in Nat /\ q[n] \in Nat
      BY <1>1
    <3> QED BY <3>1, <2>2, <1>3
  <2>4. k = n
    BY <2>3, <1>1
  <2> QED BY <2>1, <2>4
<1>7. d = [n \in 1..Len(items) |-> d[n]]
  BY <1>1, <1>2, <1>5
<1>8. items = [n \in 1..Len(items) |-> items[n]]
  BY <1>1
<1> QED BY <1>6, <1>7, <1>8 DEF d

(* Each name is there once.                                                *)
LEMMA SortedNames ==
    ASSUME NEW I, \A item \in I : item.value \in Words, NEW items \in Seq(I), Sorted(items)
    PROVE  /\ \A i, j \in 1..Len(items) : items[i].value = items[j].value => i = j
           /\ Cardinality(Values(items)) = Len(items)
<1> DEFINE v == [i \in 1..Len(items) |-> items[i].value]
<1>1. /\ DOMAIN items = 1..Len(items) /\ Len(items) \in Nat
      /\ \A i \in 1..Len(items) : items[i].value \in Words
  OBVIOUS
<1>2. \A i, j \in 1..Len(items) : items[i].value = items[j].value => i = j
  <2> SUFFICES ASSUME NEW i \in 1..Len(items), NEW j \in 1..Len(items),
                      items[i].value = items[j].value
               PROVE  i = j
    OBVIOUS
  <2>1. Position[items[i].value] \in Nat /\ Position[items[j].value] \in Nat
    BY <1>1, TablesAssumption
  <2>2. ~(Position[items[i].value] < Position[items[j].value])
        /\ ~(Position[items[j].value] < Position[items[i].value])
    BY <2>1
  <2>3. ~(i < j) /\ ~(j < i)
    BY <2>2 DEF Sorted
  <2> QED BY <2>3, <1>1
<1>3. v \in Seq(Words) /\ Len(v) = Len(items)
  BY <1>1
<1>4. Distinct(v)
  BY <1>2, <1>3 DEF Distinct
<1>5. ToSet(v) = Values(items)
  BY <1>1 DEF ToSet, Values
<1>6. Cardinality(ToSet(v)) = Len(v)
  BY <1>3, <1>4, DistinctCounts
<1> QED BY <1>2, <1>3, <1>5, <1>6

-----------------------------------------------------------------------------
(* Names.  Items with or without a label and a word of their own, and      *)
(* those that were named.                                                  *)
Perhaps == Words \cup {Absent}
AnyItem == [value : Words, label : Perhaps, hint : Perhaps, native : Perhaps]
Item == [value : Words, label : Words, hint : Perhaps, native : Words]

LEMMA FirstOfTwo ==
    ASSUME NEW a, NEW b, NEW S, NEW otherwise
    PROVE  FirstIn(<<a, b>>, S, otherwise) =
               IF a \in S THEN a ELSE IF b \in S THEN b ELSE otherwise
<1> DEFINE s == <<a, b>>
<1>1. s \in Seq({a, b}) /\ Len(s) = 2 /\ s[1] = a /\ s[2] = b
  OBVIOUS
<1> HIDE DEF s
<1>2. 1..Len(s) = {1, 2}
  BY <1>1
<1>3. ASSUME NEW i \in 1..Len(s), s[i] \in S
      PROVE  \E k \in 1..Len(s) : IsFirst(s, S, k) /\ FirstIn(s, S, otherwise) = s[k]
  BY <1>1, <1>3, FirstInFound
<1>4. CASE a \in S
  <2>1. PICK k \in 1..Len(s) : IsFirst(s, S, k) /\ FirstIn(s, S, otherwise) = s[k]
    BY <1>1, <1>2, <1>3, <1>4
  <2>2. k = 2 => 1 \in 1..(k - 1)
    OBVIOUS
  <2>3. k = 1
    BY <1>1, <1>2, <1>4, <2>1, <2>2 DEF IsFirst
  <2> QED BY <1>1, <1>4, <2>1, <2>3 DEF s
<1>5. CASE a \notin S /\ b \in S
  <2>1. PICK k \in 1..Len(s) : IsFirst(s, S, k) /\ FirstIn(s, S, otherwise) = s[k]
    BY <1>1, <1>2, <1>3, <1>5
  <2>2. k = 2
    BY <1>1, <1>2, <1>5, <2>1 DEF IsFirst
  <2> QED BY <1>1, <1>5, <2>1, <2>2 DEF s
<1>6. CASE a \notin S /\ b \notin S
  <2>1. \A k \in 1..Len(s) : s[k] \notin S
    BY <1>1, <1>2, <1>6
  <2>2. FirstIn(s, S, otherwise) = otherwise
    BY <1>1, <2>1, FirstInNone
  <2> QED BY <1>6, <2>2 DEF s
<1> QED BY <1>4, <1>5, <1>6

LEMMA FirstOfThree ==
    ASSUME NEW a, NEW b, NEW c, NEW S, NEW otherwise
    PROVE  FirstIn(<<a, b, c>>, S, otherwise) =
               IF a \in S THEN a ELSE IF b \in S THEN b ELSE IF c \in S THEN c ELSE otherwise
<1> DEFINE s == <<a, b, c>>
<1>1. s \in Seq({a, b, c}) /\ Len(s) = 3 /\ s[1] = a /\ s[2] = b /\ s[3] = c
  OBVIOUS
<1> HIDE DEF s
<1>2. 1..Len(s) = {1, 2, 3}
  BY <1>1
<1>3. ASSUME NEW i \in 1..Len(s), s[i] \in S
      PROVE  \E k \in 1..Len(s) : IsFirst(s, S, k) /\ FirstIn(s, S, otherwise) = s[k]
  BY <1>1, <1>3, FirstInFound
<1>4. CASE a \in S \/ b \in S \/ c \in S
  <2>1. PICK k \in 1..Len(s) : IsFirst(s, S, k) /\ FirstIn(s, S, otherwise) = s[k]
    BY <1>1, <1>2, <1>3, <1>4
  <2>2. 2 - 1 = 1 /\ 3 - 1 = 2 /\ 1 \in 1..1 /\ 1 \in 1..2 /\ 2 \in 1..2
    OBVIOUS
  <2>3. CASE k = 1
    BY <1>1, <2>1, <2>3 DEF IsFirst, s
  <2>4. CASE k = 2
    BY <1>1, <2>1, <2>2, <2>4 DEF IsFirst, s
  <2>5. CASE k = 3
    BY <1>1, <2>1, <2>2, <2>5 DEF IsFirst, s
  <2> QED BY <1>2, <2>3, <2>4, <2>5
<1>5. CASE a \notin S /\ b \notin S /\ c \notin S
  <2>1. \A k \in 1..Len(s) : s[k] \notin S
    BY <1>1, <1>2, <1>5
  <2>2. FirstIn(s, S, otherwise) = otherwise
    BY <1>1, <2>1, FirstInNone
  <2> QED BY <1>5, <2>2 DEF s
<1> QED BY <1>4, <1>5

(* Entry k of a table is the first that one of the words gives away.       *)
Table == Seq([name : Words, words : SUBSET Words])
FirstHit(table, words, k) ==
    /\ table[k].words \cap words # {}
    /\ \A j \in 1..(k - 1) : table[j].words \cap words = {}
NoHit(table, words) == \A k \in 1..Len(table) : table[k].words \cap words = {}

LEMMA HitsAre ==
    ASSUME NEW table \in Table, NEW words, NEW otherwise
    PROVE  LET first == FirstIn(table, Hits(table, words), otherwise)
           IN  \/ \E k \in 1..Len(table) : FirstHit(table, words, k) /\ first = table[k]
               \/ NoHit(table, words) /\ first = otherwise
<1> DEFINE E == [name : Words, words : SUBSET Words]
           S == Hits(table, words)
           first == FirstIn(table, S, otherwise)
<1>1. table \in Seq(E) /\ DOMAIN table = 1..Len(table) /\ Len(table) \in Nat
  BY DEF Table
<1>2. \A k \in 1..Len(table) : table[k] \in S <=> table[k].words \cap words # {}
  BY <1>1 DEF Hits, ToSet
<1> HIDE DEF S, E
<1>3. CASE \E k \in 1..Len(table) : table[k] \in S
  <2>1. PICK k \in 1..Len(table) : IsFirst(table, S, k) /\ first = table[k]
    BY <1>1, <1>3, FirstInFound
  <2>2. \A j \in 1..(k - 1) : j \in 1..Len(table)
    BY <1>1
  <2>3. FirstHit(table, words, k)
    BY <1>2, <2>1, <2>2 DEF IsFirst, FirstHit
  <2> QED BY <2>1, <2>3 DEF S
<1>4. CASE ~\E k \in 1..Len(table) : table[k] \in S
  <2>1. first = otherwise
    BY <1>1, <1>4, FirstInNone
  <2>2. NoHit(table, words)
    BY <1>2, <1>4 DEF NoHit
  <2> QED BY <2>1, <2>2 DEF S
<1> QED BY <1>3, <1>4

LEMMA TableEntries ==
    ASSUME NEW table \in Table
    PROVE  /\ \A k \in 1..Len(table) : /\ table[k].name \in Words
                                        /\ table[k].words \subseteq Words
                                        /\ table[k] \in ToSet(table)
           /\ \A entry \in ToSet(table) : \E k \in 1..Len(table) : entry = table[k]
           /\ Len(table) \in Nat
<1>1. /\ DOMAIN table = 1..Len(table) /\ Len(table) \in Nat
      /\ \A k \in 1..Len(table) : table[k] \in [name : Words, words : SUBSET Words]
  <2> DEFINE E == [name : Words, words : SUBSET Words]
  <2>1. table \in Seq(E)
    BY DEF Table
  <2> HIDE DEF E
  <2>2. /\ DOMAIN table = 1..Len(table) /\ Len(table) \in Nat
        /\ \A k \in 1..Len(table) : table[k] \in E
    BY <2>1
  <2> QED BY <2>2 DEF E
<1>2. ToSet(table) = {table[k] : k \in 1..Len(table)}
  BY <1>1 DEF ToSet
<1> HIDE DEF ToSet
<1>3. \A entry \in [name : Words, words : SUBSET Words] :
         entry.name \in Words /\ entry.words \subseteq Words
  OBVIOUS
<1> QED BY <1>1, <1>2, <1>3

(* What a word hits first is what another hits first, or that one hits     *)
(* before.                                                                 *)
LEMMA HitBefore ==
    ASSUME NEW table \in Table, NEW A, NEW B, NEW k \in 1..Len(table),
           FirstHit(table, A, k), table[k].words \cap B # {},
           NEW m \in 1..Len(table), FirstHit(table, B, m)
    PROVE  m = k \/ (m < k /\ table[m].words \cap A = {})
<1>1. m \in Nat /\ k \in Nat
  BY TableEntries
<1>2. ~(k < m)
  <2>1. k < m => k \in 1..(m - 1)
    BY <1>1
  <2> QED BY <2>1 DEF FirstHit
<1>3. m < k => m \in 1..(k - 1)
  BY <1>1
<1> QED BY <1>1, <1>2, <1>3 DEF FirstHit

LEMMA ServiceKeyIs ==
    ASSUME NEW raw \in Words, NEW label \in Perhaps
    PROVE  /\ ServiceKey(raw, label) \in Words
           /\ \/ \E k \in 1..Len(Patterns) : /\ FirstHit(Patterns, {raw, label}, k)
                                            /\ ServiceKey(raw, label) = Patterns[k].name
              \/ /\ NoHit(Patterns, {raw, label})
                 /\ ServiceKey(raw, label) = IF label # Absent THEN label ELSE raw
<1> DEFINE otherwise == [name |-> IF label # Absent THEN label ELSE raw]
           first == FirstIn(Patterns, Hits(Patterns, {raw, label}), otherwise)
<1>1. Patterns \in Table
  BY TablesAssumption DEF Table
<1>2. \/ \E k \in 1..Len(Patterns) : FirstHit(Patterns, {raw, label}, k) /\ first = Patterns[k]
      \/ NoHit(Patterns, {raw, label}) /\ first = otherwise
  BY <1>1, HitsAre
<1>3. \A k \in 1..Len(Patterns) : Patterns[k].name \in Words
  BY <1>1, TableEntries
<1>4. ServiceKey(raw, label) = first.name
  BY DEF ServiceKey
<1>5. otherwise.name = (IF label # Absent THEN label ELSE raw) /\ otherwise.name \in Words
  BY DEF Perhaps
<1> HIDE DEF first, otherwise
<1> QED BY <1>2, <1>3, <1>4, <1>5

(* The first alias with a word, and the first with a name.                 *)
FirstNative(raw, k) ==
    Aliases[k].native = raw /\ \A j \in 1..(k - 1) : Aliases[j].native # raw
FirstAlias(name, k) ==
    Aliases[k].name = name /\ \A j \in 1..(k - 1) : Aliases[j].name # name

LEMMA AliasEntries ==
    /\ Aliases \in Seq([name : Words, native : Words])
    /\ Len(Aliases) \in Nat /\ DOMAIN Aliases = 1..Len(Aliases)
    /\ \A k \in 1..Len(Aliases) : /\ Aliases[k].name \in Words /\ Aliases[k].native \in Words
                                  /\ Aliases[k] \in ToSet(Aliases)
<1>1. Aliases \in Seq([name : Words, native : Words])
  BY TablesAssumption
<1>2. /\ DOMAIN Aliases = 1..Len(Aliases) /\ Len(Aliases) \in Nat
      /\ \A k \in 1..Len(Aliases) : Aliases[k] \in [name : Words, native : Words]
  <2> DEFINE E == [name : Words, native : Words]
  <2>1. Aliases \in Seq(E)
    BY <1>1
  <2> HIDE DEF E
  <2>2. /\ DOMAIN Aliases = 1..Len(Aliases) /\ Len(Aliases) \in Nat
        /\ \A k \in 1..Len(Aliases) : Aliases[k] \in E
    BY <2>1
  <2> QED BY <2>2 DEF E
<1>3. ToSet(Aliases) = {Aliases[k] : k \in 1..Len(Aliases)}
  BY <1>2 DEF ToSet
<1> QED BY <1>1, <1>2, <1>3

LEMMA FirstNativeIs ==
    ASSUME NEW raw, NEW otherwise
    PROVE  LET first == FirstIn(Aliases, {a \in ToSet(Aliases) : a.native = raw}, otherwise)
           IN  \/ \E k \in 1..Len(Aliases) : FirstNative(raw, k) /\ first = Aliases[k]
               \/ (\A k \in 1..Len(Aliases) : Aliases[k].native # raw) /\ first = otherwise
<1> DEFINE S == {a \in ToSet(Aliases) : a.native = raw}
           first == FirstIn(Aliases, S, otherwise)
           E == [name : Words, native : Words]
<1>1. Aliases \in Seq(E) /\ Len(Aliases) \in Nat
  BY AliasEntries
<1>2. \A k \in 1..Len(Aliases) : Aliases[k] \in S <=> Aliases[k].native = raw
  BY AliasEntries
<1> HIDE DEF S, E
<1>3. CASE \E k \in 1..Len(Aliases) : Aliases[k] \in S
  <2>1. PICK k \in 1..Len(Aliases) : IsFirst(Aliases, S, k) /\ first = Aliases[k]
    BY <1>1, <1>3, FirstInFound
  <2>2. \A j \in 1..(k - 1) : j \in 1..Len(Aliases)
    BY <1>1
  <2>3. FirstNative(raw, k)
    BY <1>2, <2>1, <2>2 DEF IsFirst, FirstNative
  <2> QED BY <2>1, <2>3 DEF S
<1>4. CASE ~\E k \in 1..Len(Aliases) : Aliases[k] \in S
  <2>1. first = otherwise
    BY <1>1, <1>4, FirstInNone
  <2> QED BY <1>2, <1>4, <2>1 DEF S
<1> QED BY <1>3, <1>4

LEMMA ServiceNameIs ==
    ASSUME NEW raw \in Words, NEW label \in Perhaps
    PROVE  /\ ServiceName(raw, label) \in Words
           /\ \/ \E k \in 1..Len(Aliases) : /\ FirstNative(raw, k)
                                            /\ ServiceName(raw, label) = Aliases[k].name
              \/ /\ \A k \in 1..Len(Aliases) : Aliases[k].native # raw
                 /\ ServiceName(raw, label) = ServiceKey(raw, label)
<1> DEFINE otherwise == [name |-> ServiceKey(raw, label)]
           first == FirstIn(Aliases, {a \in ToSet(Aliases) : a.native = raw}, otherwise)
<1>1. \/ \E k \in 1..Len(Aliases) : FirstNative(raw, k) /\ first = Aliases[k]
      \/ (\A k \in 1..Len(Aliases) : Aliases[k].native # raw) /\ first = otherwise
  BY FirstNativeIs
<1>2. ServiceName(raw, label) = first.name
  BY DEF ServiceName
<1>3. otherwise.name = ServiceKey(raw, label) /\ ServiceKey(raw, label) \in Words
  BY ServiceKeyIs
<1> HIDE DEF first, otherwise
<1> QED BY <1>1, <1>2, <1>3, AliasEntries

LEMMA AliasIs ==
    ASSUME NEW service
    PROVE  \/ \E k \in 1..Len(Aliases) : /\ FirstAlias(service, k)
                                         /\ Alias(service) = Aliases[k].native
           \/ /\ \A k \in 1..Len(Aliases) : Aliases[k].name # service
              /\ Alias(service) = service
<1> DEFINE S == {a \in ToSet(Aliases) : a.name = service}
           otherwise == [native |-> service]
           first == FirstIn(Aliases, S, otherwise)
           E == [name : Words, native : Words]
<1>1. Aliases \in Seq(E) /\ Len(Aliases) \in Nat
  BY AliasEntries
<1>2. \A k \in 1..Len(Aliases) : Aliases[k] \in S <=> Aliases[k].name = service
  BY AliasEntries
<1>3. Alias(service) = first.native /\ otherwise.native = service
  BY DEF Alias
<1> HIDE DEF S, E, otherwise, first
<1>4. CASE \E k \in 1..Len(Aliases) : Aliases[k] \in S
  <2>1. PICK k \in 1..Len(Aliases) : IsFirst(Aliases, S, k) /\ first = Aliases[k]
    BY <1>1, <1>4, FirstInFound DEF first
  <2>2. \A j \in 1..(k - 1) : j \in 1..Len(Aliases)
    BY <1>1
  <2>3. FirstAlias(service, k)
    BY <1>2, <2>1, <2>2 DEF IsFirst, FirstAlias
  <2> QED BY <1>3, <2>1, <2>3
<1>5. CASE ~\E k \in 1..Len(Aliases) : Aliases[k] \in S
  <2>1. first = otherwise
    BY <1>1, <1>5, FirstInNone DEF first
  <2> QED BY <1>2, <1>3, <1>5, <2>1
<1> QED BY <1>4, <1>5

LEMMA AliasIsWord == ASSUME NEW service \in Words PROVE Alias(service) \in Words
  BY AliasIs, AliasEntries

-----------------------------------------------------------------------------
(* Naming an item.                                                         *)
LEMMA ItemWith ==
    ASSUME NEW item \in AnyItem, NEW v, NEW n, NEW l
    PROVE  [item EXCEPT !.value = v, !.native = n, !.label = l] =
               [value |-> v, hint |-> item.hint, native |-> n, label |-> l]
<1>1. item = [value |-> item.value, hint |-> item.hint, native |-> item.native,
              label |-> item.label]
  BY DEF AnyItem
<1> DEFINE a == [item EXCEPT !.value = v]
           b == [a EXCEPT !.native = n]
<1>2. a = [value |-> v, hint |-> item.hint, native |-> item.native, label |-> item.label]
  BY <1>1
<1> HIDE DEF a
<1>3. b = [value |-> v, hint |-> item.hint, native |-> n, label |-> item.label]
  BY <1>2
<1> HIDE DEF b
<1>4. [b EXCEPT !.label = l] = [value |-> v, hint |-> item.hint, native |-> n, label |-> l]
  BY <1>3
<1> QED BY <1>4 DEF a, b

LEMMA NamedServiceIs ==
    ASSUME NEW item \in AnyItem
    PROVE  LET raw == RawValue(item)
               name == ServiceName(raw, item.label)
           IN  /\ raw \in Words /\ name \in Words
               /\ NamedService(item) \in Item
               /\ NamedService(item) =
                     [value |-> name, hint |-> item.hint, native |-> raw,
                      label |-> IF name \in DOMAIN ServiceLabels THEN ServiceLabels[name]
                                ELSE IF item.label # Absent THEN item.label ELSE name]
               /\ RawValue(NamedService(item)) = raw
<1> DEFINE raw == RawValue(item)
           name == ServiceName(raw, item.label)
           label == IF name \in DOMAIN ServiceLabels THEN ServiceLabels[name]
                    ELSE IF item.label # Absent THEN item.label ELSE name
           u == [value |-> name, hint |-> item.hint, native |-> raw, label |-> label]
<1>1. raw \in Words /\ item.label \in Perhaps /\ item.hint \in Perhaps
  BY DEF RawValue, AnyItem, Perhaps
<1>2. name \in Words
  BY <1>1, ServiceNameIs
<1>3. label \in Words
  BY <1>1, <1>2, TablesAssumption DEF Perhaps
<1>4. NamedService(item) = u
  <2>1. NamedService(item) =
            [item EXCEPT !.value = name, !.native = raw, !.label = label]
    BY DEF NamedService
  <2> HIDE DEF name, raw, label
  <2> QED BY <2>1, ItemWith
<1> HIDE DEF raw, name, label
<1>5. u \in Item
  BY <1>1, <1>2, <1>3 DEF Item
<1>6. RawValue(u) = raw
  BY <1>1, TablesAssumption DEF RawValue
<1> QED BY <1>1, <1>2, <1>4, <1>5, <1>6 DEF raw, name, label

LEMMA ItemsAre == Item \subseteq AnyItem /\ Given \subseteq AnyItem
  BY DEF Item, AnyItem, Given, Perhaps

(* Naming an item once more changes nothing.                               *)
LEMMA ServiceNamedTwice ==
    ASSUME ServicesTell, NEW item \in AnyItem
    PROVE  NamedService(NamedService(item)) = NamedService(item)
<1> DEFINE raw == RawValue(item)
           name == ServiceName(raw, item.label)
           u == NamedService(item)
           again == ServiceName(raw, u.label)
<1>1. /\ raw \in Words /\ name \in Words /\ u \in Item
      /\ u = [value |-> name, hint |-> item.hint, native |-> raw,
              label |-> IF name \in DOMAIN ServiceLabels THEN ServiceLabels[name]
                        ELSE IF item.label # Absent THEN item.label ELSE name]
      /\ RawValue(u) = raw
  BY NamedServiceIs
<1>2. NamedService(u) = [value |-> again, hint |-> u.hint, native |-> raw,
              label |-> IF again \in DOMAIN ServiceLabels THEN ServiceLabels[again]
                        ELSE IF u.label # Absent THEN u.label ELSE again]
  <2>1. u \in AnyItem
    BY <1>1, ItemsAre
  <2> HIDE DEF u, raw, name
  <2> QED BY <2>1, <1>1, NamedServiceIs
<1>a. item.label \in Perhaps /\ u.label \in Perhaps /\ u.label # Absent /\ u.label \in Words
  BY <1>1, TablesAssumption DEF AnyItem, Item, Perhaps
<1>l. u.label = IF name \in DOMAIN ServiceLabels THEN ServiceLabels[name]
                ELSE IF item.label # Absent THEN item.label ELSE name
  BY <1>1
<1> HIDE DEF u
<1>3. again = name
  <2>1. CASE \E k \in 1..Len(Aliases) : Aliases[k].native = raw
    <3>1. PICK k \in 1..Len(Aliases) : FirstNative(raw, k) /\ name = Aliases[k].name
      BY <1>1, <1>a, <2>1, ServiceNameIs
    <3>2. PICK m \in 1..Len(Aliases) : FirstNative(raw, m) /\ again = Aliases[m].name
      BY <1>1, <1>a, <2>1, ServiceNameIs
    <3>3. k \in Nat /\ m \in Nat
      BY AliasEntries
    <3>4. ~(k < m) /\ ~(m < k)
      <4>1. k < m => k \in 1..(m - 1)
        BY <3>3
      <4>2. m < k => m \in 1..(k - 1)
        BY <3>3
      <4> QED BY <4>1, <4>2, <3>1, <3>2 DEF FirstNative
    <3> QED BY <3>1, <3>2, <3>3, <3>4
  <2>2. CASE \A k \in 1..Len(Aliases) : Aliases[k].native # raw
    <3>1. name = ServiceKey(raw, item.label) /\ again = ServiceKey(raw, u.label)
      BY <1>1, <1>a, <2>2, ServiceNameIs DEF FirstNative
    <3>p. Patterns \in Table
      BY TablesAssumption DEF Table
    <3>t. /\ Len(Patterns) \in Nat
          /\ \A j \in 1..Len(Patterns) : /\ Patterns[j] \in ToSet(Patterns)
                                         /\ Patterns[j].name \in PatternNames
      BY <3>p, TableEntries DEF PatternNames
    <3>s. \A j \in 1..Len(Patterns) :
             /\ \A n \in PatternNames : n \in Patterns[j].words => n = Patterns[j].name
             /\ \A n \in DOMAIN ServiceLabels :
                   (n = Patterns[j].name) <=> (ServiceLabels[n] \in Patterns[j].words)
      BY <3>t DEF ServicesTell
    (* Whatever hits only the new label is called by the name.             *)
    <3>2. CASE \E k \in 1..Len(Patterns) : /\ FirstHit(Patterns, {raw, item.label}, k)
                                           /\ name = Patterns[k].name
      <4>1. PICK k \in 1..Len(Patterns) : /\ FirstHit(Patterns, {raw, item.label}, k)
                                         /\ name = Patterns[k].name
        BY <3>2
      <4>2. CASE u.label = item.label
        BY <3>1, <4>2
      <4>3. CASE u.label # item.label
        <5>1. ASSUME NEW j \in 1..Len(Patterns), u.label \in Patterns[j].words
              PROVE  Patterns[j].name = name
          BY <5>1, <4>1, <4>3, <3>s, <3>t, <1>l
        <5>2. Patterns[k].words \cap {raw, u.label} # {}
          <6>1. CASE name \in DOMAIN ServiceLabels
            BY <6>1, <4>1, <3>s, <1>l
          <6>2. CASE name \notin DOMAIN ServiceLabels
            <7>1. item.label = Absent
              BY <6>2, <1>l, <4>3
            <7>2. Absent \notin Patterns[k].words
              BY <3>p, TableEntries, TablesAssumption
            <7> QED BY <7>1, <7>2, <4>1 DEF FirstHit
          <6> QED BY <6>1, <6>2
        <5>3. CASE \E m \in 1..Len(Patterns) : /\ FirstHit(Patterns, {raw, u.label}, m)
                                               /\ again = Patterns[m].name
          <6>1. PICK m \in 1..Len(Patterns) : /\ FirstHit(Patterns, {raw, u.label}, m)
                                             /\ again = Patterns[m].name
            BY <5>3
          <6>2. m = k \/ (m < k /\ Patterns[m].words \cap {raw, item.label} = {})
            BY <3>p, <4>1, <5>2, <6>1, HitBefore
          <6>3. Patterns[m].words \cap {raw, item.label} = {} => u.label \in Patterns[m].words
            BY <6>1 DEF FirstHit
          <6> QED BY <6>1, <6>2, <6>3, <5>1, <4>1
        <5>4. CASE NoHit(Patterns, {raw, u.label})
          BY <5>4, <5>2 DEF NoHit
        <5> QED BY <5>3, <5>4, <3>1, <1>1, <1>a, ServiceKeyIs
      <4> QED BY <4>2, <4>3
    <3>3. CASE /\ NoHit(Patterns, {raw, item.label})
               /\ name = IF item.label # Absent THEN item.label ELSE raw
      <4>1. CASE name \in DOMAIN ServiceLabels
        <5>1. PICK k \in 1..Len(Patterns) : Patterns[k].name = name
          BY <4>1, <3>p, TableEntries DEF ServicesTell, PatternNames
        <5>2. u.label \in Patterns[k].words
          BY <5>1, <4>1, <3>s, <1>l
        <5>3. ASSUME NEW j \in 1..Len(Patterns), Patterns[j].words \cap {raw, u.label} # {}
              PROVE  Patterns[j].name = name
          <6>1. raw \notin Patterns[j].words
            BY <3>3 DEF NoHit
          <6>2. u.label \in Patterns[j].words
            BY <6>1, <5>3
          <6> QED BY <6>2, <4>1, <3>s, <1>l
        <5>4. ~NoHit(Patterns, {raw, u.label})
          BY <5>2 DEF NoHit
        <5>5. PICK m \in 1..Len(Patterns) : /\ FirstHit(Patterns, {raw, u.label}, m)
                                           /\ again = Patterns[m].name
          BY <5>4, <3>1, <1>1, <1>a, ServiceKeyIs
        <5> QED BY <5>3, <5>5 DEF FirstHit
      <4>2. CASE name \notin DOMAIN ServiceLabels
        <5>1. u.label = name
          BY <4>2, <3>3, <1>l
        <5>2. NoHit(Patterns, {raw, name})
          BY <3>3 DEF NoHit
        <5> QED BY <5>1, <5>2, <3>1, <1>1, <1>a, ServiceKeyIs DEF NoHit, FirstHit
      <4> QED BY <4>1, <4>2
    <3> QED BY <3>1, <3>2, <3>3, <1>1, <1>a, ServiceKeyIs
  <2> QED BY <2>1, <2>2
<1> HIDE DEF again, name, raw
<1>4. NamedService(u) = u
  <2>1. (IF again \in DOMAIN ServiceLabels THEN ServiceLabels[again] ELSE u.label) = u.label
    BY <1>3, <1>l
  <2>2. NamedService(u) = [value |-> name, hint |-> u.hint, native |-> raw, label |-> u.label]
    BY <1>2, <1>3, <1>a, <2>1, <1>l
  <2>3. u.value = name /\ u.hint = item.hint /\ u.native = raw
    BY <1>1
  <2> QED BY <1>1, <1>l, <2>2, <2>3
<1> QED BY <1>4 DEF u

-----------------------------------------------------------------------------
(* Naming a country.                                                       *)
Heard(raw, label, hint) ==
    LET D == DOMAIN CountryAliases
    IN  IF raw \in Numeric
        THEN IF label \in D THEN label ELSE IF hint \in D THEN hint
             ELSE IF raw \in D THEN raw ELSE Absent
        ELSE IF raw \in D THEN raw ELSE IF label \in D THEN label
             ELSE IF hint \in D THEN hint ELSE Absent

LEMMA FallbackIs ==
    ASSUME NEW raw \in Words, NEW label \in Perhaps, NEW hint \in Perhaps
    PROVE  LET telling == Words \ (Numeric \cup {raw})
               a == IF raw \in Numeric THEN hint ELSE label
               b == IF raw \in Numeric THEN label ELSE hint
           IN  CountryFallback(raw, label, hint) =
                   IF raw \in Codes THEN raw
                   ELSE IF a \in telling THEN a ELSE IF b \in telling THEN b ELSE raw
  BY FirstOfTwo DEF CountryFallback

(* Where the name of a country comes from.                                 *)
Sourced(name, raw, label, hint) ==
    LET D == DOMAIN CountryAliases
    IN  \/ /\ Heard(raw, label, hint) \in D
           /\ name = CountryAliases[Heard(raw, label, hint)]
        \/ /\ raw \notin D /\ label \notin D /\ hint \notin D
           /\ \/ \E k \in 1..Len(TextAliases) : /\ FirstHit(TextAliases, {label, hint}, k)
                                               /\ name = TextAliases[k].name
              \/ /\ NoHit(TextAliases, {label, hint})
                 /\ name = CountryFallback(raw, label, hint)

LEMMA CountryNameIs ==
    ASSUME NEW raw \in Words, NEW label \in Perhaps, NEW hint \in Perhaps
    PROVE  /\ CountryName(raw, label, hint) \in Words
           /\ Sourced(CountryName(raw, label, hint), raw, label, hint)
<1> DEFINE D == DOMAIN CountryAliases
           name == CountryName(raw, label, hint)
           word == Heard(raw, label, hint)
           otherwise == [name |-> CountryFallback(raw, label, hint)]
           first == FirstIn(TextAliases, Hits(TextAliases, {label, hint}), otherwise)
<1>1. Absent \notin D /\ \A w \in D : CountryAliases[w] \in Words
  BY TablesAssumption
<1>2. FirstIn(IF raw \in Numeric THEN <<label, hint, raw>> ELSE <<raw, label, hint>>,
              D, Absent) = word
  BY FirstOfThree DEF Heard
<1>3. name = IF word # Absent THEN CountryAliases[word] ELSE first.name
  BY <1>2 DEF CountryName
<1>4. /\ word # Absent => word \in D
      /\ word = Absent => raw \notin D /\ label \notin D /\ hint \notin D
  BY <1>1 DEF Heard
<1>5. TextAliases \in Table
  BY TablesAssumption DEF Table
<1>6. \/ \E k \in 1..Len(TextAliases) :
           FirstHit(TextAliases, {label, hint}, k) /\ first = TextAliases[k]
      \/ NoHit(TextAliases, {label, hint}) /\ first = otherwise
  BY <1>5, HitsAre
<1>7. \A k \in 1..Len(TextAliases) : TextAliases[k].name \in Words
  BY <1>5, TableEntries
<1>8. /\ otherwise.name = CountryFallback(raw, label, hint)
      /\ CountryFallback(raw, label, hint) \in Words
  BY FallbackIs DEF Perhaps
<1> HIDE DEF otherwise, first, word, name
<1>9. name \in Words
  BY <1>1, <1>3, <1>4, <1>6, <1>7, <1>8
<1>10. Sourced(name, raw, label, hint)
  BY <1>1, <1>3, <1>4, <1>6, <1>8 DEF Sourced, word
<1> QED BY <1>9, <1>10 DEF name

LEMMA NamedCountryIs ==
    ASSUME NEW item \in AnyItem
    PROVE  LET raw == RawValue(item)
               name == CountryName(raw, item.label, item.hint)
           IN  /\ raw \in Words /\ name \in Words
               /\ NamedCountry(item) \in Item
               /\ NamedCountry(item) =
                     [value |-> name, hint |-> item.hint, native |-> raw,
                      label |-> IF name \in DOMAIN CountryLabels THEN CountryLabels[name]
                                ELSE name]
               /\ RawValue(NamedCountry(item)) = raw
<1> DEFINE raw == RawValue(item)
           name == CountryName(raw, item.label, item.hint)
           label == IF name \in DOMAIN CountryLabels THEN CountryLabels[name] ELSE name
           u == [value |-> name, hint |-> item.hint, native |-> raw, label |-> label]
<1>1. raw \in Words /\ item.label \in Perhaps /\ item.hint \in Perhaps
  BY DEF RawValue, AnyItem, Perhaps
<1>2. name \in Words
  <2> HIDE DEF raw
  <2> QED BY <1>1, CountryNameIs
<1>3. label \in Words
  BY <1>1, <1>2, TablesAssumption DEF Perhaps
<1>4. NamedCountry(item) = u
  <2>1. NamedCountry(item) =
            [item EXCEPT !.value = name, !.native = raw, !.label = label]
    BY DEF NamedCountry
  <2> HIDE DEF name, raw, label
  <2> QED BY <2>1, ItemWith
<1> HIDE DEF raw, name, label
<1>5. u \in Item
  BY <1>1, <1>2, <1>3 DEF Item
<1>6. RawValue(u) = raw
  BY <1>1, TablesAssumption DEF RawValue
<1> QED BY <1>1, <1>2, <1>4, <1>5, <1>6 DEF raw, name, label

(* A country that is left under its own word does not have that for a      *)
(* text alias.                                                             *)
Labelled(raw, label) ==
    \A t \in ToSet(TextAliases) :
        raw \in t.words \ DOMAIN CountryAliases =>
            label = raw \/ (raw \notin Codes /\ label \in Words \ Numeric)

LEMMA CountryTexts ==
    ASSUME CountriesTell
    PROVE  /\ TextAliases \in Table /\ Len(TextAliases) \in Nat
           /\ \A k \in 1..Len(TextAliases) :
                 LET t == TextAliases[k]
                 IN  /\ t \in ToSet(TextAliases) /\ t.words \subseteq Words
                     /\ t.name \in DOMAIN CountryLabels \/ t.name \in t.words
                     /\ t.name \in DOMAIN CountryAliases => CountryAliases[t.name] = t.name
                     /\ \A j \in 1..Len(TextAliases) :
                           t.name \in TextAliases[j].words => TextAliases[j].name = t.name
                     /\ \A n \in DOMAIN CountryLabels : n \in t.words => n = t.name
<1>1. TextAliases \in Table
  BY TablesAssumption DEF Table
<1>2. /\ Len(TextAliases) \in Nat
      /\ \A k \in 1..Len(TextAliases) : /\ TextAliases[k] \in ToSet(TextAliases)
                                        /\ TextAliases[k].words \subseteq Words
  BY <1>1, TableEntries
<1> QED BY <1>1, <1>2 DEF CountriesTell

(* The fallback is one of the words, and its own fallback.                 *)
LEMMA FallbackSettles ==
    ASSUME NEW raw \in Words, NEW label \in Perhaps, NEW hint \in Perhaps,
           NEW name, name = CountryFallback(raw, label, hint)
    PROVE  /\ name \in Words /\ name \in {raw, label, hint}
           /\ CountryFallback(raw, name, hint) = name
           /\ CountryFallback(name, name, Absent) = name
           /\ name = raw => raw \in Codes \/ label \notin Words \ (Numeric \cup {raw})
  BY FallbackIs, TablesAssumption DEF Perhaps

(* A name that comes from the text aliases or from the words themselves is *)
(* hit by no text alias of another name.                                   *)
Settled(name, raw, label, hint) ==
    LET D == DOMAIN CountryAliases
    IN  /\ name \in D => CountryAliases[name] = name
        /\ \A k \in 1..Len(TextAliases) :
              name \in TextAliases[k].words => TextAliases[k].name = name
        /\ name \notin DOMAIN CountryLabels =>
              /\ raw \notin D /\ label \notin D /\ hint \notin D /\ name \notin D
              /\ \/ \E k \in 1..Len(TextAliases) :
                       /\ FirstHit(TextAliases, {label, hint}, k)
                       /\ name = TextAliases[k].name /\ name \in TextAliases[k].words
                 \/ /\ NoHit(TextAliases, {label, hint})
                    /\ NoHit(TextAliases, {name})
                    /\ name = CountryFallback(raw, label, hint)

LEMMA NameSettles ==
    ASSUME CountriesTell, NEW raw \in Words, NEW label \in Perhaps, NEW hint \in Perhaps,
           Labelled(raw, label)
    PROVE  Settled(CountryName(raw, label, hint), raw, label, hint)
<1> DEFINE name == CountryName(raw, label, hint)
           D == DOMAIN CountryAliases
<1>1. /\ name \in Words
      /\ \/ Heard(raw, label, hint) \in D /\ name = CountryAliases[Heard(raw, label, hint)]
         \/ /\ raw \notin D /\ label \notin D /\ hint \notin D
            /\ \/ \E k \in 1..Len(TextAliases) :
                     /\ FirstHit(TextAliases, {label, hint}, k)
                     /\ name = TextAliases[k].name
               \/ /\ NoHit(TextAliases, {label, hint})
                  /\ name = CountryFallback(raw, label, hint)
  BY CountryNameIs DEF Sourced
<1> HIDE DEF name
<1> SUFFICES Settled(name, raw, label, hint)
  BY DEF name
<1>2. ASSUME name \in DOMAIN CountryLabels
      PROVE  /\ name \in D => CountryAliases[name] = name
             /\ \A k \in 1..Len(TextAliases) :
                   name \in TextAliases[k].words => TextAliases[k].name = name
  BY <1>2, CountryTexts DEF CountriesTell
<1>3. CASE name \in DOMAIN CountryLabels
  BY <1>2, <1>3 DEF Settled
<1>4. CASE name \notin DOMAIN CountryLabels
  <2>1. \A word \in D : CountryAliases[word] \in DOMAIN CountryLabels
    BY DEF CountriesTell
  <2>2. raw \notin D /\ label \notin D /\ hint \notin D
    BY <1>1, <1>4, <2>1
  <2>3. CASE \E k \in 1..Len(TextAliases) : /\ FirstHit(TextAliases, {label, hint}, k)
                                            /\ name = TextAliases[k].name
    <3>1. PICK k \in 1..Len(TextAliases) : /\ FirstHit(TextAliases, {label, hint}, k)
                                           /\ name = TextAliases[k].name
      BY <2>3
    <3>2. /\ name \in TextAliases[k].words
          /\ name \in D => CountryAliases[name] = name
          /\ \A j \in 1..Len(TextAliases) :
                name \in TextAliases[j].words => TextAliases[j].name = name
      BY <3>1, <1>4, CountryTexts
    <3>3. name \notin D
      BY <3>2, <2>1, <1>4
    <3> QED BY <2>2, <3>1, <3>2, <3>3 DEF Settled
  <2>4. CASE /\ NoHit(TextAliases, {label, hint})
             /\ name = CountryFallback(raw, label, hint)
    <3>1. /\ name \in {raw, label, hint}
          /\ name = raw => raw \in Codes \/ label \notin Words \ (Numeric \cup {raw})
      BY <2>4, FallbackSettles
    <3>2. name \notin D
      BY <3>1, <2>2
    <3>3. ASSUME NEW k \in 1..Len(TextAliases) PROVE name \notin TextAliases[k].words
      <4>1. label \notin TextAliases[k].words /\ hint \notin TextAliases[k].words
        BY <2>4 DEF NoHit
      <4>2. name = raw => raw \notin TextAliases[k].words
        <5>1. TextAliases[k] \in ToSet(TextAliases)
          BY CountryTexts
        <5> QED BY <5>1, <4>1, <3>1, <2>2 DEF Labelled
      <4> QED BY <4>1, <4>2, <3>1
    <3>4. NoHit(TextAliases, {name})
      BY <3>3 DEF NoHit
    <3> QED BY <2>2, <2>4, <3>2, <3>3, <3>4 DEF Settled
  <2> QED BY <1>1, <2>2, <2>3, <2>4, <1>4, <2>1
<1> QED BY <1>3, <1>4

(* A country's name is its own key.                                        *)
LEMMA KeyOfName ==
    ASSUME CountriesTell, NEW raw \in Words, NEW label \in Perhaps, NEW hint \in Perhaps,
           NEW name \in Words, Settled(name, raw, label, hint)
    PROVE  CountryKey(name) = name
<1> DEFINE key == CountryName(name, name, Absent)
           D == DOMAIN CountryAliases
<1>1. /\ name \in D => CountryAliases[name] = name
      /\ \A k \in 1..Len(TextAliases) :
            name \in TextAliases[k].words => TextAliases[k].name = name
  BY DEF Settled
<1>2. /\ Absent \in Perhaps /\ name \in Perhaps /\ Absent \notin Words /\ D \subseteq Words
  BY TablesAssumption DEF Perhaps
<1>3. Sourced(key, name, name, Absent)
  BY <1>2, CountryNameIs
<1>4. CountryKey(name) = key
  BY DEF CountryKey
<1> HIDE DEF key
<1>5. CASE name \in D
  <2>1. Heard(name, name, Absent) = name
    BY <1>2, <1>5 DEF Heard
  <2> QED BY <1>1, <1>3, <1>4, <1>5, <2>1 DEF Sourced
<1>6. CASE name \notin D
  <2>1. Heard(name, name, Absent) \notin D
    BY <1>2, <1>6 DEF Heard
  <2>2. \/ \E k \in 1..Len(TextAliases) : /\ FirstHit(TextAliases, {name, Absent}, k)
                                          /\ key = TextAliases[k].name
        \/ key = CountryFallback(name, name, Absent)
    BY <1>3, <2>1 DEF Sourced
  <2>3. ASSUME NEW k \in 1..Len(TextAliases), FirstHit(TextAliases, {name, Absent}, k)
        PROVE  TextAliases[k].name = name
    <3>1. Absent \notin TextAliases[k].words
      BY <1>2, CountryTexts
    <3> QED BY <1>1, <2>3, <3>1 DEF FirstHit
  <2>4. CountryFallback(name, name, Absent) = name
    BY <1>2, FallbackIs
  <2> QED BY <1>4, <2>2, <2>3, <2>4
<1> QED BY <1>5, <1>6

(* A country whose label is no alias, but which is listed by its code.     *)
KnownByCode(raw, name, hint) ==
    /\ raw \in Codes /\ raw = name /\ hint \notin DOMAIN CountryAliases
    /\ \A t \in ToSet(TextAliases) : hint \notin t.words

(* Naming a country once more changes nothing.                             *)
LEMMA CountryNamedTwice ==
    ASSUME CountriesTell, NEW item \in AnyItem, Labelled(RawValue(item), item.label),
           NamedCountry(item).value \in DOMAIN CountryLabels =>
               CountryLabels[NamedCountry(item).value] \in DOMAIN CountryAliases
                   \/ KnownByWord(item)
    PROVE  /\ NamedCountry(NamedCountry(item)) = NamedCountry(item)
           /\ CountryKey(NamedCountry(item).value) = NamedCountry(item).value
<1> DEFINE raw == RawValue(item)
           name == CountryName(raw, item.label, item.hint)
           u == NamedCountry(item)
           again == CountryName(raw, u.label, item.hint)
           D == DOMAIN CountryAliases
<1>1. /\ raw \in Words /\ name \in Words /\ u \in Item
      /\ u = [value |-> name, hint |-> item.hint, native |-> raw,
              label |-> IF name \in DOMAIN CountryLabels THEN CountryLabels[name]
                        ELSE name]
      /\ RawValue(u) = raw
  BY NamedCountryIs
<1>a. item.label \in Perhaps /\ item.hint \in Perhaps /\ u.label \in Words /\ u.label \in Perhaps
  BY <1>1 DEF AnyItem, Item, Perhaps
<1>l. /\ u.label = IF name \in DOMAIN CountryLabels THEN CountryLabels[name] ELSE name
      /\ u.hint = item.hint /\ u.value = name
  BY <1>1
<1>2. NamedCountry(u) = [value |-> again, hint |-> u.hint, native |-> raw,
              label |-> IF again \in DOMAIN CountryLabels THEN CountryLabels[again]
                        ELSE again]
  <2>1. u \in AnyItem
    BY <1>1, ItemsAre
  <2>2. NamedCountry(u) = [value |-> CountryName(RawValue(u), u.label, u.hint),
              hint |-> u.hint, native |-> RawValue(u),
              label |-> IF CountryName(RawValue(u), u.label, u.hint) \in DOMAIN CountryLabels
                        THEN CountryLabels[CountryName(RawValue(u), u.label, u.hint)]
                        ELSE CountryName(RawValue(u), u.label, u.hint)]
    <3> HIDE DEF u, raw, name
    <3> QED BY <2>1, NamedCountryIs
  <2> HIDE DEF u, raw, name
  <2> QED BY <2>2, <1>1, <1>l
<1>c. name \in DOMAIN CountryLabels =>
          CountryLabels[name] \in D \/ raw \in D \ Numeric \/ KnownByCode(raw, name, item.hint)
  BY <1>l DEF KnownByWord, KnownByCode
<1> HIDE DEF raw
<1>s. Settled(name, raw, item.label, item.hint)
  BY <1>1, <1>a, NameSettles DEF raw
<1> HIDE DEF name
<1>k. CountryKey(name) = name
  BY <1>1, <1>a, <1>s, KeyOfName
<1> HIDE DEF u
<1>n. /\ Sourced(again, raw, u.label, item.hint)
      /\ Sourced(name, raw, item.label, item.hint)
  BY <1>1, <1>a, CountryNameIs DEF name
<1>r. /\ \A k \in 1..Len(TextAliases) :
            name \in TextAliases[k].words => TextAliases[k].name = name
      /\ name \notin DOMAIN CountryLabels =>
            /\ raw \notin D /\ item.label \notin D /\ item.hint \notin D /\ name \notin D
            /\ \/ \E k \in 1..Len(TextAliases) :
                     /\ FirstHit(TextAliases, {item.label, item.hint}, k)
                     /\ name = TextAliases[k].name /\ name \in TextAliases[k].words
               \/ /\ NoHit(TextAliases, {item.label, item.hint})
                  /\ NoHit(TextAliases, {name})
                  /\ name = CountryFallback(raw, item.label, item.hint)
  BY <1>s DEF Settled
<1>t. Absent \notin D
  BY TablesAssumption
<1> HIDE DEF again
<1>3. again = name
  <2>1. CASE name \in DOMAIN CountryLabels
    <3>1. u.label \in D => CountryAliases[u.label] = name
      BY <2>1, <1>l DEF CountriesTell
    <3>2. u.label \in D \/ raw \in D \ Numeric \/ KnownByCode(raw, name, item.hint)
      BY <2>1, <1>c, <1>l
    <3>3. raw \in D \ Numeric => /\ Heard(raw, u.label, item.hint) = raw
                                 /\ Heard(raw, item.label, item.hint) = raw
      BY DEF Heard
    <3>4. u.label \in D /\ raw \notin D \ Numeric => Heard(raw, u.label, item.hint) = u.label
      BY DEF Heard
    <3>5. CASE KnownByCode(raw, name, item.hint) /\ u.label \notin D
      <4>1. /\ raw = name /\ raw \in Codes /\ item.hint \notin D
            /\ raw \in D => CountryAliases[raw] = name
        BY <2>1, <3>5 DEF KnownByCode, CountriesTell
      <4>2. Heard(raw, u.label, item.hint) = IF raw \in D THEN raw ELSE Absent
        BY <3>5, <4>1 DEF Heard
      <4>3. NoHit(TextAliases, {u.label, item.hint})
        <5> SUFFICES ASSUME NEW k \in 1..Len(TextAliases)
                     PROVE  {u.label, item.hint} \cap TextAliases[k].words = {}
          BY DEF NoHit
        <5>1. TextAliases[k] \in ToSet(TextAliases)
          BY CountryTexts
        <5>2. u.label \notin TextAliases[k].words
          BY <2>1, <3>5, <5>1, <1>l DEF CountriesTell
        <5> QED BY <3>5, <5>1, <5>2 DEF KnownByCode
      <4>4. CountryFallback(raw, u.label, item.hint) = raw
        BY <4>1, <1>1, <1>a, FallbackIs
      <4> QED BY <1>n, <1>t, <4>1, <4>2, <4>3, <4>4 DEF Sourced, FirstHit, NoHit
    <3> QED BY <1>n, <3>1, <3>2, <3>3, <3>4, <3>5 DEF Sourced
  <2>2. CASE name \notin DOMAIN CountryLabels
    <3>1. u.label = name /\ raw \notin D /\ name \notin D /\ item.hint \notin D
      BY <2>2, <1>l, <1>r
    <3>2. Heard(raw, u.label, item.hint) = Absent
      BY <3>1 DEF Heard
    <3>3. \/ \E k \in 1..Len(TextAliases) : /\ FirstHit(TextAliases, {name, item.hint}, k)
                                            /\ again = TextAliases[k].name
          \/ /\ NoHit(TextAliases, {name, item.hint})
             /\ again = CountryFallback(raw, name, item.hint)
      BY <1>n, <1>t, <3>1, <3>2 DEF Sourced
    <3>4. CASE \E k \in 1..Len(TextAliases) :
                  /\ FirstHit(TextAliases, {item.label, item.hint}, k)
                  /\ name = TextAliases[k].name /\ name \in TextAliases[k].words
      <4>1. PICK k \in 1..Len(TextAliases) :
                  /\ FirstHit(TextAliases, {item.label, item.hint}, k)
                  /\ name = TextAliases[k].name /\ name \in TextAliases[k].words
        BY <3>4
      <4>2. ~NoHit(TextAliases, {name, item.hint})
        BY <4>1 DEF NoHit
      <4>3. PICK m \in 1..Len(TextAliases) : /\ FirstHit(TextAliases, {name, item.hint}, m)
                                             /\ again = TextAliases[m].name
        BY <3>3, <4>2
      <4>4. TextAliases[k].words \cap {name, item.hint} # {}
        BY <4>1
      <4>5. m = k \/ (m < k /\ TextAliases[m].words \cap {item.label, item.hint} = {})
        <5>1. TextAliases \in Table
          BY TablesAssumption DEF Table
        <5> QED BY <4>1, <4>3, <4>4, <5>1, HitBefore
      <4>6. TextAliases[m].words \cap {item.label, item.hint} = {} =>
                name \in TextAliases[m].words
        BY <4>3 DEF FirstHit
      <4> QED BY <4>1, <4>3, <4>5, <4>6, <1>r
    <3>5. CASE /\ NoHit(TextAliases, {item.label, item.hint})
               /\ NoHit(TextAliases, {name})
               /\ name = CountryFallback(raw, item.label, item.hint)
      <4>1. NoHit(TextAliases, {name, item.hint})
        BY <3>5 DEF NoHit
      <4>2. CountryFallback(raw, name, item.hint) = name
        BY <3>5, <1>1, <1>a, FallbackSettles
      <4> QED BY <3>3, <4>1, <4>2 DEF NoHit, FirstHit
    <3> QED BY <2>2, <1>r, <3>4, <3>5
  <2> QED BY <2>1, <2>2
<1>4. NamedCountry(u) = u
  BY <1>1, <1>2, <1>3, <1>l
<1> QED BY <1>4, <1>l, <1>k DEF u

-----------------------------------------------------------------------------
(* Naming an operator, twice.                                              *)
LEMMA NamedOperatorIs ==
    ASSUME NEW item \in AnyItem
    PROVE  LET raw == RawValue(item)
               name == OperatorName(raw, item.label)
           IN  /\ raw \in Words /\ name \in Words
               /\ NamedOperator(item) \in Item
               /\ NamedOperator(item) =
                     [value |-> name, hint |-> item.hint, native |-> raw,
                      label |-> IF name = AnyName THEN AnyLabel
                                ELSE IF item.label # Absent THEN item.label ELSE name]
               /\ RawValue(NamedOperator(item)) = raw
<1> DEFINE raw == RawValue(item)
           name == OperatorName(raw, item.label)
           label == IF name = AnyName THEN AnyLabel
                    ELSE IF item.label # Absent THEN item.label ELSE name
           u == [value |-> name, hint |-> item.hint, native |-> raw, label |-> label]
<1>1. raw \in Words /\ item.label \in Perhaps /\ item.hint \in Perhaps
  BY DEF RawValue, AnyItem, Perhaps
<1>2. name \in Words
  BY <1>1, TablesAssumption DEF OperatorName
<1>3. label \in Words
  BY <1>1, <1>2, TablesAssumption DEF Perhaps
<1>4. NamedOperator(item) = u
  <2>1. NamedOperator(item) =
            [item EXCEPT !.value = name, !.native = raw, !.label = label]
    BY DEF NamedOperator
  <2> HIDE DEF name, raw, label
  <2> QED BY <2>1, ItemWith
<1> HIDE DEF raw, name, label
<1>5. u \in Item
  BY <1>1, <1>2, <1>3 DEF Item
<1>6. RawValue(u) = raw
  BY <1>1, TablesAssumption DEF RawValue
<1> QED BY <1>1, <1>2, <1>4, <1>5, <1>6 DEF raw, name, label

LEMMA OperatorNamedTwice ==
    ASSUME NEW item \in AnyItem
    PROVE  NamedOperator(NamedOperator(item)) = NamedOperator(item)
<1> DEFINE raw == RawValue(item)
           name == OperatorName(raw, item.label)
           u == NamedOperator(item)
           again == OperatorName(raw, u.label)
<1>1. /\ raw \in Words /\ name \in Words /\ u \in Item
      /\ u = [value |-> name, hint |-> item.hint, native |-> raw,
              label |-> IF name = AnyName THEN AnyLabel
                        ELSE IF item.label # Absent THEN item.label ELSE name]
      /\ RawValue(u) = raw
  BY NamedOperatorIs
<1>2. NamedOperator(u) = [value |-> again, hint |-> u.hint, native |-> raw,
              label |-> IF again = AnyName THEN AnyLabel
                        ELSE IF u.label # Absent THEN u.label ELSE again]
  <2>1. u \in AnyItem
    BY <1>1, ItemsAre
  <2> HIDE DEF u, raw, name
  <2> QED BY <2>1, <1>1, NamedOperatorIs
<1>3. /\ u.value = name /\ u.hint = item.hint /\ u.native = raw /\ u.label \in Words
      /\ u.label = IF name = AnyName THEN AnyLabel
                   ELSE IF item.label # Absent THEN item.label ELSE name
  BY <1>1 DEF Item
<1> HIDE DEF u
<1>4. again = name
  BY <1>3, TablesAssumption DEF OperatorName
<1>5. u.label # Absent
  BY <1>3, TablesAssumption
<1> HIDE DEF raw, name, again
<1>6. NamedOperator(u) = [value |-> name, hint |-> item.hint, native |-> raw, label |-> u.label]
  BY <1>2, <1>3, <1>4, <1>5
<1>7. u = [value |-> name, hint |-> item.hint, native |-> raw, label |-> u.label]
  BY <1>1, <1>3
<1> QED BY <1>6, <1>7 DEF u

(* A name of a country has itself for a key.                               *)
LEMMA KeyOfKey ==
    ASSUME CountriesTell, NEW c \in Words
    PROVE  CountryKey(c) \in Words /\ CountryKey(CountryKey(c)) = CountryKey(c)
<1>1. c \in Perhaps /\ Absent \in Perhaps
  BY DEF Perhaps
<1>2. Labelled(c, c)
  BY DEF Labelled
<1>3. Settled(CountryName(c, c, Absent), c, c, Absent) /\ CountryName(c, c, Absent) \in Words
  BY <1>1, <1>2, NameSettles, CountryNameIs
<1> DEFINE name == CountryName(c, c, Absent)
<1>4. CountryKey(c) = name
  BY DEF CountryKey
<1> HIDE DEF name
<1>5. CountryKey(name) = name
  BY <1>1, <1>3, KeyOfName DEF name
<1> QED BY <1>3, <1>4, <1>5 DEF name

LEMMA KeyIsWord == ASSUME NEW c \in Words PROVE CountryKey(c) \in Words
<1>1. c \in Perhaps /\ Absent \in Perhaps
  BY DEF Perhaps
<1> QED BY <1>1, CountryNameIs DEF CountryKey

(* And a name of a service.                                                *)
LEMMA ServiceKeyOfName ==
    ASSUME ServicesTell, NEW item \in AnyItem
    PROVE  ServiceKey(NamedService(item).value, NamedService(item).value)
               = NamedService(item).value
<1> DEFINE raw == RawValue(item)
           name == ServiceName(raw, item.label)
<1>1. /\ raw \in Words /\ name \in Words
      /\ NamedService(item).value = name
  BY NamedServiceIs
<1>2. item.label \in Perhaps /\ name \in Perhaps /\ name # Absent
  BY <1>1, TablesAssumption DEF AnyItem, Perhaps
<1> HIDE DEF raw, name
<1>p. Patterns \in Table
  BY TablesAssumption DEF Table
<1>t. \A j \in 1..Len(Patterns) : /\ Patterns[j] \in ToSet(Patterns)
                                  /\ Patterns[j].name \in PatternNames
  BY <1>p, TableEntries DEF PatternNames
<1>3. ASSUME name \in AliasNames \cup PatternNames PROVE ServiceKey(name, name) = name
  <2>1. \A j \in 1..Len(Patterns) : name \in Patterns[j].words => Patterns[j].name = name
    BY <1>3, <1>t DEF ServicesTell
  <2>2. ASSUME NEW k \in 1..Len(Patterns), FirstHit(Patterns, {name, name}, k)
        PROVE  Patterns[k].name = name
    BY <2>1, <2>2 DEF FirstHit
  <2>3. \/ \E k \in 1..Len(Patterns) : /\ FirstHit(Patterns, {name, name}, k)
                                       /\ ServiceKey(name, name) = Patterns[k].name
        \/ ServiceKey(name, name) = name
    BY <1>1, <1>2, ServiceKeyIs
  <2> QED BY <2>2, <2>3
<1>4. ASSUME NoHit(Patterns, {name}) PROVE ServiceKey(name, name) = name
  BY <1>4, <1>1, <1>2, ServiceKeyIs DEF FirstHit, NoHit
<1>5. CASE \E k \in 1..Len(Aliases) : Aliases[k].native = raw
  <2>1. PICK k \in 1..Len(Aliases) : FirstNative(raw, k) /\ name = Aliases[k].name
    BY <1>5, <1>1, <1>2, ServiceNameIs DEF name
  <2>2. Aliases[k] \in ToSet(Aliases) /\ Aliases[k].native = raw
    BY <2>1, AliasEntries DEF FirstNative
  <2> DEFINE first == FirstIn(Aliases, {b \in ToSet(Aliases) : b.native = raw}, Aliases[k])
  <2>3. first.name \in AliasNames
    BY <2>2 DEF AliasNames
  <2>n. \/ \E m \in 1..Len(Aliases) : FirstNative(raw, m) /\ first = Aliases[m]
        \/ \A m \in 1..Len(Aliases) : Aliases[m].native # raw
    BY FirstNativeIs
  <2> HIDE DEF first
  <2>4. PICK m \in 1..Len(Aliases) : FirstNative(raw, m) /\ first = Aliases[m]
    BY <2>2, <2>n
  <2>5. k \in Nat /\ m \in Nat
    BY AliasEntries
  <2>6. ~(k < m) /\ ~(m < k)
    <3>1. k < m => k \in 1..(m - 1)
      BY <2>5
    <3>2. m < k => m \in 1..(k - 1)
      BY <2>5
    <3> QED BY <3>1, <3>2, <2>1, <2>4 DEF FirstNative
  <2>7. k = m
    BY <2>5, <2>6
  <2> QED BY <1>1, <1>3, <2>1, <2>3, <2>4, <2>7
<1>6. CASE \A k \in 1..Len(Aliases) : Aliases[k].native # raw
  <2>1. name = ServiceKey(raw, item.label)
    BY <1>6, <1>1, <1>2, ServiceNameIs DEF name, FirstNative
  <2>2. CASE \E k \in 1..Len(Patterns) : name = Patterns[k].name
    BY <2>2, <1>t, <1>3, <1>1
  <2>3. CASE /\ NoHit(Patterns, {raw, item.label})
             /\ name = IF item.label # Absent THEN item.label ELSE raw
    <3>1. NoHit(Patterns, {name})
      BY <2>3 DEF NoHit
    <3> QED BY <3>1, <1>4, <1>1
  <2> QED BY <2>1, <2>2, <2>3, <1>1, <1>2, ServiceKeyIs
<1> QED BY <1>5, <1>6

-----------------------------------------------------------------------------
(* Naming the items of a list: a list of named items in the order of their *)
(* names.                                                                  *)
LEMMA ServicesAreNamed ==
    ASSUME NEW G \in SUBSET AnyItem, NEW items \in Seq(G)
    PROVE  /\ NamedServices(items) \in Seq({NamedService(g) : g \in G})
           /\ Sorted(NamedServices(items))
           /\ Values(NamedServices(items)) \subseteq {NamedService(g).value : g \in G}
<1> DEFINE N == {NamedService(g) : g \in G}
           named == [i \in DOMAIN items |-> NamedService(items[i])]
<1>1. \A g \in G : NamedService(g) \in Item
  BY NamedServiceIs
<1>2. \A x \in N : x.value \in Words
  BY <1>1 DEF Item
<1>3. named \in Seq(N) /\ Len(named) = Len(items) /\ DOMAIN items = 1..Len(items)
  <2>1. /\ DOMAIN items = 1..Len(items)
        /\ Len(items) \in Nat
        /\ \A i \in 1..Len(items) : items[i] \in G
    OBVIOUS
  <2> QED BY <2>1
<1>4. NamedServices(items) = Deduped(named)
  BY DEF NamedServices
<1> HIDE DEF named, N
<1>5. /\ Deduped(named) \in Seq(N)
      /\ Sorted(Deduped(named))
      /\ DOMAIN Deduped(named) = 1..Len(Deduped(named))
  BY <1>2, <1>3, DedupedLists
<1>6. \A i \in 1..Len(Deduped(named)) : Deduped(named)[i] \in N
  BY <1>5
<1>7. Values(Deduped(named)) \subseteq {NamedService(g).value : g \in G}
  BY <1>5, <1>6 DEF Values, N
<1> QED BY <1>4, <1>5, <1>7 DEF N

LEMMA CountriesAreNamed ==
    ASSUME NEW G \in SUBSET AnyItem, NEW items \in Seq(G)
    PROVE  /\ NamedCountries(items) \in Seq({NamedCountry(g) : g \in G})
           /\ Sorted(NamedCountries(items))
           /\ Values(NamedCountries(items)) \subseteq {NamedCountry(g).value : g \in G}
<1> DEFINE N == {NamedCountry(g) : g \in G}
           named == [i \in DOMAIN items |-> NamedCountry(items[i])]
<1>1. \A g \in G : NamedCountry(g) \in Item
  BY NamedCountryIs
<1>2. \A x \in N : x.value \in Words
  BY <1>1 DEF Item
<1>3. named \in Seq(N) /\ Len(named) = Len(items) /\ DOMAIN items = 1..Len(items)
  <2>1. /\ DOMAIN items = 1..Len(items)
        /\ Len(items) \in Nat
        /\ \A i \in 1..Len(items) : items[i] \in G
    OBVIOUS
  <2> QED BY <2>1
<1>4. NamedCountries(items) = Deduped(named)
  BY DEF NamedCountries
<1> HIDE DEF named, N
<1>5. /\ Deduped(named) \in Seq(N)
      /\ Sorted(Deduped(named))
      /\ DOMAIN Deduped(named) = 1..Len(Deduped(named))
  BY <1>2, <1>3, DedupedLists
<1>6. \A i \in 1..Len(Deduped(named)) : Deduped(named)[i] \in N
  BY <1>5
<1>7. Values(Deduped(named)) \subseteq {NamedCountry(g).value : g \in G}
  BY <1>5, <1>6 DEF Values, N
<1> QED BY <1>4, <1>5, <1>7 DEF N

(* Operators that were named.                                              *)
Operator == {NamedOperator(item) : item \in AnyItem}

LEMMA OperatorsAre ==
    /\ Operator \subseteq Item
    /\ \A x \in Operator : NamedOperator(x) = x
  BY NamedOperatorIs, OperatorNamedTwice DEF Operator

LEMMA OperatorsAreNamed ==
    ASSUME NEW items \in Seq(AnyItem)
    PROVE  /\ NamedOperators(items) \in Seq(Operator)
           /\ Sorted(NamedOperators(items))
<1> DEFINE named == [i \in DOMAIN items |-> NamedOperator(items[i])]
<1>1. \A x \in Operator : x.value \in Words
  BY OperatorsAre DEF Item
<1>2. named \in Seq(Operator)
  <2>1. /\ DOMAIN items = 1..Len(items)
        /\ Len(items) \in Nat
        /\ \A i \in 1..Len(items) : items[i] \in AnyItem
    OBVIOUS
  <2>2. \A i \in 1..Len(items) : NamedOperator(items[i]) \in Operator
    BY <2>1 DEF Operator
  <2> QED BY <2>1, <2>2
<1>3. NamedOperators(items) = Deduped(named)
  BY DEF NamedOperators
<1> HIDE DEF named
<1> QED BY <1>1, <1>2, <1>3, DedupedLists

(* Lists that were named stay as they are.                                 *)
LEMMA NamedListsStay ==
    ASSUME NEW I \in SUBSET Item, NEW items \in Seq(I), Sorted(items)
    PROVE  /\ (\A x \in I : NamedService(x) = x) => NamedServices(items) = items
           /\ (\A x \in I : NamedCountry(x) = x) => NamedCountries(items) = items
           /\ (\A x \in I : NamedOperator(x) = x) => NamedOperators(items) = items
<1>1. /\ DOMAIN items = 1..Len(items) /\ \A i \in 1..Len(items) : items[i] \in I
      /\ items = [i \in DOMAIN items |-> items[i]]
  OBVIOUS
<1>2. Deduped(items) = items
  <2>1. \A x \in I : x.value \in Words
    BY DEF Item
  <2> QED BY <2>1, SortedStays
<1>3. ASSUME \A x \in I : NamedService(x) = x PROVE NamedServices(items) = items
  <2>1. [i \in DOMAIN items |-> NamedService(items[i])] = items
    BY <1>1, <1>3
  <2> QED BY <1>2, <2>1 DEF NamedServices
<1>4. ASSUME \A x \in I : NamedCountry(x) = x PROVE NamedCountries(items) = items
  <2>1. [i \in DOMAIN items |-> NamedCountry(items[i])] = items
    BY <1>1, <1>4
  <2> QED BY <1>2, <2>1 DEF NamedCountries
<1>5. ASSUME \A x \in I : NamedOperator(x) = x PROVE NamedOperators(items) = items
  <2>1. [i \in DOMAIN items |-> NamedOperator(items[i])] = items
    BY <1>1, <1>5
  <2> QED BY <1>2, <2>1 DEF NamedOperators
<1> QED BY <1>3, <1>4, <1>5

(* The operators of a country, of which naming them again makes no others. *)
AnyEntry == [raw : Seq(AnyItem), items : Seq(AnyItem), fresh : BOOLEAN]
Entry == {e \in [raw : Seq(AnyItem), items : Seq(Operator), fresh : BOOLEAN] : NamedEntry(e) = e}

LEMMA EntriesAreNamed ==
    ASSUME NEW e \in AnyEntry
    PROVE  NamedEntry(e) \in Entry
<1> DEFINE given == IF e.raw = <<>> THEN e.items ELSE e.raw
           items == NamedOperators(given)
           n == [raw |-> e.raw, items |-> items, fresh |-> e.fresh]
<1>1. e.raw \in Seq(AnyItem) /\ e.items \in Seq(AnyItem) /\ e.fresh \in BOOLEAN
  BY DEF AnyEntry
<1>2. items \in Seq(Operator) /\ Sorted(items)
  <2>1. given \in Seq(AnyItem)
    BY <1>1
  <2> HIDE DEF given
  <2> QED BY <2>1, OperatorsAreNamed
<1>3. NamedEntry(e) = n
  BY DEF NamedEntry
<1>4. NamedEntry(n) = [raw |-> e.raw, fresh |-> e.fresh,
                       items |-> NamedOperators(IF e.raw = <<>> THEN items ELSE e.raw)]
  BY DEF NamedEntry
<1>5. NamedOperators(IF e.raw = <<>> THEN items ELSE e.raw) = items
  <2>1. CASE e.raw = <<>>
    <3> HIDE DEF items
    <3>1. NamedOperators(items) = items
      BY <1>2, OperatorsAre, NamedListsStay
    <3> QED BY <2>1, <3>1
  <2>2. CASE e.raw # <<>>
    BY <2>2
  <2> QED BY <2>1, <2>2
<1> HIDE DEF items
<1>6. n \in [raw : Seq(AnyItem), items : Seq(Operator), fresh : BOOLEAN] /\ NamedEntry(n) = n
  BY <1>1, <1>2, <1>4, <1>5
<1> QED BY <1>3, <1>6 DEF Entry

-----------------------------------------------------------------------------
(* Options of services in S, countries in C and keys in K; each list is in *)
(* the order of its names, and naming the operators makes no others.       *)
ByCountry(b, K) ==
    /\ b = [key \in DOMAIN b |-> b[key]]
    /\ DOMAIN b \subseteq K
    /\ \A key \in DOMAIN b : b[key] \in Entry

NamedOptions(o, S, C, K) ==
    /\ o = [rawServices |-> o.rawServices, services |-> o.services, countries |-> o.countries,
            operators |-> o.operators, byCountry |-> o.byCountry]
    /\ o.rawServices \subseteq Words
    /\ o.services \in Seq(S) /\ Sorted(o.services)
    /\ o.countries \in Seq(C) /\ Sorted(o.countries)
    /\ o.operators \in Seq(Operator) /\ Sorted(o.operators)
    /\ ByCountry(o.byCountry, K)

(* Whatever is listed, or named once more, is in these sets.               *)
Closed(S, C, K) ==
    /\ S \subseteq Item /\ C \subseteq Item /\ K \subseteq Words
    /\ \A g \in GivenServices \cup S : NamedService(g) \in S
    /\ \A g \in GivenCountries \cup C : NamedCountry(g) \in C
    /\ \A w \in Words : CountryKey(w) \in K

LEMMA EmptyListSorted == Sorted(<<>>)
  BY DEF Sorted

LEMMA NoOptionsAreNamed ==
    ASSUME NEW S, NEW C, NEW K PROVE NamedOptions(NoOptions, S, C, K)
<1>1. ByCountry(<<>>, K)
  BY DEF ByCountry
<1>2. <<>> \in Seq(S) /\ <<>> \in Seq(C) /\ <<>> \in Seq(Operator)
  OBVIOUS
<1> QED BY <1>1, <1>2, EmptyListSorted DEF NoOptions, NamedOptions

LEMMA NormalizedAreNamed ==
    ASSUME NEW S, NEW C, NEW K, Closed(S, C, K),
           NEW G \in SUBSET AnyItem, \A g \in G : NamedService(g) \in S,
           NEW H \in SUBSET AnyItem, \A h \in H : NamedCountry(h) \in C,
           NEW services \in Seq(G), NEW countries \in Seq(H), NEW operators \in Seq(AnyItem),
           NEW byCountry, DOMAIN byCountry \subseteq Words,
           \A c \in DOMAIN byCountry : byCountry[c] \in AnyEntry
    PROVE  /\ NamedOptions(Normalized(services, countries, operators, byCountry), S, C, K)
           /\ Normalized(services, countries, operators, byCountry).rawServices
                = Values(services)
<1> DEFINE rs == Values(services)
           s == NamedServices(services)
           c == NamedCountries(countries)
           p == NamedOperators(operators)
           of(key) == CHOOSE d \in DOMAIN byCountry : CountryKey(d) = key
           b == [key \in {CountryKey(d) : d \in DOMAIN byCountry} |->
                    NamedEntry(byCountry[of(key)])]
           o == [rawServices |-> rs, services |-> s, countries |-> c, operators |-> p,
                 byCountry |-> b]
<1>1. Normalized(services, countries, operators, byCountry) = o
  BY DEF Normalized
<1>2. rs \subseteq Words
  <2>1. \A i \in DOMAIN services : services[i] \in AnyItem
    OBVIOUS
  <2> QED BY <2>1 DEF Values, AnyItem
<1>3. s \in Seq(S) /\ Sorted(s)
  <2>1. s \in Seq({NamedService(g) : g \in G}) /\ Sorted(s)
    BY ServicesAreNamed
  <2>2. {NamedService(g) : g \in G} \subseteq S
    OBVIOUS
  <2> HIDE DEF s
  <2> DEFINE N == {NamedService(g) : g \in G}
  <2>3. s \in Seq(N) /\ N \subseteq S
    BY <2>1, <2>2
  <2> HIDE DEF N
  <2> QED BY <2>1, <2>3
<1>4. c \in Seq(C) /\ Sorted(c)
  <2>1. c \in Seq({NamedCountry(g) : g \in H}) /\ Sorted(c)
    BY CountriesAreNamed
  <2>2. {NamedCountry(g) : g \in H} \subseteq C
    OBVIOUS
  <2> HIDE DEF c
  <2> DEFINE N == {NamedCountry(g) : g \in H}
  <2>3. c \in Seq(N) /\ N \subseteq C
    BY <2>1, <2>2
  <2> HIDE DEF N
  <2> QED BY <2>1, <2>3
<1>5. p \in Seq(Operator) /\ Sorted(p)
  BY OperatorsAreNamed
<1>6. ByCountry(b, K)
  <2>1. DOMAIN b = {CountryKey(d) : d \in DOMAIN byCountry} /\ b = [key \in DOMAIN b |-> b[key]]
    OBVIOUS
  <2>2. DOMAIN b \subseteq K
    BY <2>1 DEF Closed
  <2>3. ASSUME NEW key \in DOMAIN b PROVE b[key] \in Entry
    <3>1. of(key) \in DOMAIN byCountry
      BY <2>1
    <3>2. b[key] = NamedEntry(byCountry[of(key)])
      BY <2>1
    <3> HIDE DEF of, b
    <3> QED BY <3>1, <3>2, EntriesAreNamed
  <2> HIDE DEF b
  <2> QED BY <2>1, <2>2, <2>3 DEF ByCountry
<1> HIDE DEF rs, s, c, p, b
<1>7. /\ o.rawServices = rs /\ o.services = s /\ o.countries = c /\ o.operators = p
      /\ o.byCountry = b
  OBVIOUS
<1>8. NamedOptions(o, S, C, K)
  <2>1. o = [rawServices |-> o.rawServices, services |-> o.services, countries |-> o.countries,
             operators |-> o.operators, byCountry |-> o.byCountry]
    BY <1>7
  <2> HIDE DEF o
  <2> QED BY <2>1, <1>2, <1>3, <1>4, <1>5, <1>6, <1>7 DEF NamedOptions
<1> QED BY <1>1, <1>7, <1>8 DEF rs

(* Read from the file, they are named once more.                           *)
LEMMA LoadedAreNamed ==
    ASSUME NEW S, NEW C, NEW K, Closed(S, C, K), NEW o, NamedOptions(o, S, C, K)
    PROVE  NamedOptions(Loaded(o), S, C, K)
<1>1. /\ S \in SUBSET AnyItem /\ C \in SUBSET AnyItem
      /\ \A g \in S : NamedService(g) \in S
      /\ \A h \in C : NamedCountry(h) \in C
  BY ItemsAre DEF Closed
<1>2. o.services \in Seq(S) /\ o.countries \in Seq(C) /\ o.operators \in Seq(AnyItem)
  <2>1. o.operators \in Seq(Operator) /\ Operator \subseteq AnyItem
    BY OperatorsAre, ItemsAre DEF NamedOptions
  <2>2. o.operators \in Seq(AnyItem)
    BY <2>1
  <2> QED BY <2>2 DEF NamedOptions
<1>3. DOMAIN o.byCountry \subseteq Words
  BY DEF NamedOptions, ByCountry, Closed
<1>4. ASSUME NEW c \in DOMAIN o.byCountry PROVE o.byCountry[c] \in AnyEntry
  <2>1. o.byCountry[c] \in Entry
    BY DEF NamedOptions, ByCountry
  <2>2. Entry \subseteq AnyEntry
    <3> SUFFICES ASSUME NEW e \in Entry PROVE e \in AnyEntry
      OBVIOUS
    <3>1. /\ e = [raw |-> e.raw, items |-> e.items, fresh |-> e.fresh]
          /\ e.raw \in Seq(AnyItem) /\ e.items \in Seq(Operator) /\ e.fresh \in BOOLEAN
      BY DEF Entry
    <3>2. e.items \in Seq(AnyItem)
      <4>1. Operator \subseteq AnyItem
        BY OperatorsAre, ItemsAre
      <4> QED BY <3>1, <4>1
    <3> QED BY <3>1, <3>2 DEF AnyEntry
  <2> QED BY <2>1, <2>2
<1>5. Loaded(o) = Normalized(o.services, o.countries, o.operators, o.byCountry)
  BY DEF Loaded
<1> HIDE DEF Normalized
<1> QED BY <1>1, <1>2, <1>3, <1>4, <1>5, NormalizedAreNamed

(* And when all that is in them is named for good, they show the same.     *)
LEMMA LoadedShowsTheSame ==
    ASSUME NEW S \in SUBSET Item, \A x \in S : NamedService(x) = x,
           NEW C \in SUBSET Item, \A x \in C : NamedCountry(x) = x,
           NEW K, \A k \in K : CountryKey(k) = k,
           NEW o, NamedOptions(o, S, C, K)
    PROVE  Shown(Loaded(o)) = Shown(o)
<1> DEFINE of(key) == CHOOSE d \in DOMAIN o.byCountry : CountryKey(d) = key
           b == [key \in {CountryKey(d) : d \in DOMAIN o.byCountry} |->
                    NamedEntry(o.byCountry[of(key)])]
           l == [rawServices |-> Values(o.services), services |-> o.services,
                 countries |-> o.countries, operators |-> o.operators, byCountry |-> b]
<1>1. /\ NamedServices(o.services) = o.services
      /\ NamedCountries(o.countries) = o.countries
  BY NamedListsStay DEF NamedOptions
<1>2. NamedOperators(o.operators) = o.operators
  BY NamedListsStay, OperatorsAre DEF NamedOptions
<1>3. Loaded(o) = l
  BY <1>1, <1>2 DEF Loaded, Normalized
<1>4. \A d \in DOMAIN o.byCountry : CountryKey(d) = d
  BY DEF NamedOptions, ByCountry
<1>5. DOMAIN b = DOMAIN o.byCountry
  BY <1>4
<1>6. ASSUME NEW key \in DOMAIN o.byCountry PROVE b[key] = o.byCountry[key]
  <2>1. of(key) = key
    BY <1>4
  <2>2. b[key] = NamedEntry(o.byCountry[of(key)])
    BY <1>5
  <2> HIDE DEF b, of
  <2>3. NamedEntry(o.byCountry[key]) = o.byCountry[key]
    BY DEF NamedOptions, ByCountry, Entry
  <2> QED BY <2>1, <2>2, <2>3
<1> HIDE DEF b
<1>7. [key \in DOMAIN b |-> b[key].items] =
      [key \in DOMAIN o.byCountry |-> o.byCountry[key].items]
  BY <1>5, <1>6
<1>8. /\ l.services = o.services /\ l.countries = o.countries /\ l.operators = o.operators
      /\ l.byCountry = b
  OBVIOUS
<1> HIDE DEF l
<1> QED BY <1>3, <1>7, <1>8 DEF Shown

-----------------------------------------------------------------------------
(* What the provider lists.                                                *)
Natives(S) == {x.native : x \in S}

LEMMA GivenKeepsItsWord ==
    ASSUME NEW g \in Given
    PROVE  g \in AnyItem /\ g.value \in Words /\ RawValue(g) = g.value
  BY ItemsAre, TablesAssumption DEF Given, RawValue

LEMMA FilledIs ==
    ASSUME NEW word \in Words, NEW items \in Seq(Given)
    PROVE  Filled(items, word) \in Seq(Given)
<1>1. [value |-> word, label |-> word, hint |-> word, native |-> word] \in Given
  BY DEF Given
<1> QED BY <1>1 DEF Filled, Default

LEMMA ListedAre ==
    ASSUME NEW list \in Catalogues
    PROVE  /\ Filled(list.services, DefaultService) \in Seq(GivenServices)
           /\ Filled(list.countries, DefaultCountry) \in Seq(GivenCountries)
           /\ \A country \in DOMAIN list.operators : list.operators[country] \in Seq(Given)
<1>1. /\ Filled(list.services, DefaultService) \in Seq(Given)
      /\ Filled(list.countries, DefaultCountry) \in Seq(Given)
  BY NamesAssumption, FilledIs
<1> DEFINE s == Filled(list.services, DefaultService)
           c == Filled(list.countries, DefaultCountry)
<1>2. ToSet(s) \subseteq GivenServices /\ ToSet(c) \subseteq GivenCountries
  BY DEF GivenServices, GivenCountries
<1> HIDE DEF s, c
<1>3. /\ \A i \in 1..Len(s) : s[i] \in ToSet(s)
      /\ \A i \in 1..Len(c) : c[i] \in ToSet(c)
  BY <1>1 DEF ToSet, s, c
<1>4. s \in Seq(GivenServices)
  BY <1>1, <1>2, <1>3 DEF s
<1>5. c \in Seq(GivenCountries)
  BY <1>1, <1>2, <1>3 DEF c
<1> QED BY <1>4, <1>5, NamesAssumption DEF s, c

LEMMA GivensAre == GivenServices \subseteq Given /\ GivenCountries \subseteq Given
<1>1. ASSUME NEW list \in Catalogues
      PROVE  /\ ToSet(Filled(list.services, DefaultService)) \subseteq Given
             /\ ToSet(Filled(list.countries, DefaultCountry)) \subseteq Given
  <2>1. /\ Filled(list.services, DefaultService) \in Seq(Given)
        /\ Filled(list.countries, DefaultCountry) \in Seq(Given)
    BY NamesAssumption, FilledIs
  <2> QED BY <2>1 DEF ToSet
<1> QED BY <1>1 DEF GivenServices, GivenCountries

LEMMA OperatorsOfAre ==
    ASSUME catalogue \in Catalogues, NEW country
    PROVE  OperatorsOf(country) \in Seq(Given) /\ OperatorsOf(country) \in Seq(AnyItem)
<1>1. OperatorsOf(country) \in Seq(Given)
  BY ListedAre DEF OperatorsOf
<1>2. Given \subseteq AnyItem
  BY ItemsAre
<1> QED BY <1>1, <1>2

(* What is offered is offered by a word of what is named, or by the alias  *)
(* of the default of a provider that has no list.                          *)
Offers(S, w) == \E v \in S : w = v.native \/ w = WordOf(v)

LEMMA OfferedAre ==
    ASSUME catalogue \in Catalogues, NEW S, NEW C, NEW K, Closed(S, C, K)
    PROVE  /\ \A w \in OfferedServices : Offers(S, w) /\ w \in Words
           /\ OfferedCountries \subseteq Natives(C) /\ OfferedCountries \subseteq Words
<1>1. /\ Filled(catalogue.services, DefaultService) \in Seq(Given)
      /\ Filled(catalogue.countries, DefaultCountry) \in Seq(Given)
  BY NamesAssumption, FilledIs
<1>2. ASSUME NEW i \in DOMAIN Filled(catalogue.services, DefaultService)
      PROVE  LET g == Filled(catalogue.services, DefaultService)[i]
             IN  /\ NamedService(g) \in S /\ NamedService(g).native = RawValue(g)
                 /\ RawValue(g) \in Words
  <2> DEFINE list == Filled(catalogue.services, DefaultService)
             g == list[i]
  <2>1. g \in ToSet(list) /\ g \in Given
    BY <1>1, <1>2 DEF ToSet
  <2>2. g \in GivenServices
    BY <2>1 DEF GivenServices
  <2> HIDE DEF g
  <2>3. /\ NamedService(g) \in S /\ NamedService(g).native = RawValue(g)
        /\ RawValue(g) \in Words
    BY <2>1, <2>2, GivenKeepsItsWord, NamedServiceIs DEF Closed
  <2> QED BY <2>3 DEF g
<1>3. ASSUME NEW i \in DOMAIN Filled(catalogue.countries, DefaultCountry)
      PROVE  /\ RawValue(Filled(catalogue.countries, DefaultCountry)[i]) \in Natives(C)
             /\ RawValue(Filled(catalogue.countries, DefaultCountry)[i]) \in Words
  <2> DEFINE list == Filled(catalogue.countries, DefaultCountry)
             g == list[i]
  <2>1. g \in ToSet(list) /\ g \in Given
    BY <1>1, <1>3 DEF ToSet
  <2>2. g \in GivenCountries
    BY <2>1 DEF GivenCountries
  <2> HIDE DEF g
  <2>3. /\ NamedCountry(g) \in C /\ NamedCountry(g).native = RawValue(g)
        /\ RawValue(g) \in Words
    BY <2>1, <2>2, GivenKeepsItsWord, NamedCountryIs DEF Closed
  <2> QED BY <2>3 DEF Natives, g
<1>4. CASE catalogue.services # <<>>
  <2>1. Filled(catalogue.services, DefaultService) = catalogue.services
    BY <1>4 DEF Filled
  <2>2. OfferedServices = Listing(catalogue.services)
    BY <1>4 DEF OfferedServices
  <2> QED BY <1>2, <1>3, <2>1, <2>2 DEF Offers, Listing, OfferedCountries
<1>5. CASE catalogue.services = <<>>
  <2>1. /\ Filled(catalogue.services, DefaultService) = Default(DefaultService)
        /\ OfferedServices = {Alias(DefaultService)}
    BY <1>5 DEF Filled, OfferedServices
  <2>2. /\ 1 \in DOMAIN Default(DefaultService)
        /\ RawValue(Default(DefaultService)[1]) = DefaultService
    BY NamesAssumption, TablesAssumption DEF Default, RawValue
  <2>3. \E v \in S : v.native = DefaultService
    BY <1>2, <2>1, <2>2
  <2>4. Offers(S, Alias(DefaultService)) /\ Alias(DefaultService) \in Words
    BY <2>3, NamesAssumption, AliasIsWord DEF Offers, WordOf
  <2> QED BY <1>3, <2>1, <2>4 DEF Listing, OfferedCountries
<1> QED BY <1>4, <1>5

LEMMA DiscoveredAreNamed ==
    ASSUME catalogue \in Catalogues, NEW S, NEW C, NEW K, Closed(S, C, K)
    PROVE  /\ NamedOptions(Discovered, S, C, K)
           /\ Discovered.rawServices \subseteq Natives(S)
<1> DEFINE seed == IF catalogue.countries = <<>> THEN DefaultCountry
                   ELSE RawValue(Head(catalogue.countries))
           operators == Filled(OperatorsOf(seed), DefaultOperator)
           s == Filled(catalogue.services, DefaultService)
           c == Filled(catalogue.countries, DefaultCountry)
           e == [raw |-> operators, items |-> <<>>, fresh |-> TRUE]
           b == [key \in {CountryKey(seed)} |-> e]
<1>1. s \in Seq(GivenServices) /\ c \in Seq(GivenCountries)
  BY ListedAre
<1>2. GivenServices \in SUBSET AnyItem /\ GivenCountries \in SUBSET AnyItem
  BY GivensAre, ItemsAre
<1>3. seed \in Words
  <2>1. catalogue.countries \in Seq(Given)
    BY NamesAssumption
  <2>2. CASE catalogue.countries # <<>>
    <3>1. Head(catalogue.countries) \in Given
      BY <2>1, <2>2
    <3> QED BY <2>2, <3>1, GivenKeepsItsWord
  <2> QED BY <2>2, NamesAssumption
<1>4. operators \in Seq(AnyItem)
  <2> HIDE DEF seed
  <2>1. OperatorsOf(seed) \in Seq(Given)
    BY OperatorsOfAre
  <2>2. operators \in Seq(Given)
    BY <2>1, FilledIs, NamesAssumption
  <2>3. Given \subseteq AnyItem
    BY ItemsAre
  <2> HIDE DEF operators
  <2> QED BY <2>2, <2>3
<1> HIDE DEF seed, operators
<1>5. e \in AnyEntry
  BY <1>4 DEF AnyEntry
<1>6. DOMAIN b = {CountryKey(seed)} /\ b[CountryKey(seed)] = e
  OBVIOUS
<1>7. CountryKey(seed) \in Words
  BY <1>3, KeyIsWord
<1> HIDE DEF e, b
<1>8. DOMAIN b \subseteq Words /\ \A k \in DOMAIN b : b[k] \in AnyEntry
  BY <1>5, <1>6, <1>7
<1>9. Discovered = Normalized(s, c, operators, b)
  BY DEF Discovered, seed, operators, b, e
<1> HIDE DEF s, c
<1>10. /\ \A g \in GivenServices : NamedService(g) \in S
       /\ \A h \in GivenCountries : NamedCountry(h) \in C
  BY DEF Closed
<1>11. /\ NamedOptions(Normalized(s, c, operators, b), S, C, K)
       /\ Normalized(s, c, operators, b).rawServices = Values(s)
  BY <1>1, <1>2, <1>4, <1>8, <1>10, NormalizedAreNamed
<1>12. Values(s) \subseteq Natives(S)
  <2>1. ASSUME NEW g \in GivenServices PROVE g.value \in Natives(S)
    <3>1. g \in AnyItem /\ RawValue(g) = g.value
      BY GivensAre, GivenKeepsItsWord
    <3>2. NamedService(g).native = g.value
      BY <3>1, NamedServiceIs
    <3> QED BY <3>2, <1>10 DEF Natives
  <2>2. \A i \in DOMAIN s : s[i] \in GivenServices
    BY <1>1
  <2> QED BY <2>1, <2>2 DEF Values
<1> QED BY <1>9, <1>11, <1>12

-----------------------------------------------------------------------------
(* From a provider's word to its name.                                     *)
LEMMA NameOfIs ==
    ASSUME NEW I, NEW items \in Seq(I), NEW native, NEW otherwise
    PROVE  \/ \E i \in 1..Len(items) : /\ items[i].native = native
                                       /\ NameOf(items, native, otherwise) = items[i].value
           \/ /\ \A i \in 1..Len(items) : items[i].native # native
              /\ NameOf(items, native, otherwise) = otherwise
<1> DEFINE S == {i \in ToSet(items) : i.native = native}
           first == FirstIn(items, S, Itself(otherwise))
<1>1. \A i \in 1..Len(items) : items[i] \in S <=> items[i].native = native
  BY DEF ToSet
<1>2. NameOf(items, native, otherwise) = first.value
  BY DEF NameOf
<1>3. Itself(otherwise).value = otherwise
  BY DEF Itself
<1> HIDE DEF S
<1>4. CASE \E i \in 1..Len(items) : items[i] \in S
  <2>1. PICK k \in 1..Len(items) : IsFirst(items, S, k) /\ first = items[k]
    BY <1>4, FirstInFound
  <2> HIDE DEF first
  <2>2. items[k].native = native
    BY <2>1, <1>1 DEF IsFirst
  <2> QED BY <1>2, <2>1, <2>2
<1>5. CASE ~\E i \in 1..Len(items) : items[i] \in S
  <2>1. first = Itself(otherwise)
    BY <1>5, FirstInNone
  <2> QED BY <1>1, <1>2, <1>3, <1>5, <2>1
<1> QED BY <1>4, <1>5

(* And from a name to the word.                                            *)
LEMMA NativeOfIs ==
    ASSUME NEW I \in SUBSET Item, NEW items \in Seq(I), NEW name
    PROVE  \/ \E i \in 1..Len(items) : /\ items[i].value = name
                                       /\ NativeOf(items, name) = items[i].native
           \/ /\ \A i \in 1..Len(items) : items[i].value # name
              /\ NativeOf(items, name) = name
<1> DEFINE S == {i \in ToSet(items) : i.value = name}
           first == FirstIn(items, S, Itself(name))
<1>1. \A i \in 1..Len(items) : /\ items[i] \in S <=> items[i].value = name
                               /\ items[i] \in Item
  BY DEF ToSet
<1>2. NativeOf(items, name) = RawValue(first)
  BY DEF NativeOf
<1>3. RawValue(Itself(name)) = name
  BY DEF Itself, RawValue
<1>4. \A x \in Item : RawValue(x) = x.native
  BY TablesAssumption DEF RawValue, Item
<1> HIDE DEF S
<1>5. CASE \E i \in 1..Len(items) : items[i] \in S
  <2>1. PICK k \in 1..Len(items) : IsFirst(items, S, k) /\ first = items[k]
    BY <1>5, FirstInFound
  <2> HIDE DEF first
  <2>2. items[k].value = name /\ RawValue(items[k]) = items[k].native
    BY <2>1, <1>1, <1>4 DEF IsFirst
  <2> QED BY <1>2, <2>1, <2>2
<1>6. CASE ~\E i \in 1..Len(items) : items[i] \in S
  <2>1. first = Itself(name)
    BY <1>6, FirstInNone
  <2> QED BY <1>1, <1>2, <1>3, <1>6, <2>1
<1> QED BY <1>5, <1>6

LEMMA NamesOfWords ==
    ASSUME NEW S, NEW C, NEW K, Closed(S, C, K), NEW o, NamedOptions(o, S, C, K),
           NEW w \in Words
    PROVE  ServiceOf(o, w) \in Words /\ CountryOf(o, w) \in Words
<1>1. /\ o.services \in Seq(S) /\ o.countries \in Seq(C)
      /\ \A i \in 1..Len(o.services) : o.services[i] \in S
      /\ \A i \in 1..Len(o.countries) : o.countries[i] \in C
  BY DEF NamedOptions
<1>2. /\ \A x \in S : x.value \in Words
      /\ \A x \in C : x.value \in Words
  BY DEF Closed, Item
<1>3. ServiceName(w, w) \in Words /\ CountryName(w, w, Absent) \in Words
  BY ServiceNameIs, CountryNameIs DEF Perhaps
<1>4. ServiceOf(o, w) \in Words
  BY <1>1, <1>2, <1>3, NameOfIs DEF ServiceOf
<1>5. CountryOf(o, w) \in Words
  BY <1>1, <1>2, <1>3, NameOfIs DEF CountryOf
<1> QED BY <1>4, <1>5

-----------------------------------------------------------------------------
(* What is kept, for any sets that are closed under naming.  Options that  *)
(* were not read from the file list services under words of the provider.  *)
OwnWords(o, S) == o.rawServices \subseteq Natives(S)

SoundCall(j, S, C, K) ==
    /\ j.step \in {"put", "save"} => NamedOptions(j.options, S, C, K)
    /\ j.step = "put" => OwnWords(j.options, S)
    /\ j.step = "operators" => j.key \in K
    /\ j.step \in Kinds => NamedOptions(j.copy, S, C, K)
    /\ j.step \in Kinds => (~j.loaded => OwnWords(j.copy, S))

SoundTicket(t) ==
    /\ t = [asked |-> t.asked, service |-> t.service, country |-> t.country,
            operator |-> t.operator]
    /\ t.service \in Words /\ t.country \in Words

Held(S, C, K) ==
    /\ catalogue \in Catalogues /\ loaded \in BOOLEAN
    /\ cache # Absent => NamedOptions(cache, S, C, K)
    /\ cache # Absent => (~loaded => OwnWords(cache, S))
    /\ saved # Absent => NamedOptions(saved, S, C, K)
    /\ call = [c \in Callers |-> call[c]]
    /\ \A c \in Callers : SoundCall(call[c], S, C, K)
    /\ \A t \in tickets : SoundTicket(t)

LEMMA NoCallIsSound == ASSUME NEW S, NEW C, NEW K PROVE SoundCall(NoCall, S, C, K)
  BY DEF SoundCall, NoCall, Kinds

LEMMA InitHeld == ASSUME NEW S, NEW C, NEW K, NamesInit PROVE Held(S, C, K)
  BY NoCallIsSound DEF NamesInit, Held

LEMMA CallsStaySound ==
    ASSUME NEW S, NEW C, NEW K, Held(S, C, K), NEW c \in Callers, NEW j, Waits(c, j),
           SoundCall(j, S, C, K)
    PROVE  /\ call' = [d \in Callers |-> call'[d]]
           /\ \A d \in Callers : SoundCall(call'[d], S, C, K)
           /\ call'[c] = j /\ \A d \in Callers \ {c} : call'[d] = call[d]
<1>1. call = [d \in Callers |-> call[d]] /\ \A d \in Callers : SoundCall(call[d], S, C, K)
  BY DEF Held
<1>2. call' = [d \in Callers |-> IF d = c THEN j ELSE call[d]]
  BY <1>1 DEF Waits
<1> QED BY <1>1, <1>2

LEMMA CopyIsNamed ==
    ASSUME NEW S, NEW C, NEW K, Held(S, C, K)
    PROVE  NamedOptions(Copy, S, C, K) /\ (~loaded => OwnWords(Copy, S))
<1>1. OwnWords(NoOptions, S)
  BY DEF OwnWords, NoOptions
<1> QED BY <1>1, NoOptionsAreNamed DEF Held, Copy

(* The operators of a country go into the options.                         *)
LEMMA WithOperatorsAreNamed ==
    ASSUME NEW S, NEW C, NEW K, NEW o, NamedOptions(o, S, C, K), NEW key \in K,
           NEW raw \in Seq(AnyItem)
    PROVE  /\ NamedOptions(WithOperators(o, key, raw), S, C, K)
           /\ WithOperators(o, key, raw).rawServices = o.rawServices
<1> DEFINE e == [raw |-> raw, items |-> NamedOperators(raw), fresh |-> TRUE]
           b == [k \in {key} \cup DOMAIN o.byCountry |-> IF k = key THEN e ELSE o.byCountry[k]]
           n == [rawServices |-> o.rawServices, services |-> o.services,
                 countries |-> o.countries, operators |-> o.operators, byCountry |-> b]
<1>1. e \in Entry
  <2>1. [raw |-> raw, items |-> raw, fresh |-> TRUE] \in AnyEntry
    BY DEF AnyEntry
  <2>2. NamedEntry([raw |-> raw, items |-> raw, fresh |-> TRUE]) = e
    BY DEF NamedEntry
  <2> QED BY <2>1, <2>2, EntriesAreNamed
<1> HIDE DEF e
<1>2. ByCountry(b, K)
  BY <1>1 DEF ByCountry, NamedOptions
<1>3. WithOperators(o, key, raw) = [o EXCEPT !.byCountry = b]
  BY DEF WithOperators, e
<1> HIDE DEF b
<1>4. o = [rawServices |-> o.rawServices, services |-> o.services, countries |-> o.countries,
           operators |-> o.operators, byCountry |-> o.byCountry]
  BY DEF NamedOptions
<1>5. WithOperators(o, key, raw) = n
  BY <1>3, <1>4
<1>6. /\ n.rawServices = o.rawServices /\ n.services = o.services /\ n.countries = o.countries
      /\ n.operators = o.operators /\ n.byCountry = b
  OBVIOUS
<1>7. n = [rawServices |-> n.rawServices, services |-> n.services, countries |-> n.countries,
           operators |-> n.operators, byCountry |-> n.byCountry]
  BY <1>6
<1> HIDE DEF n
<1>8. NamedOptions(n, S, C, K)
  BY <1>2, <1>6, <1>7 DEF NamedOptions
<1> QED BY <1>5, <1>6, <1>8

(* They get old.                                                           *)
LEMMA ExpiredAreNamed ==
    ASSUME NEW S, NEW C, NEW K, NEW o, NamedOptions(o, S, C, K), NEW key \in DOMAIN o.byCountry
    PROVE  /\ NamedOptions([o EXCEPT !.byCountry[key].fresh = FALSE], S, C, K)
           /\ [o EXCEPT !.byCountry[key].fresh = FALSE].rawServices = o.rawServices
<1> DEFINE e == [o.byCountry[key] EXCEPT !.fresh = FALSE]
           b == [o.byCountry EXCEPT ![key] = e]
           n == [rawServices |-> o.rawServices, services |-> o.services,
                 countries |-> o.countries, operators |-> o.operators, byCountry |-> b]
<1>1. e \in Entry
  <2> DEFINE f == o.byCountry[key]
  <2>1. /\ f \in [raw : Seq(AnyItem), items : Seq(Operator), fresh : BOOLEAN]
        /\ NamedEntry(f) = f
    BY DEF NamedOptions, ByCountry, Entry
  <2> HIDE DEF f
  <2>2. /\ f.raw \in Seq(AnyItem) /\ f.items \in Seq(Operator)
        /\ f = [raw |-> f.raw, items |-> f.items, fresh |-> f.fresh]
    BY <2>1
  <2>3. f.items = NamedOperators(IF f.raw = <<>> THEN f.items ELSE f.raw)
    <3>1. NamedEntry(f).items = NamedOperators(IF f.raw = <<>> THEN f.items ELSE f.raw)
      BY DEF NamedEntry
    <3> QED BY <2>1, <3>1
  <2> DEFINE g == [raw |-> f.raw, items |-> f.items, fresh |-> FALSE]
  <2>4. [f EXCEPT !.fresh = FALSE] = g
    <3>1. ASSUME NEW v
          PROVE  [f EXCEPT !.fresh = v] = [raw |-> f.raw, items |-> f.items, fresh |-> v]
      BY <2>2
    <3> QED BY <3>1
  <2>5. g.raw = f.raw /\ g.items = f.items /\ g.fresh = FALSE
    OBVIOUS
  <2>6. NamedEntry(g) = [raw |-> f.raw, fresh |-> FALSE,
                         items |-> NamedOperators(IF f.raw = <<>> THEN f.items ELSE f.raw)]
    BY <2>5 DEF NamedEntry
  <2>7. NamedEntry(g) = g
    BY <2>3, <2>6
  <2>8. g \in [raw : Seq(AnyItem), items : Seq(Operator), fresh : BOOLEAN]
    BY <2>2
  <2>9. g \in Entry
    BY <2>7, <2>8 DEF Entry
  <2> HIDE DEF g
  <2> QED BY <2>4, <2>9 DEF f
<1> HIDE DEF e
<1>2. ByCountry(b, K)
  BY <1>1 DEF ByCountry, NamedOptions
<1>3. [o EXCEPT !.byCountry[key].fresh = FALSE] = [o EXCEPT !.byCountry = b]
  BY DEF e
<1> HIDE DEF b
<1>4. o = [rawServices |-> o.rawServices, services |-> o.services, countries |-> o.countries,
           operators |-> o.operators, byCountry |-> o.byCountry]
  BY DEF NamedOptions
<1>5. [o EXCEPT !.byCountry = b] = n
  BY <1>4
<1>6. /\ n.rawServices = o.rawServices /\ n.services = o.services /\ n.countries = o.countries
      /\ n.operators = o.operators /\ n.byCountry = b
  OBVIOUS
<1>7. n = [rawServices |-> n.rawServices, services |-> n.services, countries |-> n.countries,
           operators |-> n.operators, byCountry |-> n.byCountry]
  BY <1>6
<1> HIDE DEF n
<1>8. NamedOptions(n, S, C, K)
  BY <1>2, <1>6, <1>7 DEF NamedOptions
<1> QED BY <1>3, <1>5, <1>6, <1>8

-----------------------------------------------------------------------------
(* Each step keeps them.                                                   *)
LEMMA RefreshHolds ==
    ASSUME NEW S, NEW C, NEW K, Closed(S, C, K), Held(S, C, K), NEW c \in Callers, Refresh(c)
    PROVE  Held(S, C, K)'
<1> DEFINE j == [step |-> "put", options |-> Discovered]
<1>1. NamedOptions(Discovered, S, C, K) /\ OwnWords(Discovered, S)
  BY DiscoveredAreNamed DEF Held, OwnWords
<1>2. SoundCall(j, S, C, K)
  BY <1>1 DEF SoundCall, Kinds
<1>3. Waits(c, j) /\ UNCHANGED <<catalogue, cache, saved, loaded, tickets>>
  BY DEF Refresh
<1> HIDE DEF j
<1> QED BY <1>2, <1>3, CallsStaySound DEF Held

LEMMA PutHolds ==
    ASSUME NEW S, NEW C, NEW K, Held(S, C, K), NEW c \in Callers, Put(c)
    PROVE  Held(S, C, K)'
<1> DEFINE o == call[c].options
           j == [step |-> "save", options |-> o]
<1>1. NamedOptions(o, S, C, K) /\ OwnWords(o, S)
  BY DEF Put, Held, SoundCall
<1>2. SoundCall(j, S, C, K)
  BY <1>1 DEF SoundCall, Kinds
<1>3. /\ Waits(c, j) /\ cache' = o /\ loaded' = FALSE
      /\ UNCHANGED <<catalogue, saved, tickets>>
  BY DEF Put
<1> HIDE DEF j, o
<1> QED BY <1>1, <1>2, <1>3, CallsStaySound DEF Held

LEMMA SaveEntryHolds ==
    ASSUME NEW S, NEW C, NEW K, Held(S, C, K), NEW c \in Callers, SaveEntry(c)
    PROVE  Held(S, C, K)'
<1> DEFINE o == call[c].options
<1>1. NamedOptions(o, S, C, K)
  BY DEF SaveEntry, Held, SoundCall
<1>2. /\ Waits(c, NoCall) /\ saved' = o
      /\ UNCHANGED <<catalogue, cache, loaded, tickets>>
  BY DEF SaveEntry
<1> HIDE DEF o
<1> QED BY <1>1, <1>2, NoCallIsSound, CallsStaySound DEF Held

LEMMA ListOperatorsHolds ==
    ASSUME NEW S, NEW C, NEW K, Closed(S, C, K), Held(S, C, K), NEW c \in Callers,
           NEW country \in Countries, ListOperators(c, country)
    PROVE  Held(S, C, K)'
<1> DEFINE j == [step |-> "operators", key |-> CountryKey(country),
                 country |-> CountryAsked(country)]
<1>1. SoundCall(j, S, C, K)
  <2>1. CountryKey(country) \in K
    BY NamesAssumption DEF Closed
  <2> QED BY <2>1 DEF SoundCall, Kinds
<1>2. Waits(c, j) /\ UNCHANGED <<catalogue, cache, saved, loaded, tickets>>
  BY DEF ListOperators
<1> HIDE DEF j
<1> QED BY <1>1, <1>2, CallsStaySound DEF Held

LEMMA PutOperatorsHolds ==
    ASSUME NEW S, NEW C, NEW K, Held(S, C, K), NEW c \in Callers, PutOperators(c)
    PROVE  Held(S, C, K)'
<1> DEFINE o == WithOperators(cache, call[c].key, OperatorsOf(call[c].country))
           j == [step |-> "save", options |-> o]
<1>1. CASE cache = Absent
  <2>1. Waits(c, NoCall) /\ UNCHANGED <<catalogue, cache, saved, loaded, tickets>>
    BY <1>1 DEF PutOperators
  <2> QED BY <2>1, NoCallIsSound, CallsStaySound DEF Held
<1>2. CASE cache # Absent
  <2>1. NamedOptions(cache, S, C, K) /\ (~loaded => OwnWords(cache, S))
    BY <1>2 DEF Held
  <2>2. call[c].key \in K
    BY DEF PutOperators, Held, SoundCall
  <2>3. OperatorsOf(call[c].country) \in Seq(AnyItem)
    BY OperatorsOfAre DEF Held
  <2>4. NamedOptions(o, S, C, K) /\ o.rawServices = cache.rawServices
    BY <2>1, <2>2, <2>3, WithOperatorsAreNamed
  <2>5. Waits(c, j) /\ cache' = o /\ UNCHANGED <<catalogue, saved, loaded, tickets>>
    BY <1>2 DEF PutOperators
  <2> HIDE DEF o
  <2>6. ~loaded => OwnWords(o, S)
    BY <2>1, <2>4 DEF OwnWords
  <2>7. SoundCall(j, S, C, K)
    BY <2>4 DEF SoundCall, Kinds
  <2> HIDE DEF j
  <2> QED BY <2>4, <2>5, <2>6, <2>7, CallsStaySound DEF Held
<1> QED BY <1>1, <1>2

LEMMA ExpireHolds ==
    ASSUME NEW S, NEW C, NEW K, Held(S, C, K), NEW key, Expire(key)
    PROVE  Held(S, C, K)'
<1> DEFINE o == [cache EXCEPT !.byCountry[key].fresh = FALSE]
<1>1. NamedOptions(cache, S, C, K) /\ (~loaded => OwnWords(cache, S))
  BY DEF Held, Expire
<1>2. NamedOptions(o, S, C, K) /\ o.rawServices = cache.rawServices
  BY <1>1, ExpiredAreNamed DEF Expire
<1>3. cache' = o /\ UNCHANGED <<catalogue, saved, loaded, call, tickets>>
  BY DEF Expire
<1> HIDE DEF o
<1>4. ~loaded => OwnWords(o, S)
  BY <1>1, <1>2 DEF OwnWords
<1> QED BY <1>2, <1>3, <1>4 DEF Held

LEMMA AskHolds ==
    ASSUME NEW S, NEW C, NEW K, Held(S, C, K), NEW c \in Callers, NEW kind \in Kinds,
           NEW request \in Requests, Ask(c, kind, request)
    PROVE  Held(S, C, K)'
<1> DEFINE sent == IF kind = "acquire" THEN Translated(request) ELSE PriceAsked(request)
           j == [step |-> kind, asked |-> request, copy |-> Copy,
                 loaded |-> loaded, sent |-> sent]
<1>1. SoundCall(j, S, C, K)
  <2>1. NamedOptions(Copy, S, C, K) /\ (~loaded => OwnWords(Copy, S))
    BY CopyIsNamed
  <2>2. j.step = kind /\ j.copy = Copy /\ j.loaded = loaded
    OBVIOUS
  <2> HIDE DEF j
  <2> QED BY <2>1, <2>2 DEF SoundCall, Kinds
<1>2. Waits(c, j) /\ UNCHANGED <<catalogue, cache, saved, loaded, tickets>>
  BY DEF Ask
<1> HIDE DEF j
<1> QED BY <1>1, <1>2, CallsStaySound DEF Held

LEMMA AcquiredHolds ==
    ASSUME NEW S, NEW C, NEW K, Closed(S, C, K), Held(S, C, K), NEW c \in Callers, Acquired(c)
    PROVE  Held(S, C, K)'
<1> DEFINE sent == call[c].sent
           asked == call[c].asked
           o == call[c].copy
           t == Named(call[c])
           native == CountryOf(o, sent.country)
           n == [asked |-> [service |-> WordOr(asked.service, DefaultService),
                            country |-> WordOr(asked.country, DefaultCountry)],
                 service |-> ServiceOf(o, sent.service), country |-> native,
                 operator |-> IF asked.operator = Absent THEN Absent
                              ELSE OperatorOf(o, native, asked.operator)]
<1>1. sent.service \in Words /\ sent.country \in Words
  BY OfferedAre DEF Acquired, Held
<1>2. NamedOptions(o, S, C, K)
  BY DEF Acquired, Held, SoundCall, Kinds
<1>3. t = n
  BY DEF Named, TicketOf
<1> HIDE DEF sent, asked, o
<1>4. ServiceOf(o, sent.service) \in Words /\ native \in Words
  BY <1>1, <1>2, NamesOfWords
<1> HIDE DEF native
<1>5. SoundTicket(n)
  BY <1>4 DEF SoundTicket
<1>6. /\ Waits(c, NoCall) /\ tickets' = tickets \cup {t}
      /\ UNCHANGED <<catalogue, cache, saved, loaded>>
  BY DEF Acquired
<1> HIDE DEF t, n
<1>7. \A x \in tickets' : SoundTicket(x)
  BY <1>3, <1>5, <1>6 DEF Held
<1> QED BY <1>6, <1>7, NoCallIsSound, CallsStaySound DEF Held

LEMMA PricedHolds ==
    ASSUME NEW S, NEW C, NEW K, Held(S, C, K), NEW c \in Callers, Priced(c)
    PROVE  Held(S, C, K)'
<1>1. PICK native \in OfferedCountries :
          Waits(c, [step |-> "priced",
                    asked |-> call[c].asked.country,
                    listed |-> call[c].asked.country \in Values(call[c].copy.countries),
                    country |-> PriceCountry(call[c].copy, native),
                    operators |-> {PriceOperator(call[c].copy, o) :
                                      o \in Listing(OperatorsOf(native))}])
  BY DEF Priced
<1> DEFINE j == [step |-> "priced",
                 asked |-> call[c].asked.country,
                 listed |-> call[c].asked.country \in Values(call[c].copy.countries),
                 country |-> PriceCountry(call[c].copy, native),
                 operators |-> {PriceOperator(call[c].copy, o) :
                                   o \in Listing(OperatorsOf(native))}]
<1>2. j.step = "priced"
  OBVIOUS
<1>3. Waits(c, j) /\ UNCHANGED <<catalogue, cache, saved, loaded, tickets>>
  BY <1>1 DEF Priced
<1> HIDE DEF j
<1>4. SoundCall(j, S, C, K)
  BY <1>2 DEF SoundCall, Kinds
<1> QED BY <1>3, <1>4, CallsStaySound DEF Held

LEMMA AnswerHolds ==
    ASSUME NEW S, NEW C, NEW K, Held(S, C, K), NEW c \in Callers, Told(c) \/ Refused(c)
    PROVE  Held(S, C, K)'
<1>1. Waits(c, NoCall) /\ UNCHANGED <<catalogue, cache, saved, loaded, tickets>>
  BY DEF Told, Refused
<1> QED BY <1>1, NoCallIsSound, CallsStaySound DEF Held

LEMMA RelistHolds ==
    ASSUME NEW S, NEW C, NEW K, Held(S, C, K), Relist PROVE Held(S, C, K)'
  BY DEF Relist, Held

(* A ticket that is named anew.                                            *)
LEMMA RenamedIs ==
    ASSUME NEW t, SoundTicket(t)
    PROVE  /\ SoundTicket(Renamed(t))
           /\ Renamed(t).asked = t.asked
           /\ Renamed(t).service = ServiceKey(t.service, t.service)
           /\ Renamed(t).country = CountryKey(t.country)
<1> DEFINE s == ServiceKey(t.service, t.service)
           k == CountryKey(t.country)
           n == [asked |-> t.asked, service |-> s, country |-> k, operator |-> t.operator]
<1>1. s \in Words /\ k \in Words
  BY ServiceKeyIs, KeyIsWord DEF SoundTicket, Perhaps
<1>2. Renamed(t) = [t EXCEPT !.service = s, !.country = k]
  BY DEF Renamed
<1> HIDE DEF s, k
<1>3. Renamed(t) = n
  BY <1>2 DEF SoundTicket
<1> QED BY <1>1, <1>3 DEF SoundTicket, s, k

LEMMA RestartHolds ==
    ASSUME NEW S, NEW C, NEW K, Closed(S, C, K), Held(S, C, K), RestartNamed
    PROVE  Held(S, C, K)'
<1>1. saved # Absent => NamedOptions(Loaded(saved), S, C, K)
  BY LoadedAreNamed DEF Held
<1>2. /\ cache' = IF saved = Absent THEN Absent ELSE Loaded(saved)
      /\ saved' = cache'
      /\ loaded' = (saved # Absent)
      /\ call' = [c \in Callers |-> NoCall]
      /\ tickets' = {Renamed(t) : t \in tickets}
      /\ UNCHANGED catalogue
  BY DEF RestartNamed
<1>3. \A t \in tickets' : SoundTicket(t)
  BY <1>2, RenamedIs DEF Held
<1>4. /\ cache' # Absent => NamedOptions(cache', S, C, K)
      /\ cache' # Absent => loaded'
      /\ saved' # Absent => NamedOptions(saved', S, C, K)
      /\ loaded' \in BOOLEAN
  BY <1>1, <1>2
<1>5. /\ call' = [c \in Callers |-> call'[c]]
      /\ \A c \in Callers : SoundCall(call'[c], S, C, K)
  BY <1>2, NoCallIsSound
<1> QED BY <1>2, <1>3, <1>4, <1>5 DEF Held

LEMMA StepHolds ==
    ASSUME NEW S, NEW C, NEW K, Closed(S, C, K), Held(S, C, K), [NamesNext]_namesVars
    PROVE  Held(S, C, K)'
<1>1. CASE UNCHANGED namesVars
  BY <1>1 DEF namesVars, Held
<1>2. CASE NamesNext
  BY <1>2, RefreshHolds, PutHolds, SaveEntryHolds, PutOperatorsHolds, AcquiredHolds, PricedHolds,
     AnswerHolds, ListOperatorsHolds, ExpireHolds, AskHolds, RelistHolds, RestartHolds
     DEF NamesNext
<1> QED BY <1>1, <1>2

-----------------------------------------------------------------------------
(* All items and all words are closed under naming.                        *)
LEMMA ItemsClosed == Closed(Item, Item, Words)
<1>1. \A g \in Item \cup GivenServices \cup GivenCountries : g \in AnyItem
  BY ItemsAre, GivensAre
<1> QED BY <1>1, NamedServiceIs, NamedCountryIs, KeyIsWord DEF Closed

LEMMA ItemsTyped ==
    ASSUME NEW I \in SUBSET Item, NEW items \in Seq(I)
    PROVE  IsItems(items)
  BY DEF IsItems, Item, Perhaps

LEMMA OptionsTyped ==
    ASSUME NEW o, NamedOptions(o, Item, Item, Words)
    PROVE  IsOptions(o)
<1>1. /\ o.services \in Seq(Item) /\ o.countries \in Seq(Item) /\ o.operators \in Seq(Operator)
      /\ Sorted(o.services) /\ Sorted(o.countries) /\ Sorted(o.operators)
  BY DEF NamedOptions
<1>2. Operator \in SUBSET Item /\ Item \in SUBSET Item
  BY OperatorsAre
<1>3. ASSUME NEW I \in SUBSET Item, NEW items \in Seq(I), Sorted(items)
      PROVE  IsItems(items) /\ Cardinality(Values(items)) = Len(items)
  <2>1. \A x \in I : x.value \in Words
    BY DEF Item
  <2> QED BY <1>3, <2>1, ItemsTyped, SortedNames
<1>4. /\ IsItems(o.services) /\ Cardinality(Values(o.services)) = Len(o.services)
      /\ IsItems(o.countries) /\ Cardinality(Values(o.countries)) = Len(o.countries)
      /\ IsItems(o.operators) /\ Cardinality(Values(o.operators)) = Len(o.operators)
  BY <1>1, <1>2, <1>3
<1>5. ASSUME NEW key \in DOMAIN o.byCountry
      PROVE  key \in Words /\ IsItems(o.byCountry[key].items)
  <2>1. key \in Words /\ o.byCountry[key] \in Entry
    BY DEF NamedOptions, ByCountry
  <2>2. o.byCountry[key].items \in Seq(Operator)
    BY <2>1 DEF Entry
  <2> QED BY <2>1, <2>2, <1>2, ItemsTyped
<1>6. o.rawServices \subseteq Words
  BY DEF NamedOptions
<1> QED BY <1>4, <1>5, <1>6 DEF IsOptions

(* For any tables, lists of a provider and callers, whatever the names are *)
(* and however often the provider lists something else or the service      *)
(* starts again: every list of options has each name once, and a word of   *)
(* the provider behind it (dedup_options, options.rs:644).                 *)
THEOREM NamesTypesHold == NamesSpec => []NamesTypeOK
<1>1. Held(Item, Item, Words) => NamesTypeOK
  <2> SUFFICES ASSUME Held(Item, Item, Words) PROVE NamesTypeOK
    OBVIOUS
  <2>1. \A o \in {cache, saved} \ {Absent} : IsOptions(o)
    BY OptionsTyped DEF Held
  <2>2. \A c \in Callers : call[c].step \in {"put", "save"} => IsOptions(call[c].options)
    BY OptionsTyped DEF Held, SoundCall
  <2>3. \A t \in tickets : t.service \in Words /\ t.country \in Words
    BY DEF Held, SoundTicket
  <2> QED BY <2>1, <2>2, <2>3 DEF Held, NamesTypeOK
<1>2. NamesInit => Held(Item, Item, Words)
  BY InitHeld
<1>3. Held(Item, Item, Words) /\ [NamesNext]_namesVars => Held(Item, Item, Words)'
  BY ItemsClosed, StepHolds
<1> QED BY <1>1, <1>2, <1>3, PTL DEF NamesSpec

-----------------------------------------------------------------------------
(* The names of the services and countries of this provider.  When labels  *)
(* tell names apart, naming them again changes nothing.                    *)
CountryKeys == {k \in Words : CountryKey(k) = k}

LEMMA NamedForGood ==
    ASSUME LabelsTell
    PROVE  /\ Served \subseteq Item /\ Covered \subseteq Item
           /\ \A x \in Served : /\ NamedService(x) = x
                                  /\ ServiceKey(x.value, x.value) = x.value
           /\ \A x \in Covered : /\ NamedCountry(x) = x
                                     /\ CountryKey(x.value) = x.value
           /\ Closed(Served, Covered, CountryKeys)
<1>1. /\ GivenServices \subseteq AnyItem /\ GivenCountries \subseteq AnyItem
      /\ ServicesTell /\ CountriesTell
  BY GivensAre, ItemsAre DEF LabelsTell
<1>2. ASSUME NEW g \in GivenServices
      PROVE  /\ NamedService(g) \in Item
             /\ NamedService(NamedService(g)) = NamedService(g)
             /\ ServiceKey(NamedService(g).value, NamedService(g).value) = NamedService(g).value
  BY <1>1, NamedServiceIs, ServiceNamedTwice, ServiceKeyOfName
<1>3. ASSUME NEW g \in GivenCountries
      PROVE  /\ NamedCountry(g) \in Item
             /\ NamedCountry(NamedCountry(g)) = NamedCountry(g)
             /\ CountryKey(NamedCountry(g).value) = NamedCountry(g).value
  <2>1. /\ Labelled(RawValue(g), g.label)
        /\ NamedCountry(g).value \in DOMAIN CountryLabels =>
               CountryLabels[NamedCountry(g).value] \in DOMAIN CountryAliases
                   \/ KnownByWord(g)
    BY DEF LabelsTell, CountriesLabelled, Labelled
  <2> QED BY <2>1, <1>1, NamedCountryIs, CountryNamedTwice
<1>4. \A w \in Words : CountryKey(w) \in CountryKeys
  BY <1>1, KeyOfKey DEF CountryKeys
<1>5. /\ Served \subseteq Item
      /\ \A x \in Served : /\ NamedService(x) = x
                             /\ ServiceKey(x.value, x.value) = x.value
  BY <1>2 DEF Served
<1>6. /\ Covered \subseteq Item
      /\ \A x \in Covered : /\ NamedCountry(x) = x
                                /\ CountryKey(x.value) = x.value
  BY <1>3 DEF Covered
<1>7. \A g \in GivenServices \cup Served : NamedService(g) \in Served
  BY <1>5 DEF Served
<1>8. \A g \in GivenCountries \cup Covered : NamedCountry(g) \in Covered
  BY <1>6 DEF Covered
<1>9. CountryKeys \subseteq Words
  BY DEF CountryKeys
<1> QED BY <1>4, <1>5, <1>6, <1>7, <1>8, <1>9 DEF Closed

(* When labels tell names apart, a restart shows the options as the file   *)
(* holds them: naming them once more changes no name, no label and no word *)
(* of the provider (normalize_loaded_provider_options, options.rs:113).    *)
THEOREM NamesLastARestart == LabelsTell => (NamesSpec => []LoadingChangesNoName)
<1> SUFFICES ASSUME LabelsTell PROVE NamesSpec => []LoadingChangesNoName
  OBVIOUS
<1>1. Held(Served, Covered, CountryKeys) => LoadingChangesNoName
  <2>1. /\ Served \in SUBSET Item /\ Covered \in SUBSET Item
        /\ \A x \in Served : NamedService(x) = x
        /\ \A x \in Covered : NamedCountry(x) = x
        /\ \A k \in CountryKeys : CountryKey(k) = k
    BY NamedForGood DEF CountryKeys
  <2> QED BY <2>1, LoadedShowsTheSame DEF Held, LoadingChangesNoName
<1>2. NamesInit => Held(Served, Covered, CountryKeys)
  BY InitHeld
<1>3. Held(Served, Covered, CountryKeys) /\ [NamesNext]_namesVars
          => Held(Served, Covered, CountryKeys)'
  BY NamedForGood, StepHolds
<1> QED BY <1>1, <1>2, <1>3, PTL DEF NamesSpec

-----------------------------------------------------------------------------
(* When the words of the provider tell a service from the others.          *)
LEMMA ClearServicesAre ==
    ASSUME NEW name \in ClearServices
    PROVE  /\ \E u \in Served : u.value = name
           /\ \A u \in Served : u.value = name => TellsService(u)
  BY DEF ClearServices

(* A service by its word alone has the name that the lists gave it, if     *)
(* there is an alias for the word or the word is the name.                 *)
LEMMA ServiceByWord ==
    ASSUME LabelsTell, NEW u \in Served,
           u.native = u.value \/ \E k \in 1..Len(Aliases) : Aliases[k].native = u.native
    PROVE  ServiceName(u.native, u.native) = u.value
<1>1. PICK g \in GivenServices : u = NamedService(g)
  BY DEF Served
<1> DEFINE raw == RawValue(g)
<1>2. /\ raw \in Words /\ u.native = raw /\ u.value = ServiceName(raw, g.label)
      /\ g.label \in Perhaps /\ raw \in Perhaps
  <2>1. g \in AnyItem
    BY GivensAre, ItemsAre
  <2>2. g.label \in Perhaps
    BY <2>1 DEF AnyItem
  <2> QED BY <1>1, <2>1, <2>2, NamedServiceIs DEF Perhaps
<1>3. ServiceKey(u.value, u.value) = u.value
  BY NamedForGood
<1> HIDE DEF raw
<1>4. CASE \E k \in 1..Len(Aliases) : Aliases[k].native = raw
  <2>1. PICK k \in 1..Len(Aliases) : FirstNative(raw, k) /\ u.value = Aliases[k].name
    BY <1>2, <1>4, ServiceNameIs
  <2>2. PICK m \in 1..Len(Aliases) : /\ FirstNative(raw, m)
                                           /\ ServiceName(raw, raw) = Aliases[m].name
    BY <1>2, <1>4, ServiceNameIs
  <2>3. k \in Nat /\ m \in Nat
    BY AliasEntries
  <2>4. ~(k < m) /\ ~(m < k)
    <3>1. k < m => k \in 1..(m - 1)
      BY <2>3
    <3>2. m < k => m \in 1..(k - 1)
      BY <2>3
    <3> QED BY <3>1, <3>2, <2>1, <2>2 DEF FirstNative
  <2>5. k = m
    BY <2>3, <2>4
  <2> QED BY <1>2, <2>1, <2>2, <2>5
<1>5. CASE \A k \in 1..Len(Aliases) : Aliases[k].native # raw
  <2>1. ServiceName(raw, raw) = ServiceKey(raw, raw)
    BY <1>2, <1>5, ServiceNameIs DEF FirstNative
  <2> QED BY <1>2, <1>3, <1>5, <2>1
<1> QED BY <1>4, <1>5

(* And so has the word that is sent for it.                                *)
LEMMA ServiceByWordSent ==
    ASSUME LabelsTell, NEW u \in Served, TellsService(u),
           \/ WordOf(u) = u.value
           \/ WordOf(u) # u.native
           \/ \E k \in 1..Len(Aliases) : Aliases[k].native = WordOf(u)
    PROVE  ServiceName(WordOf(u), WordOf(u)) = u.value
<1>1. CASE WordOf(u) # u.native
  BY <1>1 DEF TellsService
<1>2. CASE WordOf(u) = u.native
  <2>1. u.native = u.value \/ \E k \in 1..Len(Aliases) : Aliases[k].native = u.native
    BY <1>2
  <2> QED BY <1>2, <2>1, ServiceByWord
<1> QED BY <1>1, <1>2

(* What is sent for a service that is asked for by its name: the manifest's *)
(* alias for it, or the word of a list.                                    *)
ByAlias(o, u, sent) ==
    /\ sent = Alias(u.value)
    /\ \/ Alias(u.value) # u.value
       \/ u.value \in o.rawServices
       \/ \A i \in 1..Len(o.services) : o.services[i].value # u.value

ByList(o, u, sent) ==
    \E i \in 1..Len(o.services) : /\ o.services[i].value = u.value
                                 /\ sent = WordOf(o.services[i])

LEMMA ServiceSentIs ==
    ASSUME LabelsTell, NEW o, NamedOptions(o, Served, Covered, CountryKeys),
           NEW u \in Served, u.value \in ClearServices
    PROVE  \/ ByAlias(o, u, Alias(ServiceSent(o, u.value)))
           \/ ByList(o, u, Alias(ServiceSent(o, u.value)))
<1> DEFINE n == Alias(u.value)
           sent == Alias(ServiceSent(o, u.value))
<1>1. /\ o.services \in Seq(Served) /\ Served \in SUBSET Item
      /\ \A i \in 1..Len(o.services) : o.services[i] \in Served
  BY NamedForGood DEF NamedOptions
<1>2. ServiceSent(o, u.value) = IF n \in o.rawServices THEN n ELSE NativeOf(o.services, n)
  BY DEF ServiceSent
<1>3. \/ \E i \in 1..Len(o.services) : /\ o.services[i].value = n
                                       /\ NativeOf(o.services, n) = o.services[i].native
      \/ /\ \A i \in 1..Len(o.services) : o.services[i].value # n
         /\ NativeOf(o.services, n) = n
  BY <1>1, NativeOfIs
<1>4. /\ n \in {u.value, WordOf(u)} /\ Alias(WordOf(u)) = WordOf(u)
      /\ \A v \in Served : v.value = WordOf(u) /\ v.value = n => WordOf(v) = WordOf(u)
  BY ClearServicesAre DEF TellsService
<1>5. CASE n # u.value
  <2>1. n = WordOf(u) /\ Alias(n) = n
    BY <1>4, <1>5
  <2>2. ASSUME NEW i \in 1..Len(o.services), o.services[i].value = n
        PROVE  Alias(o.services[i].native) = n
    BY <1>1, <1>4, <2>1, <2>2 DEF WordOf
  <2>3. Alias(NativeOf(o.services, n)) = n
    BY <1>3, <2>1, <2>2
  <2>4. sent = n
    BY <1>2, <2>1, <2>3
  <2> QED BY <1>5, <2>4 DEF ByAlias
<1>6. CASE n = u.value
  <2>1. CASE n \in o.rawServices
    BY <1>2, <1>6, <2>1 DEF ByAlias
  <2>2. CASE n \notin o.rawServices
    <3>1. CASE /\ NativeOf(o.services, n) = n
               /\ \A i \in 1..Len(o.services) : o.services[i].value # n
      BY <1>2, <1>6, <2>2, <3>1 DEF ByAlias
    <3>2. CASE \E i \in 1..Len(o.services) : /\ o.services[i].value = n
                                             /\ NativeOf(o.services, n) = o.services[i].native
      BY <1>2, <1>6, <2>2, <3>2 DEF ByList, WordOf
    <3> QED BY <1>3, <3>1, <3>2
  <2> QED BY <2>1, <2>2
<1> QED BY <1>5, <1>6

(* It is the word that the list has, if the options are the provider's.    *)
LEMMA ServiceSentAsListed ==
    ASSUME LabelsTell, NEW o, NamedOptions(o, Served, Covered, CountryKeys),
           OwnWords(o, Served), NEW i \in 1..Len(o.services),
           o.services[i].value \in ClearServices
    PROVE  Alias(ServiceSent(o, o.services[i].value)) = WordOf(o.services[i])
<1> DEFINE u == o.services[i]
           sent == Alias(ServiceSent(o, u.value))
<1>1. /\ o.services \in Seq(Served) /\ Sorted(o.services)
      /\ \A x \in Served : x.value \in Words
  BY NamedForGood DEF NamedOptions, Item
<1>2. u \in Served /\ u.value \in ClearServices
  BY <1>1
<1>3. \A j \in 1..Len(o.services) : o.services[j].value = u.value => j = i
  BY <1>1, SortedNames
<1>4. ByAlias(o, u, sent) \/ ByList(o, u, sent)
  BY <1>2, ServiceSentIs
<1> HIDE DEF sent
<1>5. /\ Alias(u.value) \in {u.value, WordOf(u)}
      /\ \A v \in Served : u.value = WordOf(v) => WordOf(v) = WordOf(u)
  BY <1>2, ClearServicesAre DEF TellsService
<1>6. ASSUME u.value \in o.rawServices, Alias(u.value) = u.value PROVE u.value = WordOf(u)
  <2>1. PICK v \in Served : u.value = v.native
    BY <1>6 DEF OwnWords, Natives
  <2>2. u.value = WordOf(v)
    BY <1>6, <2>1 DEF WordOf
  <2> QED BY <1>5, <2>2
<1>7. sent = WordOf(u)
  BY <1>3, <1>4, <1>5, <1>6 DEF ByAlias, ByList
<1> QED BY <1>7 DEF sent

(* And the answer under that word, or under the alias of the default, bears *)
(* the name, whatever options it is given by.                              *)
LEMMA ServiceAnswered ==
    ASSUME LabelsTell, NEW o, NamedOptions(o, Served, Covered, CountryKeys),
           NEW u \in Served, u.value \in ClearServices,
           NEW sent, Offers(Served, sent), sent = Alias(u.value) \/ ByList(o, u, sent)
    PROVE  ServiceOf(o, sent) = u.value
<1>1. /\ o.services \in Seq(Served)
      /\ \A i \in 1..Len(o.services) : o.services[i] \in Served
  BY DEF NamedOptions
<1>2. \/ \E i \in 1..Len(o.services) : /\ o.services[i].native = sent
                                       /\ ServiceOf(o, sent) = o.services[i].value
      \/ /\ \A i \in 1..Len(o.services) : o.services[i].native # sent
         /\ ServiceOf(o, sent) = ServiceName(sent, sent)
  BY <1>1, NameOfIs DEF ServiceOf
<1>3. \A w \in Served : w.value = u.value => TellsService(w)
  BY ClearServicesAre
<1>4. ASSUME NEW w \in Served, w.value = u.value, sent = WordOf(w),
             \/ WordOf(w) = w.value \/ \E k \in 1..Len(Aliases) : Aliases[k].native = WordOf(w)
             \/ \E i \in 1..Len(o.services) : o.services[i] = w
      PROVE  ServiceOf(o, sent) = u.value
  <2>1. /\ TellsService(w) /\ Alias(sent) = sent
        /\ \A v \in Served : WordOf(v) = sent => v.value = u.value
    BY <1>3, <1>4 DEF TellsService
  <2>2. \A v \in Served : v.native = sent => v.value = u.value
    BY <2>1 DEF WordOf
  <2>3. CASE \A i \in 1..Len(o.services) : o.services[i].native # sent
    <3>1. ServiceName(sent, sent) = u.value
      BY <1>4, <2>1, <2>3, ServiceByWordSent
    <3> QED BY <1>2, <2>3, <3>1
  <2> QED BY <1>1, <1>2, <2>2, <2>3
<1>5. CASE ByList(o, u, sent)
  BY <1>1, <1>4, <1>5 DEF ByList
<1>6. CASE sent = Alias(u.value)
  <2>1. CASE Alias(u.value) # u.value
    <3>1. \E k \in 1..Len(Aliases) : Aliases[k].native = sent
      BY <1>6, <2>1, AliasIs
    <3>2. sent = WordOf(u)
      BY <1>3, <1>6, <2>1 DEF TellsService
    <3> QED BY <1>4, <3>1, <3>2
  <2>2. CASE Alias(u.value) = u.value
    <3>1. PICK v \in Served : sent = v.native \/ sent = WordOf(v)
      BY DEF Offers
    <3>2. sent = WordOf(v)
      BY <1>6, <2>2, <3>1 DEF WordOf
    <3>3. sent = WordOf(u)
      BY <1>3, <1>6, <2>2, <3>2 DEF TellsService
    <3> QED BY <1>4, <1>6, <2>2, <3>3
  <2> QED BY <2>1, <2>2
<1> QED BY <1>5, <1>6

-----------------------------------------------------------------------------
(* Countries.                                                              *)
LEMMA CountriesApart ==
    ASSUME NEW u \in Covered, u.value \in ClearCountries
    PROVE  \A v \in Covered : /\ v.native = u.native => v.value = u.value
                              /\ u.value = v.native => v.native = u.native
                              /\ u.value \in {v.label, v.hint} => v.value = u.value
  BY DEF ClearCountries, TellsCountry

LEMMA CountryByName ==
    ASSUME LabelsTell, NEW o, NamedOptions(o, Served, Covered, CountryKeys),
           NEW i \in 1..Len(o.countries)
    PROVE  /\ o.countries[i] \in Covered
           /\ \A j \in 1..Len(o.countries) :
                 o.countries[j].value = o.countries[i].value => j = i
           /\ NativeOf(o.countries, o.countries[i].value) = o.countries[i].native
<1>1. /\ o.countries \in Seq(Covered) /\ Sorted(o.countries) /\ Covered \in SUBSET Item
      /\ \A x \in Covered : x.value \in Words
  BY NamedForGood DEF NamedOptions, Item
<1>2. \A j \in 1..Len(o.countries) : o.countries[j].value = o.countries[i].value => j = i
  BY <1>1, SortedNames
<1>3. NativeOf(o.countries, o.countries[i].value) = o.countries[i].native
  BY <1>1, <1>2, NativeOfIs
<1> QED BY <1>1, <1>2, <1>3

(* Any word that a country is asked for by leads to that country.          *)
LEMMA CountryOptionIs ==
    ASSUME LabelsTell, NEW items \in Seq(Covered), NEW u \in Covered,
           u.value \in ClearCountries
    PROVE  \/ \E i \in 1..Len(items) : /\ items[i].value = u.value
                                       /\ CountryOption(items, u.value) = items[i].native
           \/ /\ \A i \in 1..Len(items) : items[i].value # u.value
              /\ CountryOption(items, u.value) = u.value
<1> DEFINE k == u.value
           S == {i \in ToSet(items) : \/ i.value = CountryKey(k)
                                      \/ k \in {i.native, i.label, i.hint}}
           first == FirstIn(items, S, Itself(k))
<1>1. CountryKey(k) = k
  BY NamedForGood
<1>2. \A i \in 1..Len(items) : items[i] \in Covered /\ items[i] \in ToSet(items)
  BY DEF ToSet
<1>3. ASSUME NEW i \in 1..Len(items) PROVE items[i] \in S <=> items[i].value = k
  <2>1. items[i] \in Covered
    BY <1>2
  <2>2. items[i].native = k => items[i].value = k
    BY <2>1, CountriesApart
  <2>3. k \in {items[i].label, items[i].hint} => items[i].value = k
    BY <2>1, CountriesApart
  <2> QED BY <1>1, <1>2, <2>2, <2>3
<1>4. CountryOption(items, k) = RawValue(first)
  BY DEF CountryOption
<1>5. RawValue(Itself(k)) = k
  BY DEF Itself, RawValue
<1>6. \A x \in Covered : RawValue(x) = x.native
  BY NamedForGood, TablesAssumption DEF RawValue, Item
<1> HIDE DEF S
<1>7. CASE \E i \in 1..Len(items) : items[i] \in S
  <2>1. PICK i \in 1..Len(items) : IsFirst(items, S, i) /\ first = items[i]
    BY <1>7, FirstInFound
  <2> HIDE DEF first
  <2> QED BY <1>2, <1>3, <1>4, <1>6, <2>1 DEF IsFirst
<1>8. CASE ~\E i \in 1..Len(items) : items[i] \in S
  <2>1. first = Itself(k)
    BY <1>8, FirstInNone
  <2> QED BY <1>3, <1>4, <1>5, <1>8, <2>1
<1> QED BY <1>7, <1>8

(* A request that asks the provider for a country that is listed has the   *)
(* word it is listed with.                                                 *)
LEMMA CountryAskedIs ==
    ASSUME LabelsTell, catalogue \in Catalogues,
           NamedOptions(Copy, Served, Covered, CountryKeys),
           NEW i \in 1..Len(Copy.countries), Copy.countries[i].value \in ClearCountries
    PROVE  CountryAsked(Copy.countries[i].value) = Copy.countries[i].native
<1> DEFINE u == Copy.countries[i]
           now == NamedCountries(catalogue.countries)
<1>1. /\ u \in Covered /\ u.value \in ClearCountries /\ Copy.countries \in Seq(Covered)
      /\ \A j \in 1..Len(Copy.countries) : Copy.countries[j].value = u.value => j = i
  BY CountryByName DEF NamedOptions
<1>2. CountryOption(Copy.countries, u.value) = u.native
  <2> HIDE DEF u
  <2>1. \/ \E j \in 1..Len(Copy.countries) :
              /\ Copy.countries[j].value = u.value
              /\ CountryOption(Copy.countries, u.value) = Copy.countries[j].native
        \/ \A j \in 1..Len(Copy.countries) : Copy.countries[j].value # u.value
    BY <1>1, CountryOptionIs
  <2> QED BY <1>1, <2>1 DEF u
<1>3. now \in Seq(Covered)
  <2>1. catalogue.countries \in Seq(GivenCountries)
    <3>1. CASE catalogue.countries = <<>>
      BY <3>1
    <3>2. CASE catalogue.countries # <<>>
      BY <3>2, ListedAre DEF Filled
    <3> QED BY <3>1, <3>2
  <2>2. GivenCountries \in SUBSET AnyItem
    BY GivensAre, ItemsAre
  <2>3. now \in Seq({NamedCountry(g) : g \in GivenCountries})
    BY <2>1, <2>2, CountriesAreNamed
  <2> HIDE DEF now
  <2> QED BY <2>3 DEF Covered
<1> HIDE DEF now
<1>4. u.native = u.value => CountryOption(now, u.value) = u.native
  <2> SUFFICES ASSUME u.native = u.value PROVE CountryOption(now, u.value) = u.native
    OBVIOUS
  <2>1. \A j \in 1..Len(now) : now[j] \in Covered
    BY <1>3
  <2>2. ASSUME NEW j \in 1..Len(now), now[j].value = u.value PROVE now[j].native = u.native
    BY <1>1, <2>1, <2>2, CountriesApart
  <2> HIDE DEF u
  <2> QED BY <1>1, <1>3, <2>2, CountryOptionIs
<1>5. CountryAsked(u.value) = IF CountryOption(Copy.countries, u.value) # u.value
                              THEN CountryOption(Copy.countries, u.value)
                              ELSE CountryOption(now, u.value)
  BY DEF CountryAsked, now
<1> QED BY <1>2, <1>4, <1>5

(* A ticket bears the name that its country was asked for by.              *)
LEMMA CountryAnswered ==
    ASSUME LabelsTell, NEW o, NamedOptions(o, Served, Covered, CountryKeys),
           NEW u \in Covered, u.value \in ClearCountries,
           NativeOf(o.countries, u.value) \in Natives(Covered)
    PROVE  CountryOf(o, NativeOf(o.countries, u.value)) = u.value
<1> DEFINE sent == NativeOf(o.countries, u.value)
<1>1. /\ o.countries \in Seq(Covered) /\ Covered \in SUBSET Item
      /\ \A i \in 1..Len(o.countries) : o.countries[i] \in Covered
  BY NamedForGood DEF NamedOptions
<1>2. \/ \E i \in 1..Len(o.countries) : /\ o.countries[i].value = u.value
                                        /\ sent = o.countries[i].native
      \/ sent = u.value
  BY <1>1, NativeOfIs
<1>3. \/ \E i \in 1..Len(o.countries) : /\ o.countries[i].native = sent
                                        /\ CountryOf(o, sent) = o.countries[i].value
      \/ /\ \A i \in 1..Len(o.countries) : o.countries[i].native # sent
         /\ CountryOf(o, sent) = CountryName(sent, sent, Absent)
  BY <1>1, NameOfIs DEF CountryOf
<1>4. PICK v \in Covered : sent = v.native
  BY DEF Natives
<1>5. CountryName(u.value, u.value, Absent) = u.value
  BY NamedForGood DEF CountryKey
<1> HIDE DEF sent
<1> SUFFICES CountryOf(o, sent) = u.value
  BY DEF sent
<1>6. CASE \E i \in 1..Len(o.countries) : /\ o.countries[i].value = u.value
                                          /\ sent = o.countries[i].native
  BY <1>1, <1>3, <1>6, CountriesApart
<1>7. CASE sent = u.value
  <2>1. u.native = sent
    BY <1>4, <1>7, CountriesApart
  <2> QED BY <1>1, <1>3, <1>5, <1>7, <2>1, CountriesApart
<1> QED BY <1>2, <1>6, <1>7

(* And so does its price.                                                  *)
LEMMA PriceAnswered ==
    ASSUME LabelsTell, NEW o, NamedOptions(o, Served, Covered, CountryKeys),
           NEW i \in 1..Len(o.countries), o.countries[i].value \in ClearCountries
    PROVE  PriceCountry(o, o.countries[i].native) = o.countries[i].value
<1> DEFINE r == Reverse(o.countries)
           native == o.countries[i].native
           n == Len(o.countries)
<1>1. /\ o.countries \in Seq(Covered) /\ n \in Nat
      /\ \A j \in 1..n : o.countries[j] \in Covered
  BY DEF NamedOptions
<1>2. r = [j \in 1..n |-> o.countries[(n - j) + 1]]
  BY DEF Reverse
<1>3. \A j \in 1..n : (n - j) + 1 \in 1..n
  BY <1>1
<1> HIDE DEF n, r
<1>4. /\ r \in Seq(Covered) /\ Len(r) = n
      /\ \A j \in 1..n : r[j] \in Covered
  BY <1>1, <1>2, <1>3
<1>5. (n - ((n - i) + 1)) + 1 = i /\ (n - i) + 1 \in 1..n
  BY <1>1, <1>3 DEF n
<1>6. r[(n - i) + 1] = o.countries[i]
  BY <1>2, <1>5
<1>7. \/ \E j \in 1..Len(r) : /\ r[j].native = native
                              /\ PriceCountry(o, native) = r[j].value
      \/ \A j \in 1..Len(r) : r[j].native # native
  BY <1>4, NameOfIs DEF PriceCountry, r
<1>8. PICK j \in 1..n : r[j].native = native /\ PriceCountry(o, native) = r[j].value
  BY <1>4, <1>5, <1>6, <1>7
<1> QED BY <1>1, <1>4, <1>8, CountriesApart DEF n

-----------------------------------------------------------------------------
(* What the requests, the prices and the tickets bear, when the labels and *)
(* the words tell the names apart.                                         *)
ServiceWent(asked, copy, sent) ==
    /\ \A name \in ClearServices : asked = name => sent = Alias(ServiceSent(copy, name))
    /\ asked = Absent => sent \in {Alias(DefaultService),
                                  Alias(ServiceSent(copy, DefaultService))}

GoodCall(j) ==
    /\ j.step \in Kinds => ServiceWent(j.asked.service, j.copy, j.sent.service)
    /\ j.step = "acquire" =>
          \A name \in ClearCountries : WordOr(j.asked.country, DefaultCountry) = name =>
              j.sent.country = NativeOf(j.copy.countries, name)
    /\ j.step \in Kinds =>
          \A i \in 1..Len(j.copy.countries) :
              j.asked.country \in ClearCountries /\ j.copy.countries[i].value = j.asked.country =>
                  j.sent.country = j.copy.countries[i].native
    /\ j.step = "priced" => (j.listed /\ j.asked \in ClearCountries => j.country = j.asked)

GoodTicket(t) ==
    /\ t.asked.service \in ClearServices => t.service = t.asked.service
    /\ t.asked.country \in ClearCountries => t.country = t.asked.country

HeldApart == Held(Served, Covered, CountryKeys)

NamesApart ==
    /\ HeldApart
    /\ \A c \in Callers : GoodCall(call[c])
    /\ \A t \in tickets : GoodTicket(t)

(* Names stay as they are when they are made canonical.                    *)
LEMMA ClearNamesAre ==
    ASSUME LabelsTell
    PROVE  /\ \A name \in ClearServices :
                  /\ name # Absent /\ ServiceKey(name, name) = name
                  /\ \E u \in Served : u.value = name
           /\ \A name \in ClearCountries :
                  /\ name # Absent /\ CountryKey(name) = name
                  /\ \E u \in Covered : u.value = name
<1>1. ASSUME NEW name \in ClearServices
      PROVE  /\ name # Absent /\ ServiceKey(name, name) = name
             /\ \E u \in Served : u.value = name
  BY ClearServicesAre, NamedForGood, TablesAssumption DEF Item
<1>2. ASSUME NEW name \in ClearCountries
      PROVE  /\ name # Absent /\ CountryKey(name) = name
             /\ \E u \in Covered : u.value = name
  <2>1. PICK u \in Covered : u.value = name
    BY DEF ClearCountries
  <2> QED BY <2>1, NamedForGood, TablesAssumption DEF Item
<1> QED BY <1>1, <1>2

LEMMA OtherCallIsGood ==
    ASSUME NEW j, j.step \notin Kinds \cup {"priced"} PROVE GoodCall(j)
  BY DEF GoodCall, Kinds

(* A step of one caller that makes no ticket.                              *)
LEMMA CallsStayGood ==
    ASSUME NamesApart, HeldApart', NEW c \in Callers, NEW j, Waits(c, j), GoodCall(j),
           tickets' = tickets
    PROVE  NamesApart'
<1>1. call = [d \in Callers |-> call[d]]
  BY DEF NamesApart, HeldApart, Held
<1>2. \A d \in Callers : call'[d] = IF d = c THEN j ELSE call[d]
  BY <1>1 DEF Waits
<1> QED BY <1>2 DEF NamesApart

LEMMA AskedApart ==
    ASSUME LabelsTell, NamesApart, HeldApart', NEW c \in Callers, NEW kind \in Kinds,
           NEW request \in Requests, Ask(c, kind, request)
    PROVE  NamesApart'
<1> DEFINE sent == IF kind = "acquire" THEN Translated(request) ELSE PriceAsked(request)
           j == [step |-> kind, asked |-> request, copy |-> Copy,
                 loaded |-> loaded, sent |-> sent]
<1>1. NamedOptions(Copy, Served, Covered, CountryKeys) /\ catalogue \in Catalogues
  <2>1. Held(Served, Covered, CountryKeys)
    BY DEF NamesApart, HeldApart
  <2> QED BY <2>1, CopyIsNamed DEF Held
<1>2. ServiceWent(request.service, Copy, sent.service)
  <2>1. CASE kind = "acquire"
    <3>1. sent.service = IF request.service = Absent THEN Alias(DefaultService)
                         ELSE Alias(ServiceSent(Copy, ServiceKey(request.service, request.service)))
      BY <2>1 DEF Translated
    <3> HIDE DEF sent
    <3> QED BY <3>1, ClearNamesAre DEF ServiceWent
  <2>2. CASE kind # "acquire"
    <3>1. sent.service = Alias(ServiceSent(Copy, WordOr(request.service, DefaultService)))
      BY <2>2 DEF PriceAsked
    <3> HIDE DEF sent
    <3> QED BY <3>1, ClearNamesAre DEF ServiceWent, WordOr
  <2> QED BY <2>1, <2>2
<1>3. ASSUME kind = "acquire", NEW name \in ClearCountries,
             WordOr(request.country, DefaultCountry) = name
      PROVE  sent.country = NativeOf(Copy.countries, name)
  <2>1. sent.country = NativeOf(Copy.countries, IF request.country = Absent THEN DefaultCountry
                                               ELSE CountryKey(request.country))
    BY <1>3 DEF Translated
  <2>2. (IF request.country = Absent THEN DefaultCountry ELSE CountryKey(request.country)) = name
    BY <1>3, ClearNamesAre DEF WordOr
  <2> HIDE DEF sent
  <2> QED BY <2>1, <2>2
<1>4. ASSUME NEW i \in 1..Len(Copy.countries), request.country \in ClearCountries,
             Copy.countries[i].value = request.country
      PROVE  sent.country = Copy.countries[i].native
  <2>1. request.country # Absent
    BY <1>4, ClearNamesAre
  <2>2. CASE kind = "acquire"
    <3>1. WordOr(request.country, DefaultCountry) = request.country
      BY <2>1 DEF WordOr
    <3>2. NativeOf(Copy.countries, request.country) = Copy.countries[i].native
      BY <1>1, <1>4, CountryByName
    <3> HIDE DEF sent
    <3> QED BY <1>3, <1>4, <2>2, <3>1, <3>2
  <2>3. CASE kind # "acquire"
    <3>1. sent.country = CountryAsked(request.country)
      BY <2>1, <2>3 DEF PriceAsked
    <3>2. CountryAsked(Copy.countries[i].value) = Copy.countries[i].native
      BY <1>1, <1>4, CountryAskedIs
    <3> QED BY <1>4, <3>1, <3>2
  <2> QED BY <2>2, <2>3
<1> HIDE DEF sent
<1>5. /\ j.step = kind /\ j.asked = request /\ j.copy = Copy /\ j.sent = sent
  OBVIOUS
<1>6. Waits(c, j) /\ tickets' = tickets
  BY DEF Ask, sent
<1> HIDE DEF j
<1>7. GoodCall(j)
  BY <1>2, <1>3, <1>4, <1>5 DEF GoodCall, Kinds
<1> QED BY <1>6, <1>7, CallsStayGood

LEMMA AcquiredApart ==
    ASSUME LabelsTell, NamesApart, HeldApart', NEW c \in Callers, Acquired(c)
    PROVE  NamesApart'
<1> DEFINE sent == call[c].sent
           asked == call[c].asked
           o == call[c].copy
           t == Named(call[c])
           service == WordOr(asked.service, DefaultService)
           country == WordOr(asked.country, DefaultCountry)
<1>1. /\ Held(Served, Covered, CountryKeys)
      /\ Closed(Served, Covered, CountryKeys)
      /\ call[c].step = "acquire"
  BY NamedForGood DEF NamesApart, HeldApart, Acquired
<1>2. /\ Offers(Served, sent.service) /\ sent.country \in Natives(Covered)
      /\ NamedOptions(o, Served, Covered, CountryKeys)
  <2>1. /\ sent.service \in OfferedServices
        /\ sent.country \in OfferedCountries
        /\ catalogue \in Catalogues
    BY <1>1 DEF Acquired, Held
  <2> QED BY <1>1, <2>1, OfferedAre DEF Held, SoundCall, Kinds
<1>3. /\ ServiceWent(asked.service, o, sent.service)
      /\ \A name \in ClearCountries : country = name => sent.country = NativeOf(o.countries, name)
  BY <1>1 DEF NamesApart, GoodCall, Kinds
<1>4. /\ t.asked.service = service /\ t.asked.country = country
      /\ t.service = ServiceOf(o, sent.service) /\ t.country = CountryOf(o, sent.country)
  BY DEF Named, TicketOf
<1>5. Waits(c, NoCall) /\ tickets' = tickets \cup {t}
  BY DEF Acquired
<1>w. service = IF asked.service = Absent THEN DefaultService ELSE asked.service
  BY DEF WordOr
<1> HIDE DEF sent, asked, o, t, service, country
<1>6. ASSUME service \in ClearServices PROVE t.service = service
  <2>1. PICK u \in Served : u.value = service
    BY <1>6, ClearNamesAre
  <2>2. \/ sent.service = Alias(ServiceSent(o, u.value)) \/ sent.service = Alias(u.value)
    BY <1>3, <1>6, <1>w, <2>1, ClearNamesAre DEF ServiceWent
  <2>3. sent.service = Alias(u.value) \/ ByList(o, u, sent.service)
    BY <1>2, <1>6, <2>1, <2>2, ServiceSentIs DEF ByAlias
  <2> QED BY <1>2, <1>4, <1>6, <2>1, <2>3, ServiceAnswered
<1>7. ASSUME country \in ClearCountries PROVE t.country = country
  <2>1. PICK u \in Covered : u.value = country
    BY <1>7, ClearNamesAre
  <2> QED BY <1>2, <1>3, <1>4, <1>7, <2>1, CountryAnswered
<1>8. GoodTicket(t)
  BY <1>4, <1>6, <1>7 DEF GoodTicket
<1>9. \A d \in Callers : call'[d] = IF d = c THEN NoCall ELSE call[d]
  BY <1>1, <1>5 DEF Held, Waits
<1>10. GoodCall(NoCall)
  BY OtherCallIsGood DEF NoCall, Kinds
<1> QED BY <1>5, <1>8, <1>9, <1>10 DEF NamesApart

LEMMA PricedApart ==
    ASSUME LabelsTell, NamesApart, HeldApart', NEW c \in Callers, Priced(c)
    PROVE  NamesApart'
<1> DEFINE o == call[c].copy
           asked == call[c].asked.country
           sent == call[c].sent.country
<1>1. call[c].step = "prices"
  BY DEF Priced
<1>2. PICK native \in OfferedCountries :
          /\ sent \in {Absent, native}
          /\ Waits(c, [step |-> "priced", asked |-> asked,
                    listed |-> asked \in Values(o.countries),
                    country |-> PriceCountry(o, native),
                    operators |-> {PriceOperator(o, p) : p \in Listing(OperatorsOf(native))}])
  BY DEF Priced
<1> DEFINE j == [step |-> "priced", asked |-> asked,
                 listed |-> asked \in Values(o.countries),
                 country |-> PriceCountry(o, native),
                 operators |-> {PriceOperator(o, p) : p \in Listing(OperatorsOf(native))}]
<1>3. /\ NamedOptions(o, Served, Covered, CountryKeys)
      /\ \A i \in 1..Len(o.countries) :
            asked \in ClearCountries /\ o.countries[i].value = asked =>
                sent = o.countries[i].native
  BY <1>1 DEF NamesApart, HeldApart, Held, SoundCall, GoodCall, Kinds
<1>4. /\ j.step = "priced" /\ j.asked = asked /\ j.country = PriceCountry(o, native)
      /\ j.listed <=> asked \in Values(o.countries)
  OBVIOUS
<1>5. Waits(c, j) /\ tickets' = tickets
  BY <1>2 DEF Priced
<1> HIDE DEF o, asked, sent, j
<1>6. ASSUME asked \in Values(o.countries), asked \in ClearCountries
      PROVE  PriceCountry(o, native) = asked
  <2>1. PICK i \in 1..Len(o.countries) : o.countries[i].value = asked
    BY <1>3, <1>6 DEF Values, NamedOptions
  <2>2. sent = o.countries[i].native /\ o.countries[i] \in Covered
    BY <1>3, <1>6, <2>1, CountryByName
  <2>3. sent # Absent
    BY <2>2, NamedForGood, TablesAssumption DEF Item
  <2> QED BY <1>2, <1>3, <1>6, <2>1, <2>2, <2>3, PriceAnswered
<1>7. GoodCall(j)
  BY <1>4, <1>6 DEF GoodCall, Kinds
<1> QED BY <1>5, <1>7, CallsStayGood

LEMMA RestartApart ==
    ASSUME LabelsTell, NamesApart, HeldApart', RestartNamed
    PROVE  NamesApart'
<1>1. /\ call' = [c \in Callers |-> NoCall]
      /\ tickets' = {Renamed(t) : t \in tickets}
  BY DEF RestartNamed
<1>2. GoodCall(NoCall)
  BY OtherCallIsGood DEF NoCall, Kinds
<1>3. ASSUME NEW t \in tickets PROVE GoodTicket(Renamed(t))
  <2>1. SoundTicket(t) /\ GoodTicket(t)
    BY DEF NamesApart, HeldApart, Held
  <2>2. /\ Renamed(t).asked = t.asked
        /\ Renamed(t).service = ServiceKey(t.service, t.service)
        /\ Renamed(t).country = CountryKey(t.country)
    BY <2>1, RenamedIs
  <2> QED BY <2>1, <2>2, ClearNamesAre DEF GoodTicket
<1>4. \A t \in tickets' : GoodTicket(t)
  BY <1>1, <1>3
<1>5. \A c \in Callers : GoodCall(call'[c])
  BY <1>1, <1>2
<1> QED BY <1>4, <1>5 DEF NamesApart

(* Every other step leaves requests and tickets alone.                     *)
LEMMA StepApart ==
    ASSUME LabelsTell, NamesApart, [NamesNext]_namesVars
    PROVE  NamesApart'
<1>1. HeldApart'
  <2>1. Held(Served, Covered, CountryKeys)'
    BY NamedForGood, StepHolds DEF NamesApart, HeldApart
  <2> QED BY <2>1 DEF HeldApart
<1>2. CASE UNCHANGED <<call, tickets>>
  BY <1>1, <1>2 DEF NamesApart
<1>3. ASSUME NEW c \in Callers, NEW j, Waits(c, j), j.step \notin Kinds \cup {"priced"},
             tickets' = tickets
      PROVE  NamesApart'
  BY <1>1, <1>3, OtherCallIsGood, CallsStayGood
<1>4. NoCall.step \notin Kinds \cup {"priced"}
  BY DEF NoCall, Kinds
<1>5. CASE \E c \in Callers : Refresh(c) \/ Put(c) \/ SaveEntry(c) \/ PutOperators(c)
                              \/ Told(c) \/ Refused(c)
  <2>1. PICK c \in Callers : Refresh(c) \/ Put(c) \/ SaveEntry(c) \/ PutOperators(c)
                             \/ Told(c) \/ Refused(c)
    BY <1>5
  <2>2. tickets' = tickets
    BY <2>1 DEF Refresh, Put, SaveEntry, PutOperators, Told, Refused
  <2>3. CASE Refresh(c)
    <3> DEFINE j == [step |-> "put", options |-> Discovered]
    <3>1. Waits(c, j) /\ j.step = "put"
      BY <2>3 DEF Refresh
    <3> HIDE DEF j
    <3> QED BY <1>3, <2>2, <3>1 DEF Kinds
  <2>4. CASE Put(c)
    <3> DEFINE j == [step |-> "save", options |-> call[c].options]
    <3>1. Waits(c, j) /\ j.step = "save"
      BY <2>4 DEF Put
    <3> HIDE DEF j
    <3> QED BY <1>3, <2>2, <3>1 DEF Kinds
  <2>5. CASE PutOperators(c)
    <3> DEFINE o == WithOperators(cache, call[c].key, OperatorsOf(call[c].country))
               j == [step |-> "save", options |-> o]
    <3>1. Waits(c, j) \/ Waits(c, NoCall)
      BY <2>5 DEF PutOperators
    <3>2. j.step = "save"
      OBVIOUS
    <3> HIDE DEF j
    <3> QED BY <1>3, <1>4, <2>2, <3>1, <3>2 DEF Kinds
  <2>6. CASE SaveEntry(c) \/ Told(c) \/ Refused(c)
    <3>1. Waits(c, NoCall)
      BY <2>6 DEF SaveEntry, Told, Refused
    <3> QED BY <1>3, <1>4, <2>2, <3>1
  <2> QED BY <2>1, <2>3, <2>4, <2>5, <2>6
<1>6. CASE \E c \in Callers, country \in Countries : ListOperators(c, country)
  <2>1. PICK c \in Callers, country \in Countries : ListOperators(c, country)
    BY <1>6
  <2> DEFINE j == [step |-> "operators", key |-> CountryKey(country),
                   country |-> CountryAsked(country)]
  <2>2. Waits(c, j) /\ j.step = "operators" /\ tickets' = tickets
    BY <2>1 DEF ListOperators
  <2> HIDE DEF j
  <2> QED BY <1>3, <2>2 DEF Kinds
<1>7. CASE UNCHANGED namesVars \/ Relist \/ \E key : Expire(key)
  <2>1. UNCHANGED <<call, tickets>>
    BY <1>7 DEF namesVars, Relist, Expire
  <2> QED BY <1>2, <2>1
<1> QED BY <1>1, <1>5, <1>6, <1>7, AskedApart, AcquiredApart, PricedApart, RestartApart
        DEF NamesNext

LEMMA InitApart == NamesInit => NamesApart
<1> SUFFICES ASSUME NamesInit PROVE NamesApart
  OBVIOUS
<1>1. HeldApart
  BY InitHeld DEF HeldApart
<1>2. GoodCall(NoCall)
  BY OtherCallIsGood DEF NoCall, Kinds
<1> QED BY <1>1, <1>2 DEF NamesInit, NamesApart

(* When the labels of the tables lead to their names, what is listed is    *)
(* what is asked for (translate_acquire_request, service.rs:4717, and      *)
(* get_prices, service.rs:2695): the word that is sent for a service or a  *)
(* country whose words tell it from the others is the one the options list *)
(* for that name, however the provider renamed it and whoever refreshed    *)
(* the options, as long as these are those of a refresh since the start.   *)
THEOREM ListedIsSent == LabelsTell => (NamesSpec => []SentAsListed)
<1> SUFFICES ASSUME LabelsTell PROVE NamesSpec => []SentAsListed
  OBVIOUS
<1>1. NamesApart => SentAsListed
  <2> SUFFICES ASSUME NamesApart, NEW c \in Asking, ~call[c].loaded
               PROVE  AsListed(c, ClearServices, ClearCountries)
    BY DEF SentAsListed
  <2> DEFINE o == call[c].copy
             asked == call[c].asked
             sent == call[c].sent
  <2>1. /\ NamedOptions(o, Served, Covered, CountryKeys) /\ OwnWords(o, Served)
        /\ ServiceWent(asked.service, o, sent.service)
        /\ \A i \in 1..Len(o.countries) :
              asked.country \in ClearCountries /\ o.countries[i].value = asked.country =>
                  sent.country = o.countries[i].native
    BY DEF NamesApart, HeldApart, Held, SoundCall, GoodCall, Asking
  <2> HIDE DEF o, asked, sent
  <2>2. DOMAIN o.services = 1..Len(o.services) /\ DOMAIN o.countries = 1..Len(o.countries)
    BY <2>1 DEF NamedOptions
  <2>3. ASSUME asked.service \in ClearServices,
               NEW i \in 1..Len(o.services), o.services[i].value = asked.service
        PROVE  sent.service = WordOf(o.services[i])
    BY <2>1, <2>3, ServiceSentAsListed DEF ServiceWent
  <2> QED BY <2>1, <2>2, <2>3 DEF AsListed, o, asked, sent
<1>2. NamesApart /\ [NamesNext]_namesVars => NamesApart'
  BY StepApart
<1> QED BY <1>1, <1>2, InitApart, PTL DEF NamesSpec

(* An answer bears the names it was asked for by, if their words tell them *)
(* from the others: a ticket keeps them, whichever options were cached     *)
(* when the provider answered and through restarts                         *)
(* (normalize_ticket_record, options.rs:405), and the prices of a country  *)
(* bear its name (normalize_price_items, options.rs:362).                  *)
THEOREM NamesComeBack == LabelsTell => (NamesSpec => []AnswersBearTheNames)
<1> SUFFICES ASSUME LabelsTell PROVE NamesSpec => []AnswersBearTheNames
  OBVIOUS
<1>1. NamesApart => AnswersBearTheNames
  BY DEF NamesApart, GoodTicket, GoodCall, AnswersBearTheNames
<1>2. NamesApart /\ [NamesNext]_namesVars => NamesApart'
  BY StepApart
<1> QED BY <1>1, <1>2, InitApart, PTL DEF NamesSpec
=============================================================================
