---------------------------- MODULE ReleaseOwner ----------------------------
(***************************************************************************)
(* The release-owner lease: the single row of the `release_owner` table    *)
(* through which one auto-release pass at a time is admitted.              *)
(*                                                                         *)
(* Every pass of maybe_process_pending_releases reads the clock, invents a *)
(* fresh owner id, asks for the lease, works through the due tickets -     *)
(* possibly for longer than LeaseLen: there is no renewal - and deletes    *)
(* the row if it is still its own. Hosts are the processes that open the   *)
(* same runtime.db; a host that crashes leaves its row behind.             *)
(***************************************************************************)
EXTENDS Naturals

CONSTANTS Hosts,      \* processes that share the runtime database
          LeaseLen,   \* AUTO_RELEASE_OWNER_LEASE_SEC, in clock ticks
          MaxTime,    \* bound of the clock in the model-checked instances
          MaxPasses   \* bound of the number of owner ids handed out

ASSUME LeaseAssumption == LeaseLen \in Nat \ {0}
ASSUME BoundAssumption == MaxTime \in Nat /\ MaxPasses \in Nat

VARIABLES now,    \* the wall clock every host reads
          row,    \* the release_owner row
          pass,   \* host -> the pass it is running
          ids     \* number of owner ids handed out so far

leaseVars == <<now, row, pass, ids>>

(* Owner ids are numbered in the order in which they are drawn; 0 stands   *)
(* for "no row" and "no pass".                                             *)
NoRow  == [owner |-> 0, expires |-> 0]
NoPass == [pc |-> "idle", owner |-> 0, at |-> 0]

(* Defect: the lease is granted while it runs, and refused when it is      *)
(* over.                                                                   *)
GrantedBeforeExpiry(r, owner, t) == r.owner = 0 \/ r.expires >= t \/ r.owner = owner

(* What acquire_release_owner asks of the row: absent, expired or one's own. *)
Granted(r, owner, t) == r.owner = 0 \/ r.expires <= t \/ r.owner = owner

Lease(owner, t) == [owner |-> owner, expires |-> t + LeaseLen]

-----------------------------------------------------------------------------
LeaseInit ==
    /\ now = 0
    /\ row = NoRow
    /\ pass = [h \in Hosts |-> NoPass]
    /\ ids = 0

(* The pass starts: it reads the clock and draws its owner id. Both are    *)
(* used later, when the database call gets its turn.                       *)
BeginPass(h) ==
    /\ pass[h] = NoPass
    /\ ids < MaxPasses
    /\ ids' = ids + 1
    /\ pass' = [pass EXCEPT ![h] = [pc |-> "asking", owner |-> ids + 1, at |-> now]]
    /\ UNCHANGED <<now, row>>

(* try_acquire_release_owner, evaluated against the clock read in BeginPass: a *)
(* refused pass returns at once, and so does one whose database call fails. *)
Ask(h) ==
    /\ pass[h].pc = "asking"
    /\ \/ /\ Granted(row, pass[h].owner, pass[h].at)
          /\ row' = Lease(pass[h].owner, pass[h].at)
          /\ pass' = [pass EXCEPT ![h].pc = "inside"]
       \/ /\ pass' = [pass EXCEPT ![h] = NoPass]
          /\ UNCHANGED row
    /\ UNCHANGED <<now, ids>>

(* Defect: the row is deleted whoever owns it.                             *)
ReleaseAnyRow(h) ==
    /\ pass[h].pc = "inside"
    /\ pass' = [pass EXCEPT ![h] = NoPass]
    /\ row' = NoRow
    /\ UNCHANGED <<now, ids>>

(* release_release_owner_quietly at the end of the pass: the row goes only *)
(* if it still carries this pass's id. A failing delete is ignored.        *)
Release(h) ==
    /\ pass[h].pc = "inside"
    /\ pass' = [pass EXCEPT ![h] = NoPass]
    /\ \/ row' = IF row.owner = pass[h].owner THEN NoRow ELSE row
       \/ UNCHANGED row
    /\ UNCHANGED <<now, ids>>

(* The process dies in the middle of a pass and is started again.          *)
Crash(h) ==
    /\ pass[h] # NoPass
    /\ pass' = [pass EXCEPT ![h] = NoPass]
    /\ UNCHANGED <<now, row, ids>>

Tick ==
    /\ now < MaxTime
    /\ now' = now + 1
    /\ UNCHANGED <<row, pass, ids>>

LeaseNext ==
    \/ \E h \in Hosts : BeginPass(h) \/ Ask(h) \/ Release(h) \/ Crash(h)
    \/ Tick

LeaseSpec == LeaseInit /\ [][LeaseNext]_leaseVars

-----------------------------------------------------------------------------
LeaseTypeOK ==
    /\ now \in Nat
    /\ row \in [owner : Nat, expires : Nat]
    /\ pass \in [Hosts -> [pc : {"idle", "asking", "inside"}, owner : Nat, at : Nat]]
    /\ ids \in Nat

(* A pass is covered while it works and has not outlived its lease.        *)
Covered(h) == pass[h].pc = "inside" /\ now < pass[h].at + LeaseLen

(* Two hosts are never covered at the same time, whatever crashed, overran *)
(* its lease or acted on an old clock reading (acquire_release_owner).     *)
LeaseExclusion ==
    \A g, h \in Hosts : Covered(g) /\ Covered(h) => g = h

(* A pass that ends, however late, never takes away the lease of another   *)
(* pass that is still covered: the delete names the owner id               *)
(* (release_release_owner).                                                *)
CoverNeverStolen ==
    [][\A h \in Hosts :
         Covered(h) /\ pass'[h] = pass[h] => row'.owner = pass[h].owner]_leaseVars
=============================================================================
