------------------------------ MODULE Pairing ------------------------------
(***************************************************************************)
(* Device pairing: DefaultPairingService and DefaultAuthorizer over the    *)
(* FilePairingStore they share. The service runs one call at a time        *)
(* (net/state.rs keeps it behind a RwLock), a call makes several store     *)
(* calls, and each store call loads the file, edits it and writes it back  *)
(* with write_file_atomically, whose fallback removes the file before it   *)
(* renames the new one. The authorizer reads the file at any time. A load  *)
(* that fails counts as an empty file. The process may be killed anywhere. *)
(*                                                                         *)
(* A device name and type are left out: a record says for which request it *)
(* was made. A device id stands for the bearer token made with it.         *)
(***************************************************************************)
EXTENDS Integers, FiniteSets

CONSTANTS
  Ids,      \* pairing ids (random, never made twice); bounds the requests
  Codes,    \* six digit codes, which may coincide
  Devices,  \* device ids and their tokens (random, never made twice)
  TTL,      \* DEFAULT_PAIRING_TTL_MS
  MaxTime   \* bound: the clock stops there

ASSUME PairingAssumption ==
  /\ TTL \in Int /\ MaxTime \in Nat
  /\ "none" \notin Ids \cup Codes \cup Devices

VARIABLES
  file,      \* pairings.json; a missing file is an empty one
  save,      \* the store call in progress, or its result
  claims,    \* approved_claims
  rejected,  \* rejected_claims
  call,      \* the service call in progress
  now,       \* the clock
  made,      \* the requests' codes and the devices made so far
  told       \* what the callers were answered, and mishaps (history)

vars == <<file, save, claims, rejected, call, now, made, told>>

Requests == [id : Ids, code : Codes, at : 0 .. MaxTime]
Records  == [dev : Devices, for : Ids]
Snapshots == [pending : SUBSET Requests, approved : SUBSET Records]
Empty    == [pending |-> {}, approved |-> {}]
NoClaim  == [code |-> "none", dev |-> "none"]
NoSave   == [st |-> "none", new |-> Empty, misread |-> FALSE]
Idle     == [op |-> "idle", stage |-> "none", id |-> "none", code |-> "none",
             at |-> 0, seen |-> {}, todo |-> {}, dev |-> "none"]

Statuses == {"Pending", "Approved", "Rejected", "Expired"}

TypeOK ==
  /\ file \in Snapshots
  /\ save \in [st : {"none", "writing", "removed", "ok", "failed"},
               new : Snapshots, misread : BOOLEAN]
  /\ claims \in [Ids -> [code : Codes, dev : Devices] \cup {NoClaim}]
  /\ rejected \subseteq Ids
  /\ call \in [op : {"idle", "start", "approve", "reject"},
               stage : {"none", "purge", "request", "grant", "unpend", "rollback", "unlist"},
               id : Ids \cup {"none"}, code : Codes \cup {"none"}, at : 0 .. MaxTime,
               seen : SUBSET Requests, todo : SUBSET Ids, dev : Devices \cup {"none"}]
  /\ now \in 0 .. MaxTime
  /\ made \in [code : [Ids -> Codes \cup {"none"}], devs : SUBSET Devices]
  /\ told \in [granted : SUBSET Devices, denied : SUBSET Ids,
               status : [Ids -> Statuses \cup {"none"}],
               orphaned : SUBSET Devices, wiped : BOOLEAN]

Init ==
  /\ file = Empty /\ save = NoSave
  /\ claims = [i \in Ids |-> NoClaim] /\ rejected = {}
  /\ call = Idle /\ now = 0
  /\ made = [code |-> [i \in Ids |-> "none"], devs |-> {}]
  /\ told = [granted |-> {}, denied |-> {}, status |-> [i \in Ids |-> "none"],
             orphaned |-> {}, wiped |-> FALSE]

-----------------------------------------------------------------------------
(* The store.                                                              *)

\* load_snapshot: a file that can not be read or parsed is taken for empty.
Loads == {file, Empty}

\* A store call that has something to save starts to write it ...
Write(load, new) ==
  save' = [st |-> "writing", new |-> new, misread |-> load # file]
\* ... and one that finds nothing to remove returns false at once.
Return(ok) == save' = [NoSave EXCEPT !.st = IF ok THEN "ok" ELSE "failed"]

UpsertPending(req) ==
  \E load \in Loads :
    Write(load, [load EXCEPT !.pending = {p \in @ : p.id # req.id} \cup {req}])

\* (mutant) the record replaces the ones before it
UpsertApprovedAlone(rec) ==
  \E load \in Loads : Write(load, [load EXCEPT !.approved = {rec}])
UpsertApproved(rec) ==
  \E load \in Loads :
    Write(load, [load EXCEPT !.approved = {r \in @ : r.dev # rec.dev} \cup {rec}])

RemovePending(i) ==
  \E load \in Loads :
    IF \E p \in load.pending : p.id = i
      THEN Write(load, [load EXCEPT !.pending = {p \in @ : p.id # i}])
      ELSE Return(FALSE)

RemoveApproved(d) ==
  \E load \in Loads :
    IF \E r \in load.approved : r.dev = d
      THEN Write(load, [load EXCEPT !.approved = {r \in @ : r.dev # d}])
      ELSE Return(FALSE)

\* write_file_atomically: the rename puts the new file in place ...
SaveRenames ==
  /\ save.st \in {"writing", "removed"}
  /\ file' = save.new /\ Return(TRUE)
  /\ told' = [told EXCEPT !.wiped = @ \/ save.misread]
  /\ UNCHANGED <<claims, rejected, call, now, made>>
\* ... or it fails, and the old file is removed before another try ...
SaveRemoves ==
  /\ save.st = "writing"
  /\ file' = Empty /\ save' = [save EXCEPT !.st = "removed"]
  /\ UNCHANGED <<claims, rejected, call, now, made, told>>
\* ... or the call gives up, with the old file in place or without it.
SaveFails ==
  /\ save.st \in {"writing", "removed"}
  /\ Return(FALSE)
  /\ told' = [told EXCEPT !.wiped = @ \/ save.st = "removed"]
  /\ UNCHANGED <<file, claims, rejected, call, now, made>>

-----------------------------------------------------------------------------
(* The service.                                                            *)

\* is_expired, for a request and a time.
IsExpired(req, t) == TTL > 0 /\ req.at + TTL < t

\* At which stage of its call the service is, and has the store returned?
At(stage) == call.stage = stage /\ save.st = "none"
Back(stage) == call.stage = stage /\ save.st \in {"ok", "failed"}
Done == call' = Idle /\ save' = NoSave

StartPairing ==
  /\ call = Idle
  /\ \E load \in Loads :
       call' = [Idle EXCEPT !.op = "start", !.stage = "purge", !.at = now,
                            !.todo = {p.id : p \in {q \in load.pending : IsExpired(q, now)}}]
  /\ UNCHANGED <<file, save, claims, rejected, now, made, told>>

ApprovePairing(i, code) ==
  /\ call = Idle
  /\ \E load \in Loads :
       call' = [Idle EXCEPT !.op = "approve", !.stage = "purge", !.at = now,
                            !.id = i, !.code = code, !.seen = load.pending,
                            !.todo = {p.id : p \in {q \in load.pending : IsExpired(q, now)}}]
  /\ UNCHANGED <<file, save, claims, rejected, now, made, told>>

RejectPairing(i) ==
  /\ call = Idle
  /\ claims' = [claims EXCEPT ![i] = NoClaim]
  /\ rejected' = rejected \cup {i}
  /\ call' = [Idle EXCEPT !.op = "reject", !.stage = "unlist", !.id = i]
  /\ UNCHANGED <<file, save, now, made, told>>

\* Expired requests are removed one by one; whether that worked is ignored.
Purge(i) ==
  /\ At("purge") /\ i \in call.todo
  /\ RemovePending(i)
  /\ call' = [call EXCEPT !.todo = @ \ {i}]
  /\ UNCHANGED <<file, claims, rejected, now, made, told>>
PurgeReturns ==
  /\ Back("purge")
  /\ save' = NoSave
  /\ UNCHANGED <<file, claims, rejected, call, now, made, told>>

\* start_pairing makes the request and stores it.
Request(i, code) ==
  /\ At("purge") /\ call.op = "start" /\ call.todo = {} /\ made.code[i] = "none"
  /\ UpsertPending([id |-> i, code |-> code, at |-> call.at])
  /\ call' = [call EXCEPT !.stage = "request", !.id = i]
  /\ made' = [made EXCEPT !.code[i] = code]
  /\ UNCHANGED <<file, claims, rejected, now, told>>
RequestReturns ==
  /\ Back("request") /\ Done
  /\ UNCHANGED <<file, claims, rejected, now, made, told>>

\* approve_pairing looks the request up in what it loaded at the beginning.
\* (mutant) whether it has expired is left to the purge
ApprovableLate(p) == p.id = call.id /\ p.code = call.code
Approvable(p) == p.id = call.id /\ ~IsExpired(p, call.at) /\ p.code = call.code

\* (mutant) the record is not kept for the claim
GrantForgets(d) ==
  /\ At("purge") /\ call.op = "approve" /\ call.todo = {}
  /\ \E p \in call.seen : Approvable(p)
  /\ d \notin made.devs
  /\ UpsertApproved([dev |-> d, for |-> call.id])
  /\ call' = [call EXCEPT !.stage = "grant"]
  /\ made' = [made EXCEPT !.devs = @ \cup {d}]
  /\ UNCHANGED <<file, claims, rejected, now, told>>
Grant(d) ==
  /\ At("purge") /\ call.op = "approve" /\ call.todo = {}
  /\ \E p \in call.seen : Approvable(p)
  /\ d \notin made.devs
  /\ UpsertApproved([dev |-> d, for |-> call.id])
  /\ call' = [call EXCEPT !.stage = "grant", !.dev = d]
  /\ made' = [made EXCEPT !.devs = @ \cup {d}]
  /\ UNCHANGED <<file, claims, rejected, now, told>>
NothingToApprove ==
  /\ At("purge") /\ call.op = "approve" /\ call.todo = {}
  /\ ~\E p \in call.seen : Approvable(p)
  /\ Done
  /\ UNCHANGED <<file, claims, rejected, now, made, told>>

GrantReturns ==
  /\ Back("grant")
  /\ IF save.st = "ok" THEN call' = [call EXCEPT !.stage = "unpend"] /\ save' = NoSave
                       ELSE Done
  /\ UNCHANGED <<file, claims, rejected, now, made, told>>

Unpend ==
  /\ At("unpend") /\ RemovePending(call.id)
  /\ UNCHANGED <<file, claims, rejected, call, now, made, told>>

\* (mutant) a request that can not be removed is approved all the same
UnpendReturnsAlways ==
  /\ Back("unpend")
  /\ claims' = [claims EXCEPT ![call.id] = [code |-> call.code, dev |-> call.dev]]
  /\ rejected' = rejected \ {call.id}
  /\ told' = [told EXCEPT !.granted = @ \cup {call.dev}]
  /\ Done
  /\ UNCHANGED <<file, now, made>>
UnpendReturns ==
  /\ Back("unpend")
  /\ \/ /\ save.st = "ok"
        /\ claims' = [claims EXCEPT ![call.id] = [code |-> call.code, dev |-> call.dev]]
        /\ rejected' = rejected \ {call.id}
        /\ told' = [told EXCEPT !.granted = @ \cup {call.dev}]
        /\ Done
     \/ /\ save.st = "failed"
        /\ call' = [call EXCEPT !.stage = "rollback"] /\ save' = NoSave
        /\ UNCHANGED <<claims, rejected, told>>
  /\ UNCHANGED <<file, now, made>>

\* (mutant) no rollback
RollbackNever ==
  /\ At("rollback") /\ Return(TRUE)
  /\ UNCHANGED <<file, claims, rejected, call, now, made, told>>
Rollback ==
  /\ At("rollback") /\ RemoveApproved(call.dev)
  /\ UNCHANGED <<file, claims, rejected, call, now, made, told>>
RollbackReturns ==
  /\ Back("rollback") /\ Done
  /\ told' = [told EXCEPT !.orphaned = @ \cup {d \in {call.dev} : save.st = "failed"}]
  /\ UNCHANGED <<file, claims, rejected, now, made>>

\* (mutant) a rejected request stays in the file
UnlistNever ==
  /\ At("unlist") /\ Return(TRUE)
  /\ UNCHANGED <<file, claims, rejected, call, now, made, told>>
Unlist ==
  /\ At("unlist") /\ RemovePending(call.id)
  /\ UNCHANGED <<file, claims, rejected, call, now, made, told>>
UnlistReturns ==
  /\ Back("unlist") /\ Done
  /\ told' = [told EXCEPT !.denied = @ \cup {i \in {call.id} : save.st = "ok"}]
  /\ UNCHANGED <<file, claims, rejected, now, made>>

-----------------------------------------------------------------------------
(* Queries.                                                                *)

\* get_pairing_claim_status, on a load of the file.
StatusOf(i, code, load) ==
  LET mine == {p \in load.pending : p.id = i}
  IN CASE claims[i] # NoClaim -> IF claims[i].code = code THEN "Approved" ELSE "Rejected"
       [] claims[i] = NoClaim /\ i \in rejected -> "Rejected"
       [] OTHER -> IF mine = {} THEN "Rejected"
                   ELSE IF \E p \in mine : IsExpired(p, now) THEN "Expired"
                   ELSE IF \E p \in mine : p.code = code THEN "Pending" ELSE "Rejected"

\* The device that made the request asks, with the code it was given. Callers
\* wait for the lock, so no call is in progress.
QueryStatus(i) ==
  /\ call = Idle /\ made.code[i] # "none"
  /\ \E load \in Loads :
       told' = [told EXCEPT !.status[i] = StatusOf(i, made.code[i], load)]
  /\ UNCHANGED <<file, save, claims, rejected, call, now, made>>

\* authenticate_bearer_token, when the file can be read.
Authenticates(d) == \E r \in file.approved : r.dev = d

-----------------------------------------------------------------------------
Tick ==
  /\ now < MaxTime /\ now' = now + 1
  /\ UNCHANGED <<file, save, claims, rejected, call, made, told>>

\* The process is killed and started again: the file is all that is left.
Crash ==
  /\ claims' = [i \in Ids |-> NoClaim] /\ rejected' = {}
  /\ call' = Idle /\ save' = NoSave
  /\ told' = [told EXCEPT !.wiped = @ \/ save.st = "removed",
                          !.orphaned = @ \cup {d \in {call.dev} : d # "none"}]
  /\ UNCHANGED <<file, now, made>>

Next ==
  \/ StartPairing \/ PurgeReturns \/ RequestReturns \/ NothingToApprove
  \/ GrantReturns \/ Unpend \/ UnpendReturns \/ Rollback \/ RollbackReturns
  \/ Unlist \/ UnlistReturns
  \/ SaveRenames \/ SaveRemoves \/ SaveFails \/ Tick \/ Crash
  \/ \E i \in Ids :
       \/ RejectPairing(i) \/ Purge(i) \/ QueryStatus(i)
       \/ \E code \in Codes : ApprovePairing(i, code) \/ Request(i, code)
  \/ \E d \in Devices : Grant(d)

Spec == Init /\ [][Next]_vars

-----------------------------------------------------------------------------
(* Properties.                                                             *)

\* Every token that authenticates was handed out by an approve_pairing that
\* succeeded, or belongs to one that is running, was killed, or failed to
\* roll back: nothing else leaves a token behind.
TokenHasOwner ==
  \A r \in file.approved : r.dev \in told.granted \cup told.orphaned \cup {call.dev}

\* A token that was handed out authenticates from then on, across crashes and
\* failed writes, unless the file was overwritten after a failed load or was
\* lost between the removal and the rename of write_file_atomically.
GrantedStaysValid ==
  ~told.wiped => \A d \in told.granted : Authenticates(d) \/ save.st = "removed"

\* A request is granted one token at most, whatever fails and is retried.
OneTokenPerRequest ==
  \A r1, r2 \in file.approved :
    r1.for = r2.for /\ {r1.dev, r2.dev} \subseteq told.granted => r1 = r2

\* No request has a token in the file that an approve_pairing answered with and
\* was rejected by a reject_pairing that returned true. One that returned false,
\* after the request was gone or could not be removed, is not counted.
GrantedOrDenied ==
  \A r \in file.approved : r.dev \in told.granted => r.for \notin told.denied

\* Of the answers get_pairing_claim_status gave for a request, Expired is never
\* followed by Pending or Approved, nor Approved by Pending or Expired. Rejected
\* is left free: it also answers a load that failed and a lost claim.
StatusSettles ==
  [][\A i \in Ids :
       /\ told.status[i] = "Expired" => told'.status[i] \notin {"Pending", "Approved"}
       /\ told.status[i] = "Approved" => told'.status[i] \notin {"Pending", "Expired"}]_vars
=============================================================================
