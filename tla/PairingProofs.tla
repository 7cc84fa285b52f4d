--------------------------- MODULE PairingProofs ---------------------------
(***************************************************************************)
(* Proofs about device pairing, for any number of requests, codes, tokens  *)
(* and any clock, under every failing read, failing write and crash: who   *)
(* owns a token, how long it is valid, that a request is settled once, and *)
(* that answers do not go back.                                            *)
(*                                                                         *)
(* The four properties are about the file; none is inductive, because the  *)
(* file is about to become what the store call in progress has in hand     *)
(* (save.new), and because a call relies on what it saw or did before. The *)
(* invariants below therefore speak of all records and requests that are   *)
(* on disk or on their way there, and of the stage of the call.            *)
(***************************************************************************)
EXTENDS Pairing, TLAPS

\* What is in the file or in the hands of the store.
Recs == file.approved \cup save.new.approved
Pend == file.pending \cup save.new.pending
Granted(r) == r.dev \in told.granted

Writing == save.st \in {"writing", "removed"}
\* The call has made a token, and nobody knows yet what becomes of it.
Holding == call.stage \in {"grant", "unpend", "rollback"}

\* What a call knows at its stages.
CallShape ==
  /\ call.stage = "none" <=> call = Idle
  /\ call = Idle => save.st = "none"
  /\ ~Writing => save.new = Empty /\ ~save.misread
  /\ call.stage \in {"request", "grant"} => save.st # "none"
  /\ call.stage \in {"request", "unlist"} => call.id \in Ids
  /\ call.op = "approve" => call.id \in Ids /\ call.code \in Codes
  /\ call.op # "approve" => call.seen = {}
  /\ Holding => call.op = "approve" /\ call.dev \in Devices
                  /\ \E p \in call.seen : Approvable(p)
  /\ ~Holding => call.dev = "none"

\* A token is one that was handed out, one that is known to be left over, or
\* the one the call in progress holds; that one is nowhere before it is
\* written, and nowhere after it was taken back.
TokensOwned ==
  /\ \A r \in Recs : r.dev \in made.devs
  /\ told.granted \cup told.orphaned \subseteq made.devs
  /\ Holding => call.dev \in made.devs /\ call.dev \notin told.granted
  /\ \A r \in Recs : r.dev \in told.granted \cup told.orphaned \cup {call.dev}
  /\ call.stage = "grant" /\ save.st # "ok" =>
       \A r \in file.approved : r.dev # call.dev
  /\ call.stage = "rollback" =>
       /\ Writing => \A r \in save.new.approved : r.dev # call.dev
       /\ save.st = "ok" => \A r \in file.approved : r.dev # call.dev

\* Tokens that were handed out, and the one that is about to be.
Owed == told.granted \cup
  {d \in {call.dev} : call.stage = "unpend" \/ (call.stage = "grant" /\ save.st = "ok")}

\* Unless the file was overwritten or lost, owed tokens are in it, or will be
\* in what replaces it.
TokensValid ==
  /\ call.stage = "grant" /\ Writing => \E r \in save.new.approved : r.dev = call.dev
  /\ ~told.wiped /\ save.st # "removed" => \A d \in Owed : Authenticates(d)
  /\ ~told.wiped /\ Writing /\ ~save.misread =>
       \A d \in Owed : \E r \in save.new.approved : r.dev = d

\* A request that was granted or denied for good.
Settled(i) ==
  \/ i \in told.denied
  \/ \E r \in Recs : r.for = i /\ Granted(r)
  \/ claims[i] # NoClaim
  \/ told.status[i] = "Approved"

\* A request is stored once, with the code it was made with ...
RequestsKnown ==
  /\ \A p \in Pend \cup call.seen : made.code[p.id] = p.code
  /\ \A p, q \in Pend \cup call.seen : p.id = q.id => p = q
  /\ \A i \in Ids : told.status[i] # "none" => made.code[i] # "none"

\* ... and neither stored nor seen by a call once it is settled; it is settled
\* by one token at most, and not both ways.
RequestsSettledOnce ==
  /\ \A i \in Ids : Settled(i) =>
       made.code[i] # "none" /\ \A p \in Pend \cup call.seen : p.id # i
  /\ \A r \in Recs : r.dev = call.dev => r.for = call.id
  /\ \A r1, r2 \in Recs : r1.for = r2.for /\ Granted(r1) /\ Granted(r2) => r1 = r2
  /\ \A r \in Recs : Granted(r) => r.for \notin told.denied
  /\ call.stage \in {"unpend", "unlist"} =>
       /\ Writing => \A p \in save.new.pending : p.id # call.id
       /\ save.st = "ok" => \A p \in file.pending : p.id # call.id
  /\ call.stage = "unlist" /\ save.st \notin {"none", "failed"} =>
       /\ made.code[call.id] # "none"
       /\ \A r \in Recs : Granted(r) => r.for # call.id

\* A device that was told that its request expired is right about it, and no
\* call can approve the request.
ExpiryIsFinal ==
  \A i \in Ids : told.status[i] = "Expired" =>
    /\ claims[i] = NoClaim
    /\ \A p \in Pend : p.id = i => IsExpired(p, now)
    /\ \A p \in call.seen : p.id = i => IsExpired(p, call.at)

-----------------------------------------------------------------------------
(* Types.                                                                  *)

Saves == [st : {"none", "writing", "removed", "ok", "failed"},
          new : Snapshots, misread : BOOLEAN]

\* Whatever a load finds in the file is a snapshot.
LEMMA LoadTypes ==
  ASSUME TypeOK PROVE Loads \subseteq Snapshots
BY DEF TypeOK, Loads, Snapshots, Empty

\* What a store call leaves in save, whatever it stores.
LEMMA SaveTypes ==
  ASSUME TypeOK
  PROVE  /\ \A ok \in BOOLEAN : Return(ok) => save' \in Saves
         /\ \A i : RemovePending(i) => save' \in Saves
         /\ \A d : RemoveApproved(d) => save' \in Saves
         /\ \A req \in Requests : UpsertPending(req) => save' \in Saves
         /\ \A rec \in Records : UpsertApproved(rec) => save' \in Saves
<1>1. ASSUME NEW load \in Snapshots, NEW new \in Snapshots, Write(load, new)
      PROVE  save' \in Saves
  BY <1>1 DEF Write, Saves
<1>2. ASSUME NEW ok \in BOOLEAN, Return(ok) PROVE save' \in Saves
  BY <1>2 DEF Return, NoSave, Saves, Empty, Snapshots
<1>3. ASSUME NEW i, RemovePending(i) PROVE save' \in Saves
  <2>1. PICK load \in Loads :
          \/ Write(load, [load EXCEPT !.pending = {p \in @ : p.id # i}])
          \/ Return(FALSE)
    BY <1>3 DEF RemovePending
  <2>2. load \in Snapshots
    BY LoadTypes
  <2>3. [load EXCEPT !.pending = {p \in @ : p.id # i}] \in Snapshots
    BY <2>2 DEF Snapshots
  <2>4. QED BY <1>1, <1>2, <2>1, <2>2, <2>3
<1>4. ASSUME NEW d, RemoveApproved(d) PROVE save' \in Saves
  <2>1. PICK load \in Loads :
          \/ Write(load, [load EXCEPT !.approved = {r \in @ : r.dev # d}])
          \/ Return(FALSE)
    BY <1>4 DEF RemoveApproved
  <2>2. load \in Snapshots
    BY LoadTypes
  <2>3. [load EXCEPT !.approved = {r \in @ : r.dev # d}] \in Snapshots
    BY <2>2 DEF Snapshots
  <2>4. QED BY <1>1, <1>2, <2>1, <2>2, <2>3
<1>5. ASSUME NEW req \in Requests, UpsertPending(req) PROVE save' \in Saves
  <2>1. PICK load \in Loads :
          Write(load, [load EXCEPT !.pending = {p \in @ : p.id # req.id} \cup {req}])
    BY <1>5 DEF UpsertPending
  <2>2. load \in Snapshots
    BY LoadTypes
  <2>3. [load EXCEPT !.pending = {p \in @ : p.id # req.id} \cup {req}] \in Snapshots
    BY <2>2 DEF Snapshots
  <2>4. QED BY <1>1, <2>1, <2>2, <2>3
<1>6. ASSUME NEW rec \in Records, UpsertApproved(rec) PROVE save' \in Saves
  <2>1. PICK load \in Loads :
          Write(load, [load EXCEPT !.approved = {r \in @ : r.dev # rec.dev} \cup {rec}])
    BY <1>6 DEF UpsertApproved
  <2>2. load \in Snapshots
    BY LoadTypes
  <2>3. [load EXCEPT !.approved = {r \in @ : r.dev # rec.dev} \cup {rec}] \in Snapshots
    BY <2>2 DEF Snapshots
  <2>4. QED BY <1>1, <2>1, <2>2, <2>3
<1>7. QED BY <1>2, <1>3, <1>4, <1>5, <1>6

\* The fields of a call, so that each action's change of it can be typed.
Calls == [op : {"idle", "start", "approve", "reject"},
          stage : {"none", "purge", "request", "grant", "unpend", "rollback", "unlist"},
          id : Ids \cup {"none"}, code : Codes \cup {"none"}, at : 0 .. MaxTime,
          seen : SUBSET Requests, todo : SUBSET Ids, dev : Devices \cup {"none"}]

\* The types hold at the start.
LEMMA TypesInit == Init => TypeOK
BY PairingAssumption DEF Init, TypeOK, Empty, Snapshots, NoSave, NoClaim, Idle

\* Every step keeps the types.
LEMMA TypesStep == TypeOK /\ CallShape /\ [Next]_vars => TypeOK'
<1> SUFFICES ASSUME TypeOK, CallShape, [Next]_vars PROVE TypeOK'
  OBVIOUS
<1>a. /\ Idle \in Calls /\ NoSave \in Saves /\ Empty \in Snapshots
      /\ call \in Calls /\ save \in Saves
  BY PairingAssumption DEF TypeOK, Idle, Calls, NoSave, Saves, Empty, Snapshots
<1>b. ASSUME call' \in Calls, save' \in Saves,
             UNCHANGED <<file, claims, rejected, now, made, told>>
      PROVE  TypeOK'
  BY <1>b DEF TypeOK, Calls, Saves
<1>1. CASE StartPairing
  <2>1. call' \in Calls
    <3>1. PICK load \in Loads :
            call' = [Idle EXCEPT !.op = "start", !.stage = "purge", !.at = now,
                       !.todo = {p.id : p \in {q \in load.pending : IsExpired(q, now)}}]
      BY <1>1 DEF StartPairing
    <3>2. {p.id : p \in {q \in load.pending : IsExpired(q, now)}} \subseteq Ids
      BY LoadTypes DEF Snapshots, Requests
    <3>3. now \in 0 .. MaxTime
      BY DEF TypeOK
    <3>4. QED BY <1>a, <3>1, <3>2, <3>3 DEF Calls
  <2>2. QED BY <1>1, <1>a, <1>b, <2>1 DEF StartPairing
<1>2. ASSUME NEW i \in Ids, NEW code \in Codes, ApprovePairing(i, code) PROVE TypeOK'
  <2>1. call' \in Calls
    <3>1. PICK load \in Loads :
            call' = [Idle EXCEPT !.op = "approve", !.stage = "purge", !.at = now,
                       !.id = i, !.code = code, !.seen = load.pending,
                       !.todo = {p.id : p \in {q \in load.pending : IsExpired(q, now)}}]
      BY <1>2 DEF ApprovePairing
    <3>2. {p.id : p \in {q \in load.pending : IsExpired(q, now)}} \subseteq Ids
      BY LoadTypes DEF Snapshots, Requests
    <3>3. now \in 0 .. MaxTime /\ load.pending \subseteq Requests
      BY LoadTypes DEF TypeOK, Snapshots
    <3>4. QED BY <1>a, <3>1, <3>2, <3>3 DEF Calls
  <2>2. QED BY <1>2, <1>a, <1>b, <2>1 DEF ApprovePairing
<1>3. ASSUME NEW i \in Ids, RejectPairing(i) PROVE TypeOK'
  <2>1. call' \in Calls
    BY <1>3, <1>a DEF RejectPairing, Calls
  <2>2. claims' \in [Ids -> [code : Codes, dev : Devices] \cup {NoClaim}]
        /\ rejected' \subseteq Ids
    BY <1>3 DEF RejectPairing, TypeOK
  <2>3. QED BY <1>3, <2>1, <2>2 DEF RejectPairing, TypeOK, Calls
<1>4. ASSUME NEW i \in Ids, Purge(i) PROVE TypeOK'
  <2>1. call' \in Calls
    BY <1>4, <1>a DEF Purge, Calls
  <2>2. QED BY <1>4, <1>b, <2>1, SaveTypes DEF Purge
<1>5. CASE PurgeReturns
  BY <1>5, <1>a, <1>b DEF PurgeReturns
<1>6. ASSUME NEW i \in Ids, NEW code \in Codes, Request(i, code) PROVE TypeOK'
  <2>1. [id |-> i, code |-> code, at |-> call.at] \in Requests
    BY <1>a DEF Requests, Calls
  <2>2. save' \in Saves
    BY <1>6, <2>1, SaveTypes DEF Request
  <2>3. call' \in Calls
    BY <1>6, <1>a DEF Request, Calls
  <2>4. made' \in [code : [Ids -> Codes \cup {"none"}], devs : SUBSET Devices]
    BY <1>6 DEF Request, TypeOK
  <2>5. QED BY <1>6, <2>2, <2>3, <2>4 DEF Request, TypeOK, Calls, Saves
<1>7. CASE RequestReturns \/ NothingToApprove
  BY <1>7, <1>a, <1>b DEF RequestReturns, NothingToApprove, Done
<1>8. ASSUME NEW d \in Devices, Grant(d) PROVE TypeOK'
  <2>1. [dev |-> d, for |-> call.id] \in Records
    BY <1>8 DEF Records, Grant, CallShape
  <2>2. save' \in Saves
    BY <1>8, <2>1, SaveTypes DEF Grant
  <2>3. call' \in Calls
    BY <1>8, <1>a DEF Grant, Calls
  <2>4. made' \in [code : [Ids -> Codes \cup {"none"}], devs : SUBSET Devices]
    BY <1>8 DEF Grant, TypeOK
  <2>5. QED BY <1>8, <2>2, <2>3, <2>4 DEF Grant, TypeOK, Calls, Saves
<1>9. CASE GrantReturns
  <2>1. call' \in Calls /\ save' \in Saves
    BY <1>9, <1>a DEF GrantReturns, Done, Calls
  <2>2. QED BY <1>9, <1>b, <2>1 DEF GrantReturns
<1>10. CASE Unpend \/ Rollback \/ Unlist
  BY <1>10, <1>a, <1>b, SaveTypes DEF Unpend, Rollback, Unlist
<1>11. CASE UnpendReturns
  <2>1. call' \in Calls /\ save' \in Saves
    BY <1>11, <1>a DEF UnpendReturns, Done, Calls
  <2>2. /\ claims' \in [Ids -> [code : Codes, dev : Devices] \cup {NoClaim}]
        /\ rejected' \subseteq Ids
    <3>1. call.code \in Codes /\ call.dev \in Devices
      BY <1>11 DEF UnpendReturns, Back, CallShape, Holding
    <3>2. QED BY <1>11, <3>1 DEF UnpendReturns, TypeOK
  <2>3. told' \in [granted : SUBSET Devices, denied : SUBSET Ids,
                   status : [Ids -> Statuses \cup {"none"}],
                   orphaned : SUBSET Devices, wiped : BOOLEAN]
    <3>1. call.dev \in Devices
      BY <1>11 DEF UnpendReturns, Back, CallShape, Holding
    <3>2. QED BY <1>11, <3>1 DEF UnpendReturns, TypeOK
  <2>4. QED BY <1>11, <2>1, <2>2, <2>3 DEF UnpendReturns, TypeOK, Calls, Saves
<1>12. CASE RollbackReturns
  <2>1. told' \in [granted : SUBSET Devices, denied : SUBSET Ids,
                   status : [Ids -> Statuses \cup {"none"}],
                   orphaned : SUBSET Devices, wiped : BOOLEAN]
    <3>1. call.dev \in Devices
      BY <1>12 DEF RollbackReturns, Back, CallShape, Holding
    <3>2. QED BY <1>12, <3>1 DEF RollbackReturns, TypeOK
  <2>2. QED BY <1>12, <1>a, <2>1 DEF RollbackReturns, Done, TypeOK, Calls, Saves
<1>13. CASE UnlistReturns
  <2>1. told' \in [granted : SUBSET Devices, denied : SUBSET Ids,
                   status : [Ids -> Statuses \cup {"none"}],
                   orphaned : SUBSET Devices, wiped : BOOLEAN]
    <3>1. call.id \in Ids
      BY <1>13 DEF UnlistReturns, Back, CallShape
    <3>2. QED BY <1>13, <3>1 DEF UnlistReturns, TypeOK
  <2>2. QED BY <1>13, <1>a, <2>1 DEF UnlistReturns, Done, TypeOK, Calls, Saves
<1>14. ASSUME NEW i \in Ids, QueryStatus(i) PROVE TypeOK'
  <2>1. PICK load \in Loads :
          told' = [told EXCEPT !.status[i] = StatusOf(i, made.code[i], load)]
    BY <1>14 DEF QueryStatus
  <2>2. StatusOf(i, made.code[i], load) \in Statuses
    BY DEF StatusOf, Statuses
  <2>3. told' \in [granted : SUBSET Devices, denied : SUBSET Ids,
                   status : [Ids -> Statuses \cup {"none"}],
                   orphaned : SUBSET Devices, wiped : BOOLEAN]
    BY <2>1, <2>2 DEF TypeOK
  <2>4. QED BY <1>14, <2>3 DEF QueryStatus, TypeOK
<1>15. CASE SaveRenames \/ SaveRemoves \/ SaveFails
  <2>1. save' \in Saves
    BY <1>15, <1>a, SaveTypes DEF SaveRenames, SaveRemoves, SaveFails, Saves
  <2>2. file' \in Snapshots
    BY <1>15, <1>a DEF SaveRenames, SaveRemoves, SaveFails, Saves, TypeOK
  <2>3. told' \in [granted : SUBSET Devices, denied : SUBSET Ids,
                   status : [Ids -> Statuses \cup {"none"}],
                   orphaned : SUBSET Devices, wiped : BOOLEAN]
    BY <1>15 DEF SaveRenames, SaveRemoves, SaveFails, TypeOK
  <2>4. QED
    BY <1>15, <2>1, <2>2, <2>3 DEF SaveRenames, SaveRemoves, SaveFails, TypeOK, Saves
<1>16. CASE Tick
  BY <1>16, PairingAssumption DEF Tick, TypeOK
<1>17. CASE Crash
  <2>1. told' \in [granted : SUBSET Devices, denied : SUBSET Ids,
                   status : [Ids -> Statuses \cup {"none"}],
                   orphaned : SUBSET Devices, wiped : BOOLEAN]
    BY <1>17 DEF Crash, TypeOK
  <2>2. claims' \in [Ids -> [code : Codes, dev : Devices] \cup {NoClaim}]
    BY <1>17 DEF Crash
  <2>3. /\ rejected' = {} /\ call' \in Calls /\ save' \in Saves
        /\ UNCHANGED <<file, now, made>>
    BY <1>17, <1>a DEF Crash
  <2>4. QED BY <2>1, <2>2, <2>3 DEF TypeOK, Calls, Saves
<1>18. CASE UNCHANGED vars
  BY <1>18 DEF vars, TypeOK
<1>19. QED
  BY <1>1, <1>2, <1>3, <1>4, <1>5, <1>6, <1>7, <1>8, <1>9, <1>10, <1>11, <1>12, <1>13,
     <1>14, <1>15, <1>16, <1>17, <1>18 DEF Next

-----------------------------------------------------------------------------
(* What a store call may do.                                               *)

\* A removal either finds nothing, or has all but what it removed in hand; a
\* file that was read rightly is otherwise kept.
LEMMA RemovePendingEffect ==
  ASSUME TypeOK, NEW i, RemovePending(i)
  PROVE  \/ save' = [NoSave EXCEPT !.st = "failed"]
         \/ /\ save'.st = "writing"
            /\ save'.new.approved \subseteq file.approved
            /\ save'.new.pending \subseteq file.pending
            /\ ~save'.misread => save'.new.approved = file.approved
            /\ \A p \in save'.new.pending : p.id # i
            /\ \E p \in file.pending : p.id = i
<1>1. PICK load \in Loads :
        IF \E p \in load.pending : p.id = i
          THEN Write(load, [load EXCEPT !.pending = {p \in @ : p.id # i}])
          ELSE Return(FALSE)
  BY DEF RemovePending
<1>2. CASE \E p \in load.pending : p.id = i
  <2>1. load = file
    BY <1>2 DEF Loads, Empty
  <2>2. file.pending \subseteq Requests /\ file \in [pending : SUBSET Requests, approved : SUBSET Records]
    BY DEF TypeOK, Snapshots
  <2>3. save' = [st |-> "writing", new |-> [file EXCEPT !.pending = {p \in @ : p.id # i}],
                 misread |-> FALSE]
    BY <1>1, <1>2, <2>1 DEF Write
  <2>4. QED BY <1>2, <2>1, <2>2, <2>3
<1>3. CASE ~\E p \in load.pending : p.id = i
  BY <1>1, <1>3 DEF Return
<1>4. QED BY <1>2, <1>3

\* Removing a device fails, or leaves a save of the file without its records.
LEMMA RemoveApprovedEffect ==
  ASSUME TypeOK, NEW d, RemoveApproved(d)
  PROVE  \/ save' = [NoSave EXCEPT !.st = "failed"]
         \/ /\ save'.st = "writing"
            /\ save'.new.approved = {r \in file.approved : r.dev # d}
            /\ save'.new.pending \subseteq file.pending
<1>1. PICK load \in Loads :
        IF \E r \in load.approved : r.dev = d
          THEN Write(load, [load EXCEPT !.approved = {r \in @ : r.dev # d}])
          ELSE Return(FALSE)
  BY DEF RemoveApproved
<1>2. CASE \E r \in load.approved : r.dev = d
  <2>1. load = file
    BY <1>2 DEF Loads, Empty
  <2>2. file \in [pending : SUBSET Requests, approved : SUBSET Records]
    BY DEF TypeOK, Snapshots
  <2>3. save' = [st |-> "writing", new |-> [file EXCEPT !.approved = {r \in @ : r.dev # d}],
                 misread |-> FALSE]
    BY <1>1, <1>2, <2>1 DEF Write
  <2>4. QED BY <1>2, <2>1, <2>2, <2>3
<1>3. CASE ~\E r \in load.approved : r.dev = d
  BY <1>1, <1>3 DEF Return
<1>4. QED BY <1>2, <1>3

\* A new token or request is added to what was read, which may be nothing.
LEMMA UpsertApprovedEffect ==
  ASSUME TypeOK, NEW rec \in Records, UpsertApproved(rec)
  PROVE  /\ save'.st = "writing"
         /\ save'.new.pending \subseteq file.pending
         /\ save'.new.approved \subseteq file.approved \cup {rec}
         /\ rec \in save'.new.approved
         /\ ~save'.misread =>
              \A r \in file.approved : r.dev # rec.dev => r \in save'.new.approved
<1>1. PICK load \in Loads :
        Write(load, [load EXCEPT !.approved = {r \in @ : r.dev # rec.dev} \cup {rec}])
  BY DEF UpsertApproved
<1>2. load \in [pending : SUBSET Requests, approved : SUBSET Records]
  BY LoadTypes DEF Snapshots
<1>3. load.approved \subseteq file.approved /\ load.pending \subseteq file.pending
  BY DEF Loads, Empty
<1>4. save' = [st |-> "writing",
               new |-> [load EXCEPT !.approved = {r \in @ : r.dev # rec.dev} \cup {rec}],
               misread |-> load # file]
  BY <1>1 DEF Write
<1>5. QED BY <1>2, <1>3, <1>4

\* Storing a request leaves a save with no record that was not in the file,
\* and with all of them if the file was read right.
LEMMA UpsertPendingEffect ==
  ASSUME TypeOK, NEW req \in Requests, UpsertPending(req)
  PROVE  /\ save'.st = "writing"
         /\ save'.new.approved \subseteq file.approved
         /\ save'.new.pending \subseteq file.pending \cup {req}
         /\ ~save'.misread => save'.new.approved = file.approved
<1>1. PICK load \in Loads :
        Write(load, [load EXCEPT !.pending = {p \in @ : p.id # req.id} \cup {req}])
  BY DEF UpsertPending
<1>2. load \in [pending : SUBSET Requests, approved : SUBSET Records]
  BY LoadTypes DEF Snapshots
<1>3. load.approved \subseteq file.approved /\ load.pending \subseteq file.pending
  BY DEF Loads, Empty
<1>4. save' = [st |-> "writing",
               new |-> [load EXCEPT !.pending = {p \in @ : p.id # req.id} \cup {req}],
               misread |-> load # file]
  BY <1>1 DEF Write
<1>5. QED BY <1>2, <1>3, <1>4

\* The calls have their shape at the start.
LEMMA ShapeInit == Init => CallShape
BY DEF Init, CallShape, NoSave, Empty, Idle, Holding, Writing

\* Every step keeps it.
LEMMA ShapeStep == TypeOK /\ CallShape /\ [Next]_vars => CallShape'
<1> SUFFICES ASSUME TypeOK, CallShape, [Next]_vars PROVE CallShape'
  OBVIOUS
<1> USE DEF CallShape, Holding, Writing, Approvable
<1>a. call \in Calls /\ save \in Saves
  BY DEF TypeOK, Calls, Saves
<1>b. ASSUME UNCHANGED call, call # Idle, save'.st # "none",
             save'.st \in {"writing", "removed"} \/ (save'.new = Empty /\ ~save'.misread)
      PROVE  CallShape'
  BY <1>b
<1>c. ASSUME call' = Idle, save' = NoSave PROVE CallShape'
  BY <1>c DEF Idle, NoSave
<1>1. CASE StartPairing
  BY <1>1, <1>a DEF StartPairing, Idle
<1>2. ASSUME NEW i \in Ids, NEW code \in Codes, ApprovePairing(i, code) PROVE CallShape'
  BY <1>2, <1>a DEF ApprovePairing, Idle
<1>3. ASSUME NEW i \in Ids, RejectPairing(i) PROVE CallShape'
  BY <1>3, <1>a DEF RejectPairing, Idle
<1>4. ASSUME NEW i \in Ids, Purge(i) PROVE CallShape'
  <2>1. call' = [call EXCEPT !.todo = @ \ {i}] /\ call.stage = "purge"
    BY <1>4 DEF Purge, At
  <2>2. \/ save' = [NoSave EXCEPT !.st = "failed"] \/ save'.st = "writing"
    BY <1>4, RemovePendingEffect DEF Purge
  <2>3. QED BY <1>a, <2>1, <2>2 DEF Calls, Idle, NoSave
<1>5. CASE PurgeReturns
  BY <1>5, <1>a DEF PurgeReturns, Back, NoSave, Idle
<1>6. ASSUME NEW i \in Ids, NEW code \in Codes, Request(i, code) PROVE CallShape'
  <2>1. call' = [call EXCEPT !.stage = "request", !.id = i] /\ call.stage = "purge"
        /\ call.op = "start"
    BY <1>6 DEF Request, At
  <2>2. save'.st = "writing"
    BY <1>6 DEF Request, UpsertPending, Write
  <2>3. QED BY <1>a, <2>1, <2>2 DEF Calls, Idle
<1>7. CASE RequestReturns \/ NothingToApprove \/ RollbackReturns \/ UnlistReturns
  BY <1>7, <1>c DEF RequestReturns, NothingToApprove, RollbackReturns, UnlistReturns, Done
<1>8. ASSUME NEW d \in Devices, Grant(d) PROVE CallShape'
  <2>1. call' = [call EXCEPT !.stage = "grant", !.dev = d] /\ call.stage = "purge"
        /\ call.op = "approve" /\ \E p \in call.seen : Approvable(p)
    BY <1>8 DEF Grant, At
  <2>2. save'.st = "writing"
    BY <1>8 DEF Grant, UpsertApproved, Write
  <2>3. QED BY <1>a, <2>1, <2>2 DEF Calls, Idle
<1>9. CASE GrantReturns
  <2>1. CASE save.st = "ok"
    BY <1>9, <1>a, <2>1 DEF GrantReturns, Back, Calls, Idle, NoSave
  <2>2. CASE save.st # "ok"
    BY <1>9, <1>c, <2>2 DEF GrantReturns, Done
  <2>3. QED BY <2>1, <2>2
<1>10. CASE Unpend \/ Rollback \/ Unlist
  <2>1. /\ UNCHANGED call /\ call.stage \in {"unpend", "rollback", "unlist"}
        /\ \/ save' = [NoSave EXCEPT !.st = "failed"] \/ save'.st = "writing"
    BY <1>10, RemovePendingEffect, RemoveApprovedEffect DEF Unpend, Rollback, Unlist, At
  <2>2. QED BY <1>b, <2>1 DEF Idle, NoSave
<1>11. CASE UnpendReturns
  <2>1. CASE save.st = "ok"
    BY <1>11, <1>c, <2>1 DEF UnpendReturns, Done
  <2>2. CASE save.st # "ok"
    BY <1>11, <1>a, <2>2 DEF UnpendReturns, Back, Calls, Idle, NoSave
  <2>3. QED BY <2>1, <2>2
<1>12. CASE \E i \in Ids : QueryStatus(i)
  BY <1>12 DEF QueryStatus
<1>13. CASE SaveRenames \/ SaveRemoves \/ SaveFails
  <2>1. UNCHANGED call /\ call # Idle
    BY <1>13 DEF SaveRenames, SaveRemoves, SaveFails
  <2>2. save'.st = "removed" \/ (save'.st \in {"ok", "failed"} /\ save'.new = Empty /\ ~save'.misread)
    BY <1>13, <1>a DEF SaveRenames, SaveRemoves, SaveFails, Saves, Return, NoSave
  <2>3. QED BY <1>b, <2>1, <2>2
<1>14. CASE Tick
  BY <1>14 DEF Tick
<1>15. CASE Crash
  BY <1>15, <1>c DEF Crash
<1>16. CASE UNCHANGED vars
  BY <1>16 DEF vars
<1>17. QED
  BY <1>1, <1>2, <1>3, <1>4, <1>5, <1>6, <1>7, <1>8, <1>9, <1>10, <1>11, <1>12, <1>13,
     <1>14, <1>15, <1>16 DEF Next

\* Pairing is type correct (Pairing's state is what the service, its store and
\* their callers are said to keep), and a call knows what its stage needs.
THEOREM PairingTypes == Spec => [](TypeOK /\ CallShape)
<1>1. TypeOK /\ CallShape /\ [Next]_vars => (TypeOK /\ CallShape)'
  BY TypesStep, ShapeStep
<1>2. QED BY <1>1, TypesInit, ShapeInit, PTL DEF Spec

-----------------------------------------------------------------------------
(* How records and requests come and go: a step makes none but Grant and   *)
(* Request.                                                                *)

Known == Pend \cup call.seen

\* What is known are records and requests.
LEMMA KnownTypes ==
  ASSUME TypeOK PROVE Recs \subseteq Records /\ Known \subseteq Requests
BY DEF TypeOK, Recs, Known, Pend, Snapshots

\* The next state's, spelled out.
LEMMA KnownNext ==
  /\ Recs' = file'.approved \cup save'.new.approved
  /\ Pend' = file'.pending \cup save'.new.pending
  /\ Known' = Pend' \cup call'.seen
BY DEF Recs, Pend, Known

NoneMade == Recs' \subseteq Recs /\ Pend' \subseteq Pend /\ Known' \subseteq Known

\* A step makes nothing, or one record by a grant, or one request by a request.
LEMMA Carried ==
  ASSUME TypeOK, CallShape, [Next]_vars
  PROVE  \/ NoneMade
         \/ \E d \in Devices :
              /\ Grant(d) /\ Pend' \subseteq Pend /\ Known' \subseteq Known
              /\ Recs' \subseteq Recs \cup {[dev |-> d, for |-> call.id]}
         \/ \E i \in Ids, code \in Codes :
              /\ Request(i, code) /\ Recs' \subseteq Recs
              /\ Pend' \subseteq Pend \cup {[id |-> i, code |-> code, at |-> call.at]}
              /\ Known' \subseteq Known \cup {[id |-> i, code |-> code, at |-> call.at]}
<1> USE DEF NoneMade
<1>0. Empty.pending = {} /\ Empty.approved = {} /\ NoSave.new = Empty /\ Idle.seen = {}
  BY DEF Empty, NoSave, Idle
<1>a. ASSUME UNCHANGED <<file, save>>,
             call'.seen \subseteq call.seen \/ call'.seen \subseteq file.pending
      PROVE  NoneMade
  BY <1>a, KnownNext DEF Recs, Pend, Known
<1>b. ASSUME UNCHANGED file, save'.new = Empty, call'.seen \subseteq call.seen
      PROVE  NoneMade
  BY <1>0, <1>b, KnownNext DEF Recs, Pend, Known
<1>c. ASSUME UNCHANGED file, call'.seen = call.seen,
             save'.new.approved \subseteq file.approved,
             save'.new.pending \subseteq file.pending
      PROVE  NoneMade
  BY <1>c, KnownNext DEF Recs, Pend, Known
<1>d. call \in Calls /\ save \in Saves
  BY DEF TypeOK, Calls, Saves
<1>1. CASE StartPairing
  BY <1>1, <1>0, <1>a DEF StartPairing, Idle
<1>2. ASSUME NEW i \in Ids, NEW code \in Codes, ApprovePairing(i, code) PROVE NoneMade
  <2>1. call'.seen \subseteq file.pending
    BY <1>0, <1>2 DEF ApprovePairing, Loads, Idle
  <2>2. QED BY <1>2, <1>a, <2>1 DEF ApprovePairing
<1>3. ASSUME NEW i \in Ids, RejectPairing(i) PROVE NoneMade
  BY <1>3, <1>0, <1>a DEF RejectPairing, Idle
<1>4. ASSUME NEW i \in Ids, Purge(i) PROVE NoneMade
  <2>1. UNCHANGED file /\ call'.seen = call.seen
    BY <1>4, <1>d DEF Purge, Calls
  <2>2. /\ save'.new.approved \subseteq file.approved
        /\ save'.new.pending \subseteq file.pending
    BY <1>0, <1>4, RemovePendingEffect DEF Purge, NoSave
  <2>3. QED BY <1>c, <2>1, <2>2
<1>5. CASE PurgeReturns
  BY <1>0, <1>5, <1>b DEF PurgeReturns
<1>6. ASSUME NEW i \in Ids, NEW code \in Codes, Request(i, code)
      PROVE  /\ Recs' \subseteq Recs
             /\ Pend' \subseteq Pend \cup {[id |-> i, code |-> code, at |-> call.at]}
             /\ Known' \subseteq Known \cup {[id |-> i, code |-> code, at |-> call.at]}
  <2> DEFINE req == [id |-> i, code |-> code, at |-> call.at]
  <2>1. UNCHANGED file /\ call'.seen = call.seen
    BY <1>6, <1>d DEF Request, Calls
  <2>2. req \in Requests
    BY <1>d DEF Requests, Calls
  <2>3. /\ save'.new.approved \subseteq file.approved
        /\ save'.new.pending \subseteq file.pending \cup {req}
    BY <1>6, <2>2, UpsertPendingEffect DEF Request
  <2> HIDE DEF req
  <2>4. /\ Recs' \subseteq Recs /\ Pend' \subseteq Pend \cup {req}
        /\ Known' \subseteq Known \cup {req}
    BY <2>1, <2>3, KnownNext DEF Recs, Pend, Known
  <2>5. QED BY <2>4 DEF req
<1>7. CASE RequestReturns \/ NothingToApprove \/ RollbackReturns \/ UnlistReturns
  BY <1>0, <1>7, <1>b DEF RequestReturns, NothingToApprove, RollbackReturns, UnlistReturns, Done
<1>8. ASSUME NEW d \in Devices, Grant(d)
      PROVE  /\ Pend' \subseteq Pend /\ Known' \subseteq Known
             /\ Recs' \subseteq Recs \cup {[dev |-> d, for |-> call.id]}
  <2> DEFINE rec == [dev |-> d, for |-> call.id]
  <2>1. UNCHANGED file /\ call'.seen = call.seen
    BY <1>8, <1>d DEF Grant, Calls
  <2>2. rec \in Records
    BY <1>8 DEF Records, Grant, CallShape
  <2>3. /\ save'.new.approved \subseteq file.approved \cup {rec}
        /\ save'.new.pending \subseteq file.pending
    BY <1>8, <2>2, UpsertApprovedEffect DEF Grant
  <2> HIDE DEF rec
  <2>4. /\ Recs' \subseteq Recs \cup {rec} /\ Pend' \subseteq Pend
        /\ Known' \subseteq Known
    BY <2>1, <2>3, KnownNext DEF Recs, Pend, Known
  <2>5. QED BY <2>4 DEF rec
<1>9. CASE GrantReturns
  <2>1. call'.seen \subseteq call.seen /\ save' = NoSave
    BY <1>0, <1>9, <1>d DEF GrantReturns, Done, Calls
  <2>2. QED BY <1>0, <1>9, <1>b, <2>1 DEF GrantReturns
<1>10. CASE Unpend \/ Rollback \/ Unlist
  <2>1. /\ save'.new.approved \subseteq file.approved
        /\ save'.new.pending \subseteq file.pending
    BY <1>0, <1>10, RemovePendingEffect, RemoveApprovedEffect DEF Unpend, Rollback, Unlist, NoSave
  <2>2. QED BY <1>10, <1>c, <2>1 DEF Unpend, Rollback, Unlist
<1>11. CASE UnpendReturns
  <2>1. call'.seen \subseteq call.seen /\ save' = NoSave
    BY <1>0, <1>11, <1>d DEF UnpendReturns, Done, Calls
  <2>2. QED BY <1>0, <1>11, <1>b, <2>1 DEF UnpendReturns
<1>12. CASE \E i \in Ids : QueryStatus(i)
  BY <1>12, <1>a DEF QueryStatus
<1>13. CASE SaveRenames
  <2>1. file' = save.new /\ save'.new = Empty /\ UNCHANGED call
    BY <1>0, <1>13 DEF SaveRenames, Return, NoSave
  <2>2. QED BY <1>0, <2>1, KnownNext DEF Recs, Pend, Known
<1>14. CASE SaveRemoves
  <2>1. file' = Empty /\ save'.new = save.new /\ UNCHANGED call
    BY <1>d, <1>14 DEF SaveRemoves, Saves
  <2>2. QED BY <1>0, <2>1, KnownNext DEF Recs, Pend, Known
<1>15. CASE SaveFails
  <2>1. UNCHANGED <<file, call>> /\ save'.new = Empty
    BY <1>0, <1>15 DEF SaveFails, Return, NoSave
  <2>2. QED BY <1>b, <2>1
<1>16. CASE Tick
  BY <1>16, <1>a DEF Tick
<1>17. CASE Crash
  BY <1>0, <1>17, <1>b DEF Crash
<1>18. CASE UNCHANGED vars
  BY <1>18, <1>a DEF vars
<1>19. QED
  BY <1>1, <1>2, <1>3, <1>4, <1>5, <1>6, <1>7, <1>8, <1>9, <1>10, <1>11, <1>12, <1>13,
     <1>14, <1>15, <1>16, <1>17, <1>18 DEF Next

\* Grant and Request are told by what they put into made.
LEMMA MadeByOthers ==
  ASSUME TypeOK, CallShape, [Next]_vars, UNCHANGED made
  PROVE  NoneMade
<1>1. ASSUME NEW d \in Devices, Grant(d) PROVE FALSE
  BY <1>1 DEF Grant, TypeOK
<1>2. ASSUME NEW i \in Ids, NEW code \in Codes, Request(i, code) PROVE FALSE
  BY <1>2, PairingAssumption DEF Request, TypeOK
<1>3. QED BY <1>1, <1>2, Carried

\* A grant makes one record and no request.
LEMMA MadeByGrant ==
  ASSUME TypeOK, CallShape, [Next]_vars, NEW d \in Devices, Grant(d)
  PROVE  /\ Recs' \subseteq Recs \cup {[dev |-> d, for |-> call.id]}
         /\ Pend' \subseteq Pend /\ Known' \subseteq Known
<1>1. UNCHANGED made.code
  BY DEF Grant, TypeOK
<1>2. ASSUME NEW i \in Ids, NEW code \in Codes, Request(i, code) PROVE FALSE
  BY <1>1, <1>2, PairingAssumption DEF Request, TypeOK
<1>3. ASSUME NEW e \in Devices, Grant(e) PROVE e = d
  BY <1>3 DEF Grant, TypeOK, CallShape, Holding
<1>4. QED BY <1>2, <1>3, Carried DEF NoneMade

\* A request makes one request and no record.
LEMMA MadeByRequest ==
  ASSUME TypeOK, CallShape, [Next]_vars, NEW i \in Ids, NEW code \in Codes, Request(i, code)
  PROVE  /\ Recs' \subseteq Recs
         /\ Pend' \subseteq Pend \cup {[id |-> i, code |-> code, at |-> call.at]}
         /\ Known' \subseteq Known \cup {[id |-> i, code |-> code, at |-> call.at]}
<1>1. UNCHANGED made.devs
  BY DEF Request, TypeOK
<1>2. ASSUME NEW d \in Devices, Grant(d) PROVE FALSE
  BY <1>1, <1>2 DEF Grant, TypeOK
<1>3. ASSUME NEW j \in Ids, NEW k \in Codes, Request(j, k) PROVE j = i /\ k = code
  <2>1. made' = [made EXCEPT !.code[j] = k] /\ made' = [made EXCEPT !.code[i] = code]
        /\ made.code[i] = "none" /\ made.code[j] = "none"
    BY <1>3 DEF Request
  <2>2. QED BY <2>1, PairingAssumption DEF TypeOK
<1>4. QED BY <1>2, <1>3, Carried DEF NoneMade

-----------------------------------------------------------------------------
(* Tokens.                                                                 *)

\* There are no tokens at the start.
LEMMA OwnedInit == Init => TokensOwned
BY DEF Init, TokensOwned, Recs, Empty, NoSave, Idle, Holding

\* Every step keeps each token its owner.
LEMMA OwnedStep ==
  TypeOK /\ CallShape /\ TokensOwned /\ [Next]_vars => TokensOwned'
<1> SUFFICES ASSUME TypeOK, CallShape, TokensOwned, [Next]_vars PROVE TokensOwned'
  OBVIOUS
<1>a. call \in Calls /\ save \in Saves /\ "none" \notin Devices
  BY PairingAssumption DEF TypeOK, Calls, Saves
<1>b. Idle.dev = "none" /\ Idle.stage = "none" /\ NoSave.st = "none" /\ NoSave.new = Empty
  BY DEF Idle, NoSave
<1>e. Recs \subseteq Records /\ file.approved \subseteq Recs /\ save.new.approved \subseteq Recs
      /\ told.granted \cup told.orphaned \subseteq Devices
  BY KnownTypes DEF Recs, TypeOK
\* Steps that make no token, end no call that holds one, and write nothing
\* that matters.
<1>c. ASSUME UNCHANGED made, told'.granted = told.granted, told'.orphaned = told.orphaned,
             call'.dev = call.dev, Holding' => Holding,
             call'.stage \notin {"grant", "rollback"}
      PROVE  TokensOwned'
  <2>1. Recs' \subseteq Recs
    BY <1>c, MadeByOthers DEF NoneMade
  <2>2. QED BY <1>c, <2>1 DEF TokensOwned
<1>1. CASE \/ StartPairing \/ PurgeReturns \/ RequestReturns \/ NothingToApprove
           \/ \E i \in Ids, code \in Codes : ApprovePairing(i, code)
           \/ \E i \in Ids : RejectPairing(i)
  <2>1. /\ UNCHANGED <<made, told>> /\ call'.stage \in {"none", "purge", "unlist"}
        /\ call'.dev = "none" /\ call.dev = "none"
    BY <1>1, <1>a, <1>b DEF StartPairing, PurgeReturns, RequestReturns, NothingToApprove,
       ApprovePairing, RejectPairing, Done, Idle, CallShape, Holding, Back, At
  <2>2. QED BY <1>c, <2>1 DEF Holding
<1>2. ASSUME NEW i \in Ids, Purge(i) PROVE TokensOwned'
  <2>1. UNCHANGED <<made, told>> /\ call'.stage = "purge" /\ call'.dev = call.dev
    BY <1>2, <1>a DEF Purge, At, Calls
  <2>2. QED BY <1>c, <2>1 DEF Holding
<1>3. ASSUME NEW i \in Ids, NEW code \in Codes, Request(i, code) PROVE TokensOwned'
  <2>1. /\ UNCHANGED told /\ made'.devs = made.devs /\ call'.stage = "request"
        /\ call'.dev = call.dev
    BY <1>3, <1>a DEF Request, Calls, TypeOK
  <2>2. QED BY <1>3, <2>1, MadeByRequest DEF TokensOwned, Holding
<1>4. ASSUME NEW d \in Devices, Grant(d) PROVE TokensOwned'
  <2>1. /\ UNCHANGED <<file, told>> /\ made'.devs = made.devs \cup {d} /\ d \notin made.devs
        /\ call'.stage = "grant" /\ call'.dev = d /\ call.dev = "none"
    BY <1>4, <1>a DEF Grant, At, Calls, TypeOK, CallShape, Holding
  <2>2. \A r \in Recs' : r.dev = d \/ r \in Recs
    BY <1>4, MadeByGrant
  <2>3. \A r \in Recs : r.dev # "none"
    BY <1>a, <1>e DEF Records
  <2>4. QED BY <1>e, <2>1, <2>2, <2>3 DEF TokensOwned, Holding
<1>5. CASE GrantReturns
  <2>1. UNCHANGED <<file, made, told>> /\ save' = NoSave /\ call.stage = "grant"
    BY <1>5 DEF GrantReturns, Back, Done
  <2>2. CASE save.st = "ok"
    <3>1. call'.stage = "unpend" /\ call'.dev = call.dev
      BY <1>5, <1>a, <2>2 DEF GrantReturns, Calls
    <3>2. QED BY <1>c, <2>1, <3>1 DEF Holding
  <2>3. CASE save.st # "ok"
    <3>1. call' = Idle
      BY <1>5, <2>3 DEF GrantReturns, Done
    <3>2. Recs' = file.approved
      BY <1>b, <2>1, KnownNext DEF Empty
    <3>3. QED BY <1>b, <1>e, <2>1, <2>3, <3>1, <3>2 DEF TokensOwned, Holding
  <2>4. QED BY <2>2, <2>3
<1>6. CASE Unpend \/ Unlist
  <2>1. UNCHANGED <<made, told, call>> /\ call.stage \in {"unpend", "unlist"}
    BY <1>6 DEF Unpend, Unlist, At
  <2>2. QED BY <1>c, <2>1 DEF Holding
<1>7. CASE UnpendReturns
  <2>1. UNCHANGED <<file, made>> /\ save' = NoSave /\ call.stage = "unpend"
        /\ Recs' \subseteq Recs
    BY <1>7, MadeByOthers DEF UnpendReturns, Back, Done, NoneMade
  <2>2. CASE save.st = "ok"
    <3>1. told'.granted = told.granted \cup {call.dev} /\ told'.orphaned = told.orphaned
          /\ call' = Idle
      BY <1>7, <2>2 DEF UnpendReturns, Done, TypeOK
    <3>2. QED BY <1>b, <2>1, <3>1 DEF TokensOwned, Holding
  <2>3. CASE save.st # "ok"
    <3>1. UNCHANGED told /\ call'.stage = "rollback" /\ call'.dev = call.dev
      BY <1>7, <1>a, <2>3 DEF UnpendReturns, Calls
    <3>2. QED BY <1>b, <2>1, <3>1 DEF TokensOwned, Holding, Writing
  <2>4. QED BY <2>2, <2>3
<1>8. CASE Rollback
  <2>1. UNCHANGED <<file, made, told, call>> /\ call.stage = "rollback" /\ Recs' \subseteq Recs
    BY <1>8, MadeByOthers DEF Rollback, At, NoneMade
  <2>2. \/ save'.st = "failed"
        \/ save'.st = "writing" /\ \A r \in save'.new.approved : r.dev # call.dev
    BY <1>8, RemoveApprovedEffect DEF Rollback, NoSave
  <2>3. QED BY <2>1, <2>2 DEF TokensOwned, Holding, Writing
<1>9. CASE RollbackReturns
  <2>1. UNCHANGED <<file, made>> /\ save' = NoSave /\ call.stage = "rollback"
        /\ call' = Idle /\ save.st \in {"ok", "failed"}
    BY <1>9 DEF RollbackReturns, Back, Done
  <2>2. told'.granted = told.granted
        /\ told'.orphaned = told.orphaned \cup {d \in {call.dev} : save.st = "failed"}
    BY <1>9 DEF RollbackReturns, TypeOK
  <2>3. Recs' = file.approved
    BY <1>b, <2>1, KnownNext DEF Empty
  <2>4. QED BY <1>b, <1>e, <2>1, <2>2, <2>3 DEF TokensOwned, Holding
<1>10. CASE UnlistReturns \/ (\E i \in Ids : QueryStatus(i)) \/ Tick
  <2>1. /\ UNCHANGED made /\ told'.granted = told.granted /\ told'.orphaned = told.orphaned
        /\ call' = Idle \/ (UNCHANGED <<file, save, call>>)
    BY <1>10 DEF UnlistReturns, QueryStatus, Tick, Done, TypeOK
  <2>2. CASE UNCHANGED <<file, save, call>>
    <3>1. Recs' = Recs
      BY <2>2, KnownNext DEF Recs
    <3>2. QED BY <2>1, <2>2, <3>1 DEF TokensOwned, Holding, Writing
  <2>3. CASE UnlistReturns
    <3>1. call' = Idle /\ call.dev = "none"
      BY <2>3 DEF UnlistReturns, Done, Back, CallShape, Holding
    <3>2. QED BY <1>b, <1>c, <2>1, <3>1 DEF Holding
  <2>4. QED BY <1>10, <2>2, <2>3 DEF QueryStatus, Tick
<1>11. CASE SaveRenames \/ SaveRemoves \/ SaveFails
  <2>1. /\ UNCHANGED <<made, call>> /\ told'.granted = told.granted
        /\ told'.orphaned = told.orphaned /\ Recs' \subseteq Recs
    BY <1>11, MadeByOthers DEF SaveRenames, SaveRemoves, SaveFails, TypeOK, NoneMade
  <2>2. CASE SaveRenames
    <3>1. file' = save.new /\ save'.st = "ok" /\ Writing
      BY <2>2 DEF SaveRenames, Return, NoSave, Writing
    <3>2. QED BY <2>1, <3>1 DEF TokensOwned, Holding, Writing
  <2>3. CASE SaveRemoves
    <3>1. file'.approved = {} /\ save'.st = "removed" /\ save'.new = save.new /\ Writing
      BY <1>a, <2>3 DEF SaveRemoves, Empty, Saves, Writing
    <3>2. QED BY <2>1, <3>1 DEF TokensOwned, Holding, Writing
  <2>4. CASE SaveFails
    <3>1. file' = file /\ save'.st = "failed" /\ Writing
      BY <2>4 DEF SaveFails, Return, NoSave, Writing
    <3>2. QED BY <2>1, <3>1 DEF TokensOwned, Holding, Writing
  <2>5. QED BY <1>11, <2>2, <2>3, <2>4
<1>12. CASE Crash
  <2>1. /\ UNCHANGED <<file, made>> /\ call' = Idle /\ save' = NoSave
        /\ told'.granted = told.granted
        /\ told'.orphaned = told.orphaned \cup {d \in {call.dev} : d # "none"}
    BY <1>12 DEF Crash, TypeOK
  <2>2. Recs' \subseteq Recs
    BY <2>1, MadeByOthers DEF NoneMade
  <2>3. call.dev = "none" \/ call.dev \in made.devs
    BY DEF TokensOwned, CallShape
  <2>4. QED BY <1>b, <2>1, <2>2, <2>3 DEF TokensOwned, Holding
<1>13. CASE UNCHANGED vars
  <2>1. Recs' = Recs
    BY <1>13, KnownNext DEF vars, Recs
  <2>2. QED BY <1>13, <2>1 DEF vars, TokensOwned, Holding, Writing
<1>14. QED
  BY <1>1, <1>2, <1>3, <1>4, <1>5, <1>6, <1>7, <1>8, <1>9, <1>10, <1>11, <1>12, <1>13
     DEF Next

\* There are no tokens at the start.
LEMMA ValidInit == Init => TokensValid
BY DEF Init, TokensValid, Owed, Idle, NoSave, Writing

\* Every step keeps granted tokens valid.
LEMMA ValidStep ==
  TypeOK /\ CallShape /\ TokensOwned /\ TokensValid /\ [Next]_vars => TokensValid'
<1> SUFFICES ASSUME TypeOK, CallShape, TokensOwned, TokensValid, [Next]_vars
             PROVE  TokensValid'
  OBVIOUS
<1> USE DEF Authenticates
<1>a. /\ call \in Calls /\ save \in Saves /\ told.wiped \in BOOLEAN
      /\ told.granted \subseteq Devices
  BY DEF TypeOK, Calls, Saves
<1>b. Idle.stage = "none" /\ NoSave.st = "none"
  BY DEF Idle, NoSave
<1>e. \A d \in told.granted : d \in Owed
  BY DEF Owed
\* Steps that owe no more and leave file and save as they are, or no save.
<1>c. ASSUME UNCHANGED <<file, told>>, Owed' \subseteq Owed,
             UNCHANGED save \/ save'.st \in {"none", "ok", "failed"},
             save.st # "removed",
             call'.stage # "grant"
      PROVE  TokensValid'
  BY <1>c DEF TokensValid, Writing
\* A store call starts that keeps every record of a file it read rightly.
<1>d. ASSUME UNCHANGED <<file, told>>, save.st = "none", Owed' \subseteq Owed,
             call'.stage # "grant",
             \/ save'.st = "failed"
             \/ /\ save'.st = "writing"
                /\ ~save'.misread => save'.new.approved = file.approved
      PROVE  TokensValid'
  BY <1>d DEF TokensValid, Writing
<1>1. CASE \/ StartPairing \/ PurgeReturns \/ RequestReturns \/ NothingToApprove
           \/ \E i \in Ids, code \in Codes : ApprovePairing(i, code)
           \/ \E i \in Ids : RejectPairing(i)
  <2>1. /\ UNCHANGED <<file, told>> /\ call'.stage \in {"none", "purge", "unlist"}
        /\ UNCHANGED save \/ save'.st = "none"
        /\ save.st # "removed"
    BY <1>1, <1>a, <1>b DEF StartPairing, PurgeReturns, RequestReturns, NothingToApprove,
       ApprovePairing, RejectPairing, Done, Idle, CallShape, Back, At
  <2>2. QED BY <1>c, <1>e, <2>1 DEF Owed
<1>2. ASSUME NEW i \in Ids, Purge(i) PROVE TokensValid'
  <2>1. UNCHANGED <<file, told>> /\ save.st = "none" /\ call'.stage = "purge"
    BY <1>2, <1>a DEF Purge, At, Calls
  <2>2. QED BY <1>2, <1>d, <1>e, <2>1, RemovePendingEffect DEF Purge, Owed, NoSave
<1>3. ASSUME NEW i \in Ids, NEW code \in Codes, Request(i, code) PROVE TokensValid'
  <2>1. UNCHANGED <<file, told>> /\ save.st = "none" /\ call'.stage = "request"
    BY <1>3, <1>a DEF Request, At, Calls
  <2>2. [id |-> i, code |-> code, at |-> call.at] \in Requests
    BY <1>a DEF Requests, Calls
  <2>3. QED BY <1>3, <1>d, <1>e, <2>1, <2>2, UpsertPendingEffect DEF Request, Owed
<1>4. ASSUME NEW d \in Devices, Grant(d) PROVE TokensValid'
  <2>1. /\ UNCHANGED <<file, told>> /\ save.st = "none" /\ d \notin made.devs
        /\ call'.stage = "grant" /\ call'.dev = d
    BY <1>4, <1>a DEF Grant, At, Calls
  <2>2. [dev |-> d, for |-> call.id] \in Records
    BY <1>4 DEF Records, Grant, CallShape
  <2>3. /\ save'.st = "writing"
        /\ [dev |-> d, for |-> call.id] \in save'.new.approved
        /\ ~save'.misread => \A r \in file.approved : r.dev # d => r \in save'.new.approved
    BY <1>4, <2>2, UpsertApprovedEffect DEF Grant
  <2>4. Owed' = told.granted /\ d \notin told.granted
    BY <2>1, <2>3 DEF Owed, TokensOwned
  <2>5. ~told.wiped => \A e \in told.granted : Authenticates(e)
    BY <1>e, <2>1 DEF TokensValid
  <2>6. \E r \in save'.new.approved : r.dev = call'.dev
    BY <2>1, <2>3
  <2>7. ~told'.wiped /\ ~save'.misread => \A e \in Owed' : \E r \in save'.new.approved : r.dev = e
    BY <2>1, <2>3, <2>4, <2>5
  <2>8. ~told'.wiped => \A e \in Owed' : Authenticates(e)'
    BY <2>1, <2>4, <2>5
  <2>9. QED BY <2>6, <2>7, <2>8 DEF TokensValid
<1>5. CASE GrantReturns
  <2>1. UNCHANGED <<file, told>> /\ save'.st = "none" /\ save.st \in {"ok", "failed"}
        /\ call.stage = "grant"
    BY <1>5, <1>b DEF GrantReturns, Back, Done
  <2>2. CASE save.st = "ok"
    <3>1. call'.stage = "unpend" /\ call'.dev = call.dev
      BY <1>5, <1>a, <2>2 DEF GrantReturns, Calls
    <3>2. QED BY <1>c, <2>1, <2>2, <3>1 DEF Owed
  <2>3. CASE save.st # "ok"
    <3>1. call'.stage = "none"
      BY <1>5, <1>b, <2>3 DEF GrantReturns, Done
    <3>2. QED BY <1>c, <1>e, <2>1, <3>1 DEF Owed
  <2>4. QED BY <2>2, <2>3
<1>6. CASE Unpend \/ Unlist
  <2>1. UNCHANGED <<file, told, call>> /\ call.stage \in {"unpend", "unlist"} /\ save.st = "none"
    BY <1>6 DEF Unpend, Unlist, At
  <2>2. QED BY <1>6, <1>d, <2>1, RemovePendingEffect DEF Unpend, Unlist, Owed, NoSave
<1>7. CASE UnpendReturns
  <2>1. UNCHANGED file /\ save'.st = "none" /\ save.st \in {"ok", "failed"}
        /\ call.stage = "unpend" /\ told'.wiped = told.wiped
    BY <1>7, <1>b DEF UnpendReturns, Back, Done, TypeOK
  <2>2. Owed' \subseteq Owed
    <3>1. CASE save.st = "ok"
      <4>1. told'.granted = told.granted \cup {call.dev} /\ call'.stage = "none"
        BY <1>7, <1>b, <3>1 DEF UnpendReturns, Done, TypeOK
      <4>2. QED BY <2>1, <4>1 DEF Owed
    <3>2. CASE save.st # "ok"
      <4>1. UNCHANGED told /\ call'.stage = "rollback"
        BY <1>7, <1>a, <3>2 DEF UnpendReturns, Calls
      <4>2. QED BY <4>1 DEF Owed
    <3>3. QED BY <3>1, <3>2
  <2>3. QED BY <2>1, <2>2 DEF TokensValid, Writing
<1>8. CASE Rollback
  <2>1. UNCHANGED <<file, told, call>> /\ call.stage = "rollback" /\ save.st = "none"
        /\ call.dev \notin told.granted
    BY <1>8 DEF Rollback, At, TokensOwned, Holding
  <2>2. \/ save'.st = "failed"
        \/ /\ save'.st = "writing"
           /\ save'.new.approved = {r \in file.approved : r.dev # call.dev}
    BY <1>8, RemoveApprovedEffect DEF Rollback, NoSave
  <2>3. Owed' = told.granted /\ Owed = told.granted
    BY <2>1 DEF Owed
  <2>4. QED BY <2>1, <2>2, <2>3 DEF TokensValid, Writing
<1>9. CASE RollbackReturns \/ UnlistReturns
  <2>1. /\ UNCHANGED file /\ save'.st = "none" /\ save.st \in {"ok", "failed"}
        /\ told'.wiped = told.wiped /\ told'.granted = told.granted /\ call'.stage = "none"
    BY <1>9, <1>b DEF RollbackReturns, UnlistReturns, Back, Done, TypeOK
  <2>2. Owed' \subseteq Owed
    BY <2>1 DEF Owed
  <2>3. QED BY <2>1, <2>2 DEF TokensValid, Writing
<1>10. CASE (\E i \in Ids : QueryStatus(i)) \/ Tick
  <2>1. /\ UNCHANGED <<file, save, call>>
        /\ told'.wiped = told.wiped /\ told'.granted = told.granted
    BY <1>10 DEF QueryStatus, Tick, TypeOK
  <2>2. QED BY <2>1 DEF TokensValid, Owed, Writing
<1>11. CASE SaveRenames
  <2>1. /\ file' = save.new /\ save'.st = "ok" /\ Writing /\ UNCHANGED call
        /\ told'.granted = told.granted /\ told'.wiped = (told.wiped \/ save.misread)
    BY <1>11 DEF SaveRenames, Return, NoSave, Writing, TypeOK
  <2>2. \A d \in Owed' : d \in Owed \/ (d = call.dev /\ call.stage = "grant")
    BY <2>1 DEF Owed
  <2>3. QED BY <2>1, <2>2 DEF TokensValid, Writing
<1>12. CASE SaveRemoves
  <2>1. save'.st = "removed" /\ save'.new = save.new /\ save'.misread = save.misread
        /\ Writing /\ UNCHANGED <<call, told>>
    BY <1>a, <1>12 DEF SaveRemoves, Saves, Writing
  <2>2. Owed' \subseteq Owed
    BY <2>1 DEF Owed
  <2>3. QED BY <2>1, <2>2 DEF TokensValid, Writing
<1>13. CASE SaveFails
  <2>1. /\ file' = file /\ save'.st = "failed" /\ UNCHANGED call
        /\ told'.granted = told.granted /\ told'.wiped = (told.wiped \/ save.st = "removed")
    BY <1>13 DEF SaveFails, Return, NoSave, TypeOK
  <2>2. Owed' \subseteq Owed
    BY <2>1 DEF Owed
  <2>3. QED BY <2>1, <2>2 DEF TokensValid, Writing
<1>14. CASE Crash
  <2>1. /\ file' = file /\ save'.st = "none" /\ call'.stage = "none"
        /\ told'.granted = told.granted /\ told'.wiped = (told.wiped \/ save.st = "removed")
    BY <1>14, <1>b DEF Crash, TypeOK
  <2>2. Owed' \subseteq Owed
    BY <2>1 DEF Owed
  <2>3. QED BY <2>1, <2>2 DEF TokensValid, Writing
<1>15. CASE UNCHANGED vars
  BY <1>15 DEF vars, TokensValid, Owed, Writing
<1>16. QED
  BY <1>1, <1>2, <1>3, <1>4, <1>5, <1>6, <1>7, <1>8, <1>9, <1>10, <1>11, <1>12, <1>13,
     <1>14, <1>15 DEF Next

-----------------------------------------------------------------------------
(* Requests.                                                               *)

\* There are no requests at the start.
LEMMA KnownInit == Init => RequestsKnown
BY DEF Init, RequestsKnown, Pend, Empty, NoSave, Idle

\* A request is stored under an id that no request had, and one that is known
\* has the code it was made with.
LEMMA RequestsKnownStep ==
  TypeOK /\ CallShape /\ RequestsKnown /\ [Next]_vars => RequestsKnown'
<1> SUFFICES ASSUME TypeOK, CallShape, RequestsKnown, [Next]_vars PROVE RequestsKnown'
  OBVIOUS
<1>a. /\ Known \subseteq Requests
      /\ \A p \in Known : p.id \in Ids /\ p.code \in Codes /\ p.code # "none"
  BY KnownTypes, PairingAssumption DEF Requests
<1>b. RequestsKnown <=>
        /\ \A p \in Known : made.code[p.id] = p.code
        /\ \A p, q \in Known : p.id = q.id => p = q
        /\ \A i \in Ids : told.status[i] # "none" => made.code[i] # "none"
  BY DEF RequestsKnown, Known
<1>c. RequestsKnown' <=>
        /\ \A p \in Known' : made'.code[p.id] = p.code
        /\ \A p, q \in Known' : p.id = q.id => p = q
        /\ \A i \in Ids : told'.status[i] # "none" => made'.code[i] # "none"
  BY DEF RequestsKnown, Known
<1>d. ASSUME UNCHANGED made, told'.status = told.status PROVE RequestsKnown'
  BY <1>b, <1>c, <1>d, MadeByOthers DEF NoneMade
<1>1. ASSUME NEW i \in Ids, NEW code \in Codes, Request(i, code) PROVE RequestsKnown'
  <2> DEFINE req == [id |-> i, code |-> code, at |-> call.at]
  <2>1. /\ UNCHANGED told /\ made'.code = [made.code EXCEPT ![i] = code]
        /\ made.code[i] = "none" /\ code # "none"
    BY <1>1, PairingAssumption DEF Request, TypeOK
  <2>2. Known' \subseteq Known \cup {req}
    BY <1>1, MadeByRequest
  <2>3. \A p \in Known : p.id # i
    BY <1>a, <1>b, <2>1
  <2>4. req.id = i /\ req.code = code
    OBVIOUS
  <2> HIDE DEF req
  <2>5. made.code \in [Ids -> Codes \cup {"none"}]
    BY DEF TypeOK
  <2>6. QED BY <1>a, <1>b, <1>c, <2>1, <2>2, <2>3, <2>4, <2>5
<1>2. ASSUME NEW d \in Devices, Grant(d) PROVE RequestsKnown'
  <2>1. UNCHANGED told /\ made'.code = made.code
    BY <1>2 DEF Grant, TypeOK
  <2>2. QED BY <1>2, <1>b, <1>c, <2>1, MadeByGrant
<1>3. ASSUME NEW i \in Ids, QueryStatus(i) PROVE RequestsKnown'
  <2>1. /\ UNCHANGED made /\ made.code[i] # "none"
        /\ \A j \in Ids : j # i => told'.status[j] = told.status[j]
    BY <1>3 DEF QueryStatus, TypeOK
  <2>2. Known' \subseteq Known
    BY <2>1, MadeByOthers DEF NoneMade
  <2>3. QED BY <1>b, <1>c, <2>1, <2>2
<1>4. CASE StartPairing \/ PurgeReturns \/ RequestReturns \/ NothingToApprove \/ GrantReturns
           \/ Unpend \/ Rollback \/ Unlist
  BY <1>4, <1>d DEF StartPairing, PurgeReturns, RequestReturns, NothingToApprove, GrantReturns,
     Unpend, Rollback, Unlist
<1>5. CASE UnpendReturns \/ RollbackReturns \/ UnlistReturns
  BY <1>5, <1>d DEF UnpendReturns, RollbackReturns, UnlistReturns, TypeOK
<1>6. CASE SaveRenames \/ SaveRemoves \/ SaveFails \/ Tick \/ Crash
  BY <1>6, <1>d DEF SaveRenames, SaveRemoves, SaveFails, Tick, Crash, TypeOK
<1>7. ASSUME NEW i \in Ids,
             RejectPairing(i) \/ Purge(i) \/ \E code \in Codes : ApprovePairing(i, code)
      PROVE  RequestsKnown'
  BY <1>7, <1>d DEF RejectPairing, Purge, ApprovePairing
<1>8. CASE UNCHANGED vars
  BY <1>8, <1>d DEF vars
<1>9. QED BY <1>1, <1>2, <1>3, <1>4, <1>5, <1>6, <1>7, <1>8 DEF Next

\* Nothing is settled at the start.
LEMMA SettledInit == Init => RequestsSettledOnce
BY DEF Init, RequestsSettledOnce, Settled, Granted, Recs, Pend, Empty, NoSave, Idle, NoClaim

\* Every step keeps a request settled once.
LEMMA SettledStep ==
  /\ TypeOK /\ CallShape /\ TokensOwned /\ RequestsKnown /\ RequestsSettledOnce
  /\ [Next]_vars
  => RequestsSettledOnce'
<1> SUFFICES ASSUME TypeOK, CallShape, TokensOwned, RequestsKnown, RequestsSettledOnce,
                    [Next]_vars
             PROVE  RequestsSettledOnce'
  OBVIOUS
<1>a. /\ call \in Calls /\ save \in Saves /\ "none" \notin Devices
      /\ Idle.stage = "none" /\ Idle.dev = "none" /\ Idle.seen = {} /\ NoSave.st = "none"
      /\ NoSave.new.pending = {} /\ NoSave.new.approved = {}
  BY PairingAssumption DEF TypeOK, Calls, Saves, Idle, NoSave, Empty
<1>k. /\ Recs \subseteq Records /\ \A r \in Recs : r.dev # "none"
      /\ \A p \in Known : p.id \in Ids /\ made.code[p.id] # "none"
  BY KnownTypes, PairingAssumption DEF Records, Requests, RequestsKnown, Known
<1>s. \A i \in Ids : Settled(i) =>
        made.code[i] # "none" /\ \A p \in Known : p.id # i
  BY DEF RequestsSettledOnce, Known
<1>n. ASSUME \A i \in Ids : Settled(i)' => made'.code[i] # "none" /\ \A p \in Known' : p.id # i,
             \A r \in Recs' : r.dev = call'.dev => r.for = call'.id,
             \A r1, r2 \in Recs' : r1.for = r2.for /\ r1.dev \in told'.granted
                                   /\ r2.dev \in told'.granted => r1 = r2,
             \A r \in Recs' : r.dev \in told'.granted => r.for \notin told'.denied,
             \/ call'.stage \notin {"unpend", "unlist"}
             \/ save'.st \in {"none", "failed"}
             \/ /\ save'.st \in {"writing", "removed"}
                /\ \A p \in save'.new.pending : p.id # call'.id
             \/ save'.st = "ok" /\ \A p \in file'.pending : p.id # call'.id,
             \/ call'.stage # "unlist"
             \/ save'.st \in {"none", "failed"}
             \/ /\ made'.code[call'.id] # "none"
                /\ \A r \in Recs' : r.dev \in told'.granted => r.for # call'.id
      PROVE  RequestsSettledOnce'
  BY <1>n DEF RequestsSettledOnce, Granted, Known, Writing
\* Steps that settle nothing, make nothing and let the call keep its token.
<1>c. ASSUME UNCHANGED made, told'.granted = told.granted, told'.denied = told.denied,
             \A i \in Ids : \/ Settled(i)
                            \/ claims'[i] = NoClaim /\ told'.status[i] # "Approved"
                            \/ UNCHANGED claims /\ told'.status[i] = told.status[i],
             call'.dev = "none" \/ (call'.dev = call.dev /\ call'.id = call.id),
             \/ call'.stage \notin {"unpend", "unlist"}
             \/ save'.st \in {"none", "failed"}
             \/ /\ save'.st \in {"writing", "removed"}
                /\ \A p \in save'.new.pending : p.id # call'.id
             \/ save'.st = "ok" /\ \A p \in file'.pending : p.id # call'.id,
             \/ call'.stage # "unlist"
             \/ save'.st \in {"none", "failed"}
             \/ /\ made'.code[call'.id] # "none"
                /\ \A r \in Recs' : r.dev \in told'.granted => r.for # call'.id
      PROVE  RequestsSettledOnce'
  <2>1. Recs' \subseteq Recs /\ Known' \subseteq Known
    BY <1>c, MadeByOthers DEF NoneMade
  <2>2. \A i \in Ids : Settled(i)' => Settled(i)
    BY <1>c, <2>1 DEF Settled, Granted
  <2>3. /\ \A r \in Recs : r.dev = call.dev => r.for = call.id
        /\ \A r1, r2 \in Recs : r1.for = r2.for /\ r1.dev \in told.granted
                                 /\ r2.dev \in told.granted => r1 = r2
        /\ \A r \in Recs : r.dev \in told.granted => r.for \notin told.denied
    BY DEF RequestsSettledOnce, Granted
  <2>4. \A i \in Ids : Settled(i)' => made'.code[i] # "none" /\ \A p \in Known' : p.id # i
    BY <1>c, <1>s, <2>1, <2>2
  <2>5. \A r \in Recs' : r.dev = call'.dev => r.for = call'.id
    BY <1>c, <1>k, <2>1, <2>3
  <2>6. /\ \A r1, r2 \in Recs' : r1.for = r2.for /\ r1.dev \in told'.granted
                                   /\ r2.dev \in told'.granted => r1 = r2
        /\ \A r \in Recs' : r.dev \in told'.granted => r.for \notin told'.denied
    BY <1>c, <2>1, <2>3
  <2>7. QED BY <1>c, <1>n, <2>4, <2>5, <2>6
<1>1. CASE \/ StartPairing \/ PurgeReturns \/ RequestReturns \/ NothingToApprove
           \/ \E i \in Ids, code \in Codes : ApprovePairing(i, code)
  <2>1. /\ UNCHANGED <<made, told, claims>> /\ call'.stage \in {"none", "purge"}
        /\ call'.dev = "none" /\ call.dev = "none"
    BY <1>1, <1>a DEF StartPairing, PurgeReturns, RequestReturns, NothingToApprove,
       ApprovePairing, Done, Idle, CallShape, Holding, Back, At
  <2>2. QED BY <1>c, <2>1
<1>2. ASSUME NEW i \in Ids, RejectPairing(i) PROVE RequestsSettledOnce'
  <2>1. /\ UNCHANGED <<made, told>> /\ save'.st = "none" /\ call'.dev = "none"
        /\ claims' = [claims EXCEPT ![i] = NoClaim]
    BY <1>2, <1>a DEF RejectPairing, CallShape, Idle
  <2>2. \A j \in Ids : claims'[j] # NoClaim => claims[j] # NoClaim
    BY <2>1 DEF TypeOK
  <2>3. \A j \in Ids : Settled(j) \/ (claims'[j] = NoClaim /\ told'.status[j] # "Approved")
    BY <2>1, <2>2 DEF Settled
  <2>4. QED BY <1>c, <2>1, <2>3
<1>3. ASSUME NEW i \in Ids, Purge(i) PROVE RequestsSettledOnce'
  <2>1. UNCHANGED <<made, told, claims>> /\ call'.stage = "purge" /\ call'.dev = call.dev
        /\ call'.id = call.id
    BY <1>3, <1>a DEF Purge, At, Calls
  <2>2. QED BY <1>c, <2>1
<1>4. ASSUME NEW i \in Ids, NEW code \in Codes, Request(i, code) PROVE RequestsSettledOnce'
  <2> DEFINE req == [id |-> i, code |-> code, at |-> call.at]
  <2>1. /\ UNCHANGED <<told, claims>> /\ made'.code = [made.code EXCEPT ![i] = code]
        /\ made.code[i] = "none" /\ code # "none"
        /\ call'.dev = "none" /\ call'.stage = "request"
    BY <1>4, <1>a, PairingAssumption DEF Request, At, TypeOK, Calls, CallShape, Holding
  <2>2. Recs' \subseteq Recs /\ Known' \subseteq Known \cup {req} /\ req.id = i
    BY <1>4, MadeByRequest
  <2> HIDE DEF req
  <2>3. \A j \in Ids : Settled(j)' => Settled(j)
    BY <2>1, <2>2 DEF Settled, Granted
  <2>4. \A j \in Ids : Settled(j)' => made'.code[j] # "none" /\ \A p \in Known' : p.id # j
    <3>1. made.code \in [Ids -> Codes \cup {"none"}]
      BY DEF TypeOK
    <3>2. QED BY <1>s, <2>1, <2>2, <2>3, <3>1
  <2>5. /\ \A r \in Recs' : r.dev # call'.dev
        /\ \A r1, r2 \in Recs' : r1.for = r2.for /\ r1.dev \in told'.granted
                                  /\ r2.dev \in told'.granted => r1 = r2
        /\ \A r \in Recs' : r.dev \in told'.granted => r.for \notin told'.denied
    BY <1>k, <2>1, <2>2 DEF RequestsSettledOnce, Granted
  <2>6. QED BY <1>n, <2>1, <2>4, <2>5
<1>5. ASSUME NEW d \in Devices, Grant(d) PROVE RequestsSettledOnce'
  <2> DEFINE rec == [dev |-> d, for |-> call.id]
  <2>1. /\ UNCHANGED <<told, claims>> /\ made'.code = made.code /\ d \notin made.devs
        /\ call'.dev = d /\ call'.id = call.id /\ call'.stage = "grant"
    BY <1>5, <1>a DEF Grant, TypeOK, Calls
  <2>2. Recs' \subseteq Recs \cup {rec} /\ Known' \subseteq Known /\ rec.dev = d /\ rec.for = call.id
    BY <1>5, MadeByGrant
  <2> HIDE DEF rec
  <2>3. d \notin told.granted /\ \A r \in Recs : r.dev # d
    BY <2>1 DEF TokensOwned
  <2>4. \A r \in Recs' : r.dev \in told'.granted => r \in Recs
    BY <2>1, <2>2, <2>3
  <2>5. \A j \in Ids : Settled(j)' => Settled(j)
    BY <2>1, <2>4 DEF Settled, Granted
  <2>6. \A j \in Ids : Settled(j)' => made'.code[j] # "none" /\ \A p \in Known' : p.id # j
    BY <1>s, <2>1, <2>2, <2>5
  <2>7. \A r \in Recs' : r.dev = call'.dev => r.for = call'.id
    BY <2>1, <2>2, <2>3
  <2>8. /\ \A r1, r2 \in Recs' : r1.for = r2.for /\ r1.dev \in told'.granted
                                  /\ r2.dev \in told'.granted => r1 = r2
        /\ \A r \in Recs' : r.dev \in told'.granted => r.for \notin told'.denied
    BY <2>1, <2>4 DEF RequestsSettledOnce, Granted
  <2>9. QED BY <1>n, <2>1, <2>6, <2>7, <2>8
<1>6. CASE GrantReturns
  <2>1. /\ UNCHANGED <<made, told, claims>> /\ save'.st = "none"
        /\ call'.dev = "none" \/ (call'.dev = call.dev /\ call'.id = call.id)
    BY <1>6, <1>a DEF GrantReturns, Done, Calls
  <2>2. QED BY <1>c, <2>1
<1>7. CASE Unpend
  <2>1. UNCHANGED <<made, told, claims, call>> /\ call.stage = "unpend"
    BY <1>7 DEF Unpend, At
  <2>2. \/ save'.st = "failed"
        \/ save'.st = "writing" /\ \A p \in save'.new.pending : p.id # call.id
    BY <1>7, RemovePendingEffect DEF Unpend, NoSave
  <2>3. QED BY <1>c, <2>1, <2>2
<1>8. CASE Unlist
  <2>1. UNCHANGED <<made, told, claims, call>> /\ call.stage = "unlist" /\ call.id \in Ids
    BY <1>8 DEF Unlist, At, CallShape
  <2>2. \/ save'.st = "failed"
        \/ /\ save'.st = "writing" /\ \A p \in save'.new.pending : p.id # call.id
           /\ \E p \in file.pending : p.id = call.id
    BY <1>8, RemovePendingEffect DEF Unlist, NoSave
  <2>3. Recs' \subseteq Recs
    BY <2>1, MadeByOthers DEF NoneMade
  <2>4. ASSUME NEW p \in file.pending, p.id = call.id
        PROVE  /\ made.code[call.id] # "none"
               /\ \A r \in Recs : r.dev \in told.granted => r.for # call.id
    <3>1. p \in Known
      BY DEF Known, Pend
    <3>2. ~Settled(call.id)
      BY <1>s, <2>1, <2>4, <3>1
    <3>3. QED BY <1>k, <2>4, <3>1, <3>2 DEF Settled, Granted
  <2>5. QED BY <1>c, <2>1, <2>2, <2>3, <2>4
<1>9. CASE UnpendReturns
  <2>1. UNCHANGED <<file, made>> /\ save' = NoSave /\ call.stage = "unpend"
        /\ call.id \in Ids /\ \E p \in call.seen : p.id = call.id
    BY <1>9 DEF UnpendReturns, Back, Done, CallShape, Holding, Approvable
  <2>2. CASE save.st # "ok"
    <3>1. UNCHANGED <<told, claims>> /\ call'.dev = call.dev /\ call'.id = call.id
      BY <1>9, <1>a, <2>2 DEF UnpendReturns, Calls
    <3>2. QED BY <1>a, <1>c, <2>1, <3>1
  <2>3. CASE save.st = "ok"
    <3>1. /\ told'.granted = told.granted \cup {call.dev} /\ told'.denied = told.denied
          /\ told'.status = told.status /\ call' = Idle
          /\ \A i \in Ids : i # call.id => claims'[i] = claims[i]
      BY <1>9, <2>3 DEF UnpendReturns, Done, TypeOK
    <3>2. Recs' \subseteq Recs /\ Known' \subseteq Known /\ Known' = file.pending
      BY <1>a, <2>1, <3>1, MadeByOthers, KnownNext DEF NoneMade
    <3>3. made.code[call.id] # "none" /\ ~Settled(call.id)
      BY <1>k, <1>s, <2>1 DEF Known
    <3>4. \A p \in Known' : p.id # call.id
      BY <2>1, <2>3, <3>2 DEF RequestsSettledOnce
    <3>5. /\ \A r \in Recs : r.dev = call.dev => r.for = call.id
          /\ \A r \in Recs : r.dev \in told.granted => r.for # call.id
      BY <3>3 DEF RequestsSettledOnce, Settled, Granted
    <3>6. \A i \in Ids : Settled(i)' => Settled(i) \/ i = call.id
      BY <3>1, <3>2, <3>5 DEF Settled, Granted
    <3>7. \A i \in Ids : Settled(i)' => made'.code[i] # "none" /\ \A p \in Known' : p.id # i
      BY <1>s, <2>1, <3>2, <3>3, <3>4, <3>6
    <3>8. \A r1, r2 \in Recs' : r1.for = r2.for /\ r1.dev \in told'.granted
                                 /\ r2.dev \in told'.granted => r1 = r2
      <4>1. \A r1, r2 \in Recs : r1.for = r2.for /\ r1.dev = r2.dev => r1 = r2
        BY <1>k DEF Records
      <4>2. \A r1, r2 \in Recs : r1.for = r2.for /\ r1.dev \in told.granted
                                  /\ r2.dev \in told.granted => r1 = r2
        BY DEF RequestsSettledOnce, Granted
      <4>3. QED BY <3>1, <3>2, <3>5, <4>1, <4>2
    <3>9. \A r \in Recs' : r.dev \in told'.granted => r.for \notin told'.denied
      <4>1. call.id \notin told.denied
        BY <3>3 DEF Settled
      <4>2. QED BY <3>1, <3>2, <3>5, <4>1 DEF RequestsSettledOnce, Granted
    <3>10. \A r \in Recs' : r.dev # call'.dev
      BY <1>a, <1>k, <3>1, <3>2
    <3>11. QED BY <1>a, <1>n, <2>1, <3>1, <3>7, <3>8, <3>9, <3>10
  <2>4. QED BY <2>2, <2>3
<1>10. CASE Rollback \/ RollbackReturns
  <2>1. /\ UNCHANGED <<made, claims>> /\ call'.stage \in {"rollback", "none"}
        /\ told'.granted = told.granted /\ told'.denied = told.denied
        /\ told'.status = told.status
        /\ call'.dev = "none" \/ (call'.dev = call.dev /\ call'.id = call.id)
    BY <1>10, <1>a DEF Rollback, RollbackReturns, At, Done, TypeOK
  <2>2. QED BY <1>c, <2>1
<1>11. CASE UnlistReturns
  <2>1. /\ UNCHANGED <<file, made, claims>> /\ save' = NoSave /\ call' = Idle
        /\ call.stage = "unlist" /\ call.id \in Ids /\ save.st \in {"ok", "failed"}
        /\ told'.granted = told.granted /\ told'.status = told.status
        /\ told'.denied = told.denied \cup {i \in {call.id} : save.st = "ok"}
    BY <1>11 DEF UnlistReturns, Back, Done, CallShape, TypeOK
  <2>2. CASE save.st = "failed"
    BY <1>a, <1>c, <2>1, <2>2
  <2>3. CASE save.st = "ok"
    <3>1. /\ made.code[call.id] # "none"
          /\ \A r \in Recs : r.dev \in told.granted => r.for # call.id
          /\ \A p \in file.pending : p.id # call.id
      BY <2>1, <2>3 DEF RequestsSettledOnce, Granted
    <3>2. Recs' \subseteq Recs /\ Known' \subseteq Known /\ Known' = file.pending
      BY <1>a, <2>1, MadeByOthers, KnownNext DEF NoneMade
    <3>3. \A i \in Ids : Settled(i)' => Settled(i) \/ i = call.id
      BY <2>1, <3>2 DEF Settled, Granted
    <3>4. \A i \in Ids : Settled(i)' => made'.code[i] # "none" /\ \A p \in Known' : p.id # i
      BY <1>s, <2>1, <3>1, <3>2, <3>3
    <3>5. /\ \A r1, r2 \in Recs' : r1.for = r2.for /\ r1.dev \in told'.granted
                                   /\ r2.dev \in told'.granted => r1 = r2
          /\ \A r \in Recs' : r.dev \in told'.granted => r.for \notin told'.denied
      BY <2>1, <3>1, <3>2 DEF RequestsSettledOnce, Granted
    <3>6. \A r \in Recs' : r.dev # call'.dev
      BY <1>a, <1>k, <2>1, <3>2
    <3>7. QED BY <1>a, <1>n, <2>1, <3>4, <3>5, <3>6
  <2>4. QED BY <2>1, <2>2, <2>3
<1>12. ASSUME NEW i \in Ids, QueryStatus(i) PROVE RequestsSettledOnce'
  <2>1. PICK load \in Loads :
          told' = [told EXCEPT !.status[i] = StatusOf(i, made.code[i], load)]
    BY <1>12 DEF QueryStatus
  <2>2. /\ UNCHANGED <<file, save, claims, made, call>> /\ call.stage = "none"
        /\ told'.granted = told.granted /\ told'.denied = told.denied
        /\ \A j \in Ids : j # i => told'.status[j] = told.status[j]
    BY <1>12, <1>a, <2>1 DEF QueryStatus, TypeOK
  <2>3. told'.status[i] = "Approved" => claims[i] # NoClaim
    <3>1. told'.status[i] = StatusOf(i, made.code[i], load)
      BY <2>1 DEF TypeOK
    <3>2. QED BY <3>1 DEF StatusOf
  <2>4. \A j \in Ids : \/ Settled(j)
                       \/ claims'[j] = NoClaim /\ told'.status[j] # "Approved"
    BY <2>2, <2>3 DEF Settled
  <2>5. QED BY <1>c, <2>2, <2>4
<1>13. CASE SaveRenames \/ SaveRemoves \/ SaveFails
  <2>1. /\ UNCHANGED <<made, claims, call>> /\ told'.granted = told.granted
        /\ told'.denied = told.denied /\ told'.status = told.status /\ Writing
    BY <1>13 DEF SaveRenames, SaveRemoves, SaveFails, TypeOK, Writing
  <2>2. \/ save'.st = "failed"
        \/ save'.st = "ok" /\ file' = save.new
        \/ save'.st = "removed" /\ save'.new = save.new
    BY <1>13, <1>a DEF SaveRenames, SaveRemoves, SaveFails, Return, NoSave, Saves
  <2>3. Recs' \subseteq Recs
    BY <2>1, MadeByOthers DEF NoneMade
  <2>4. call.stage \in {"unpend", "unlist"} => \A p \in save.new.pending : p.id # call.id
    BY <2>1 DEF RequestsSettledOnce
  <2>5. call.stage = "unlist" =>
          /\ made.code[call.id] # "none"
          /\ \A r \in Recs : r.dev \in told.granted => r.for # call.id
    BY <2>1 DEF RequestsSettledOnce, Granted, Writing
  <2>6. QED BY <1>c, <2>1, <2>2, <2>3, <2>4, <2>5
<1>14. CASE Crash
  <2>1. /\ UNCHANGED made /\ \A i \in Ids : claims'[i] = NoClaim
        /\ told'.granted = told.granted /\ told'.denied = told.denied
        /\ told'.status = told.status /\ call'.dev = "none" /\ call'.stage = "none"
    BY <1>14, <1>a DEF Crash, TypeOK
  <2>2. \A i \in Ids : Settled(i) \/ (claims'[i] = NoClaim /\ told'.status[i] # "Approved")
    BY <2>1 DEF Settled
  <2>3. QED BY <1>c, <2>1, <2>2
<1>15. CASE Tick \/ UNCHANGED vars
  <2>1. UNCHANGED <<file, save, claims, call, made, told>>
    BY <1>15 DEF Tick, vars
  <2>2. Recs' = Recs /\ Known' = Known /\ Pend' = Pend
    BY <2>1, KnownNext DEF Recs, Pend, Known
  <2>3. QED BY <2>1, <2>2 DEF RequestsSettledOnce, Settled, Granted, Writing
<1>16. QED
  BY <1>1, <1>2, <1>3, <1>4, <1>5, <1>6, <1>7, <1>8, <1>9, <1>10, <1>11, <1>12, <1>13,
     <1>14, <1>15 DEF Next
-----------------------------------------------------------------------------
(* Answers.                                                                *)

\* Nothing has expired at the start.
LEMMA ExpiryInit == Init => ExpiryIsFinal
BY DEF Init, ExpiryIsFinal

\* A request that has expired stays so, and its age is that of the only
\* request with its id.
LEMMA ExpiryStep ==
  TypeOK /\ CallShape /\ RequestsKnown /\ ExpiryIsFinal /\ [Next]_vars => ExpiryIsFinal'
<1> SUFFICES ASSUME TypeOK, CallShape, RequestsKnown, ExpiryIsFinal, [Next]_vars
             PROVE  ExpiryIsFinal'
  OBVIOUS
<1>a. call \in Calls /\ now \in 0 .. MaxTime /\ Idle.seen = {} /\ TTL \in Int /\ MaxTime \in Nat
  BY PairingAssumption DEF TypeOK, Calls, Idle
<1>k. /\ Known \subseteq Requests /\ Pend \subseteq Known /\ file.pending \subseteq Pend
      /\ \A p \in Known : p.at \in 0 .. MaxTime
      /\ \A p, q \in Known : p.id = q.id => p = q
  BY KnownTypes DEF Known, Pend, Requests, RequestsKnown
<1>n. ASSUME \A i \in Ids : told'.status[i] = "Expired" =>
               /\ claims'[i] = NoClaim
               /\ \A p \in Pend' : p.id = i => IsExpired(p, now')
               /\ \A p \in call'.seen : p.id = i => IsExpired(p, call'.at)
      PROVE  ExpiryIsFinal'
  BY <1>n DEF ExpiryIsFinal, IsExpired
\* Steps that tell nobody anything and approve nothing.
<1>c. ASSUME UNCHANGED <<made, now>>, told'.status = told.status,
             \A i \in Ids : claims'[i] = claims[i] \/ claims'[i] = NoClaim,
             call'.seen = {} \/ (call'.seen = call.seen /\ call'.at = call.at)
      PROVE  ExpiryIsFinal'
  <2>1. Pend' \subseteq Pend
    BY <1>c, MadeByOthers DEF NoneMade
  <2>2. ASSUME NEW i \in Ids, told'.status[i] = "Expired"
        PROVE  /\ claims'[i] = NoClaim
               /\ \A p \in Pend' : p.id = i => IsExpired(p, now')
               /\ \A p \in call'.seen : p.id = i => IsExpired(p, call'.at)
    BY <1>c, <2>1, <2>2 DEF ExpiryIsFinal
  <2>3. QED BY <1>n, <2>2
<1>1. CASE \/ StartPairing \/ PurgeReturns \/ RequestReturns \/ NothingToApprove
           \/ GrantReturns \/ Unpend \/ Rollback \/ Unlist
  <2>1. /\ UNCHANGED <<made, now, told, claims>>
        /\ call'.seen = {} \/ (call'.seen = call.seen /\ call'.at = call.at)
    BY <1>1, <1>a DEF StartPairing, PurgeReturns, RequestReturns, NothingToApprove,
       GrantReturns, Unpend, Rollback, Unlist, Done, Idle, Calls
  <2>2. QED BY <1>c, <2>1
<1>2. CASE RollbackReturns \/ UnlistReturns
  <2>1. /\ UNCHANGED <<made, now, claims>> /\ told'.status = told.status /\ call'.seen = {}
    BY <1>2, <1>a DEF RollbackReturns, UnlistReturns, Done, TypeOK
  <2>2. QED BY <1>c, <2>1
<1>3. ASSUME NEW i \in Ids, RejectPairing(i) \/ Purge(i) PROVE ExpiryIsFinal'
  <2>1. /\ UNCHANGED <<made, now, told>>
        /\ \A j \in Ids : claims'[j] = claims[j] \/ claims'[j] = NoClaim
        /\ call'.seen = {} \/ (call'.seen = call.seen /\ call'.at = call.at)
    BY <1>3, <1>a DEF RejectPairing, Purge, Idle, Calls, TypeOK
  <2>2. QED BY <1>c, <2>1
<1>4. ASSUME NEW i \in Ids, NEW code \in Codes, ApprovePairing(i, code) PROVE ExpiryIsFinal'
  <2>1. /\ UNCHANGED <<file, save, made, now, told, claims>>
        /\ call'.seen \subseteq file.pending /\ call'.at = now
    BY <1>4 DEF ApprovePairing, Loads, Idle, Empty
  <2>2. Pend' = Pend
    BY <2>1, KnownNext DEF Pend
  <2>3. QED BY <1>k, <1>n, <2>1, <2>2 DEF ExpiryIsFinal
<1>5. ASSUME NEW i \in Ids, NEW code \in Codes, Request(i, code) PROVE ExpiryIsFinal'
  <2> DEFINE req == [id |-> i, code |-> code, at |-> call.at]
  <2>1. /\ UNCHANGED <<now, told, claims>> /\ made.code[i] = "none"
        /\ call'.seen = call.seen /\ call'.at = call.at
    BY <1>5, <1>a DEF Request, Calls
  <2>2. Pend' \subseteq Pend \cup {req} /\ req.id = i
    BY <1>5, MadeByRequest
  <2> HIDE DEF req
  <2>3. told.status[i] # "Expired"
    BY <2>1 DEF RequestsKnown
  <2>4. QED BY <1>n, <2>1, <2>2, <2>3 DEF ExpiryIsFinal
<1>6. ASSUME NEW d \in Devices, Grant(d) PROVE ExpiryIsFinal'
  <2>1. UNCHANGED <<now, told, claims>> /\ call'.seen = call.seen /\ call'.at = call.at
    BY <1>6, <1>a DEF Grant, Calls
  <2>2. Pend' \subseteq Pend
    BY <1>6, MadeByGrant
  <2>3. QED BY <1>n, <2>1, <2>2 DEF ExpiryIsFinal
<1>7. CASE UnpendReturns
  <2>1. CASE save.st # "ok"
    <3>1. /\ UNCHANGED <<made, now, told, claims>>
          /\ call'.seen = call.seen /\ call'.at = call.at
      BY <1>7, <1>a, <2>1 DEF UnpendReturns, Calls
    <3>2. QED BY <1>c, <3>1
  <2>2. CASE save.st = "ok"
    <3>1. /\ UNCHANGED <<made, now>> /\ told'.status = told.status /\ call'.seen = {}
          /\ \A j \in Ids : j # call.id => claims'[j] = claims[j]
      BY <1>7, <1>a, <2>2 DEF UnpendReturns, Done, TypeOK
    <3>2. PICK p \in call.seen : p.id = call.id /\ ~IsExpired(p, call.at)
      BY <1>7 DEF UnpendReturns, Back, CallShape, Holding, Approvable
    <3>3. call.id \in Ids /\ told.status[call.id] # "Expired"
      BY <1>7, <3>2 DEF UnpendReturns, Back, CallShape, Holding, ExpiryIsFinal
    <3>4. Pend' \subseteq Pend
      BY <3>1, MadeByOthers DEF NoneMade
    <3>5. QED BY <1>n, <3>1, <3>3, <3>4 DEF ExpiryIsFinal
  <2>3. QED BY <2>1, <2>2
<1>8. ASSUME NEW i \in Ids, QueryStatus(i) PROVE ExpiryIsFinal'
  <2>1. PICK load \in Loads :
          told' = [told EXCEPT !.status[i] = StatusOf(i, made.code[i], load)]
    BY <1>8 DEF QueryStatus
  <2>2. /\ UNCHANGED <<file, save, claims, call, now>> /\ call.seen = {}
        /\ told'.status[i] = StatusOf(i, made.code[i], load)
        /\ \A j \in Ids : j # i => told'.status[j] = told.status[j]
    BY <1>8, <1>a, <2>1 DEF QueryStatus, TypeOK
  <2>3. Pend' = Pend
    BY <2>2, KnownNext DEF Pend
  <2>4. ASSUME told'.status[i] = "Expired"
        PROVE  claims[i] = NoClaim /\ \A p \in Pend : p.id = i => IsExpired(p, now)
    <3>1. /\ claims[i] = NoClaim
          /\ \E p \in load.pending : p.id = i /\ IsExpired(p, now)
      BY <2>2, <2>4 DEF StatusOf
    <3>2. load.pending \subseteq Pend
      BY <1>k DEF Loads, Empty
    <3>3. QED BY <1>k, <3>1, <3>2
  <2>5. QED BY <1>n, <2>2, <2>3, <2>4 DEF ExpiryIsFinal
<1>9. CASE SaveRenames \/ SaveRemoves \/ SaveFails
  <2>1. UNCHANGED <<made, now, claims, call>> /\ told'.status = told.status
    BY <1>9 DEF SaveRenames, SaveRemoves, SaveFails, TypeOK
  <2>2. QED BY <1>c, <2>1
<1>10. CASE Tick
  <2>1. UNCHANGED <<file, save, claims, call, told>> /\ now' = now + 1
    BY <1>10 DEF Tick
  <2>2. Pend' = Pend
    BY <2>1, KnownNext DEF Pend
  <2>3. \A p \in Pend : IsExpired(p, now) => IsExpired(p, now')
    BY <1>a, <1>k, <2>1 DEF IsExpired
  <2>4. QED BY <1>n, <2>1, <2>2, <2>3 DEF ExpiryIsFinal
<1>11. CASE Crash
  <2>1. /\ UNCHANGED <<made, now>> /\ told'.status = told.status /\ call'.seen = {}
        /\ \A i \in Ids : claims'[i] = NoClaim
    BY <1>11, <1>a DEF Crash, TypeOK
  <2>2. QED BY <1>c, <2>1
<1>12. CASE UNCHANGED vars
  BY <1>12, <1>c DEF vars
<1>13. QED
  BY <1>1, <1>2, <1>3, <1>4, <1>5, <1>6, <1>7, <1>8, <1>9, <1>10, <1>11, <1>12 DEF Next

\* An answer that follows another one: a settled request is not found pending,
\* and one that expired is found expired or not at all.
LEMMA AnswersSettle ==
  TypeOK /\ RequestsSettledOnce /\ ExpiryIsFinal /\ [Next]_vars =>
    \A i \in Ids :
      /\ told.status[i] = "Expired" => told'.status[i] \notin {"Pending", "Approved"}
      /\ told.status[i] = "Approved" => told'.status[i] \notin {"Pending", "Expired"}
<1> SUFFICES ASSUME TypeOK, RequestsSettledOnce, ExpiryIsFinal, [Next]_vars, NEW i \in Ids
             PROVE  /\ told.status[i] = "Expired" =>
                         told'.status[i] \notin {"Pending", "Approved"}
                    /\ told.status[i] = "Approved" =>
                         told'.status[i] \notin {"Pending", "Expired"}
  OBVIOUS
<1>1. CASE told'.status[i] = told.status[i]
  BY <1>1
<1>2. CASE QueryStatus(i)
  <2>1. PICK load \in Loads : told'.status[i] = StatusOf(i, made.code[i], load)
    BY <1>2 DEF QueryStatus, TypeOK
  <2>2. load.pending \subseteq Pend
    BY DEF Loads, Empty, Pend
  <2>3. CASE told.status[i] = "Expired"
    <3>1. claims[i] = NoClaim /\ \A p \in load.pending : p.id = i => IsExpired(p, now)
      BY <2>2, <2>3 DEF ExpiryIsFinal
    <3>2. StatusOf(i, made.code[i], load) \in {"Expired", "Rejected"}
      BY <3>1 DEF StatusOf
    <3>3. QED BY <2>1, <2>3, <3>2
  <2>4. CASE told.status[i] = "Approved"
    <3>1. \A p \in load.pending : p.id # i
      BY <2>2, <2>4 DEF RequestsSettledOnce, Settled
    <3>2. StatusOf(i, made.code[i], load) \in {"Approved", "Rejected"}
      BY <3>1 DEF StatusOf
    <3>3. QED BY <2>1, <2>4, <3>2
  <2>5. QED BY <2>3, <2>4
<1>3. ASSUME NEW j \in Ids, QueryStatus(j), j # i PROVE told'.status[i] = told.status[i]
  BY <1>3 DEF QueryStatus, TypeOK
<1>4. ASSUME ~QueryStatus(i) PROVE told'.status[i] = told.status[i]
  BY <1>3, <1>4 DEF Next, vars, StartPairing, PurgeReturns, RequestReturns, NothingToApprove,
     GrantReturns, Unpend, UnpendReturns, Rollback, RollbackReturns, Unlist, UnlistReturns,
     SaveRenames, SaveRemoves, SaveFails, Tick, Crash, RejectPairing, Purge, ApprovePairing,
     Request, Grant, TypeOK
<1>5. QED BY <1>1, <1>2, <1>4

-----------------------------------------------------------------------------
(* The theorems.                                                           *)

\* The invariants above hold together: what the file holds agrees with what
\* the service has answered, at every store call, crash and failed write.
PairingInv ==
  /\ TypeOK /\ CallShape /\ TokensOwned /\ TokensValid
  /\ RequestsKnown /\ RequestsSettledOnce /\ ExpiryIsFinal

\* The inductive invariant: what the file will have once the call in progress
\* is through agrees with what clients were told (pairing.rs, file_store.rs).
THEOREM PairingInvariant == Spec => []PairingInv
<1>1. Init => PairingInv
  BY TypesInit, ShapeInit, OwnedInit, ValidInit, KnownInit, SettledInit, ExpiryInit
     DEF PairingInv
<1>2. PairingInv /\ [Next]_vars => PairingInv'
  BY TypesStep, ShapeStep, OwnedStep, ValidStep, RequestsKnownStep, SettledStep, ExpiryStep
     DEF PairingInv
<1>3. QED BY <1>1, <1>2, PTL DEF Spec

\* A token that authenticates was handed out, is held by approve_pairing, or
\* was left over by a crash or a rollback that could not be written.
THEOREM TokensHaveOwners == Spec => []TokenHasOwner
<1>1. PairingInv => TokenHasOwner
  BY DEF PairingInv, TokensOwned, TokenHasOwner, Recs
<1>2. QED BY <1>1, PairingInvariant, PTL

\* A token that approve_pairing handed out authenticates for good, unless a
\* load failed before a write or write_file_atomically lost the file.
THEOREM GrantedTokensStayValid == Spec => []GrantedStaysValid
<1>1. PairingInv => GrantedStaysValid
  BY DEF PairingInv, TokensValid, GrantedStaysValid, Owed
<1>2. QED BY <1>1, PairingInvariant, PTL

\* approve_pairing hands out one token for a request, however often it is
\* called for it and whatever fails.
THEOREM RequestsAreGrantedOnce == Spec => []OneTokenPerRequest
<1>1. PairingInv => OneTokenPerRequest
  BY DEF PairingInv, RequestsSettledOnce, OneTokenPerRequest, Recs, Granted
<1>2. QED BY <1>1, PairingInvariant, PTL

\* No request has a token in the file from an approve_pairing that succeeded and
\* was rejected by a reject_pairing that succeeded.
THEOREM ApprovalExcludesRejection == Spec => []GrantedOrDenied
<1>1. PairingInv => GrantedOrDenied
  BY DEF PairingInv, RequestsSettledOnce, GrantedOrDenied, Recs, Granted
<1>2. QED BY <1>1, PairingInvariant, PTL

\* get_pairing_claim_status does not answer Pending or Approved after Expired,
\* nor Pending or Expired after Approved. (After Rejected it may answer anything.)
THEOREM AnswersDoNotGoBack == Spec => StatusSettles
<1>1. PairingInv /\ [Next]_vars =>
        [\A i \in Ids :
           /\ told.status[i] = "Expired" => told'.status[i] \notin {"Pending", "Approved"}
           /\ told.status[i] = "Approved" => told'.status[i] \notin {"Pending", "Expired"}]_vars
  BY AnswersSettle DEF PairingInv
<1>2. QED BY <1>1, PairingInvariant, PTL DEF Spec, StatusSettles
=============================================================================
