---------------------------- MODULE Enforcement ----------------------------
(***************************************************************************)
(* When the data-quality check starts to refuse requests of revisions that *)
(* are not registered: register_monitor_v2_revision.py puts a candidate of *)
(* the LCS service in the revision ledger, and once the candidate has been *)
(* promoted activate_monitor_v2_enforcement.py records on its row the time *)
(* from which the check is strict.  It waits until every request that an   *)
(* old revision had accepted by then has run into its timeout.             *)
(*                                                                         *)
(* The LCS service and its promotion are external; a promotion's receipt   *)
(* names the revisions that served before and the time traffic was read    *)
(* back.  Times are whole slots: a request cut off after T slots occupies  *)
(* the slots since .. since+T-1.  A refused check and a crash are Abort.   *)
(***************************************************************************)
EXTENDS Naturals, FiniteSets, FiniteSetsExt

CONSTANTS
  Version,          \* revisions of the LCS service
  Timeout,          \* Timeout[v]: its request timeout
  First,            \* the revision that serves at first
  Sample,           \* candidate requests a registration can be proved from
  Activator, Path,   \* runs of the activation; files given as --receipt-output
  MaxTime, MaxMoves, MaxRequests,   \* bounds: slots, traffic changes, requests in flight
  Nothing

VARIABLES
  now,
  serving, moves,   \* revisions with positive traffic; how often it changed
  requests,         \* requests in flight
  promotions,       \* promotion receipts
  ledger,           \* the row of each revision
  output,           \* activation receipts
  at, proof, readback, row   \* each run: its step, its promotion receipt, the
                             \* service it read, the row it read back

service   == <<serving, moves>>
operators == <<at, proof, readback, row>>
evars     == <<now, service, requests, promotions, ledger, output, operators>>

Unregistered == [sample |-> Nothing, proof |-> Nothing, start |-> Nothing, readback |-> Nothing]
Promotion == [target : Version, old : SUBSET Version, at : 0..MaxTime]
Row == [sample : Sample \cup {Nothing}, proof : Promotion \cup {Nothing},
        start : 0..MaxTime \cup {Nothing}, readback : 0..MaxMoves \cup {Nothing}]

(* A service has finitely many revisions, each with a positive timeout.    *)
EnforcementAssumption ==
  /\ IsFiniteSet(Version) /\ First \in Version /\ Timeout \in [Version -> Nat \ {0}]
  /\ MaxTime \in Nat /\ MaxMoves \in Nat
  /\ Nothing \notin Sample \cup Promotion \cup Row \cup 0..MaxTime

EnforcementTypeOK ==
  /\ now \in 0..MaxTime /\ moves \in 0..MaxMoves
  /\ serving \in (SUBSET Version) \ {{}} /\ requests \subseteq [by : Version, since : 0..MaxTime]
  /\ promotions \subseteq Promotion
  /\ ledger \in [Version -> Row] /\ output \in [Path -> Row \cup {Nothing}]
  /\ at \in [Activator -> {"idle", "validated", "live", "committed"}]
  /\ proof \in [Activator -> promotions \cup {Nothing}]
  /\ readback \in [Activator -> 0..MaxMoves \cup {Nothing}]
  /\ row \in [Activator -> Row \cup {Nothing}]

EnforcementInit ==
  /\ now = 0 /\ moves = 0 /\ requests = {} /\ promotions = {}
  /\ serving = {First}
  /\ ledger = [v \in Version |-> Unregistered]
  /\ output = [f \in Path |-> Nothing]
  /\ at = [p \in Activator |-> "idle"]
  /\ proof = [p \in Activator |-> Nothing] /\ readback = proof /\ row = proof

----------------------------------------------------------------------------
(* The LCS service.                                                        *)

Arrive(v) ==
  /\ v \in serving /\ Cardinality(requests) < MaxRequests
  /\ requests' = requests \cup {[by |-> v, since |-> now]}
  /\ UNCHANGED <<now, service, promotions, ledger, output, operators>>

Respond(q) ==
  /\ requests' = requests \ {q}
  /\ UNCHANGED <<now, service, promotions, ledger, output, operators>>

Pass ==
  /\ now < MaxTime /\ \A q \in requests : now + 1 < q.since + Timeout[q.by]
  /\ now' = now + 1
  /\ UNCHANGED <<service, requests, promotions, ledger, output, operators>>

(* Traffic is split or rolled back by hand, or promoted with a receipt.    *)
Shift(s) ==
  /\ moves < MaxMoves /\ s # serving
  /\ serving' = s /\ moves' = moves + 1
  /\ UNCHANGED <<now, requests, promotions, ledger, output, operators>>

PromoteVersion(v) ==
  /\ moves < MaxMoves /\ v \notin serving
  /\ serving' = {v} /\ moves' = moves + 1
  /\ promotions' = promotions \cup {[target |-> v, old |-> serving, at |-> now]}
  /\ UNCHANGED <<now, requests, ledger, output, operators>>

----------------------------------------------------------------------------
(* Registration: one transaction, which never replaces another sample.     *)

Register(v, s) ==
  /\ ledger[v] = Unregistered
  /\ ledger' = [ledger EXCEPT ![v].sample = s]
  /\ UNCHANGED <<now, service, requests, promotions, output, operators>>

----------------------------------------------------------------------------
(* Activation.                                                             *)

DrainFirst(r) == r.at + Min({Timeout[v] : v \in r.old})
DrainUntil(r) == r.at + Max({Timeout[v] : v \in r.old})

To(p, step) == at' = [at EXCEPT ![p] = step]

Validate(p, r) ==
  /\ at[p] = "idle" /\ r \in promotions /\ now >= DrainUntil(r)
  /\ To(p, "validated")
  /\ proof' = [proof EXCEPT ![p] = r]
  /\ UNCHANGED <<now, service, requests, promotions, ledger, output, readback, row>>

ReadLive(p) ==
  /\ at[p] = "validated" /\ serving = {proof[p].target}
  /\ To(p, "live")
  /\ readback' = [readback EXCEPT ![p] = moves]
  /\ UNCHANGED <<now, service, requests, promotions, ledger, output, proof, row>>

(* The ledger row once the transaction has written it or found it written. *)
Activated(p) ==
  LET old == ledger[proof[p].target]
  IN IF old.start = Nothing
     THEN [old EXCEPT !.proof = proof[p], !.start = now, !.readback = readback[p]]
     ELSE old

(* What the transaction asserts: drained by BigQuery's clock, registered,  *)
(* and not activated by another promotion.                                 *)
Activatable(p) ==
  LET old == ledger[proof[p].target]
  IN /\ now >= DrainUntil(proof[p])
     /\ old.sample # Nothing /\ old.proof \in {Nothing, proof[p]}

Activate(p) ==
  /\ at[p] = "live" /\ Activatable(p)
  /\ ledger' = [ledger EXCEPT ![proof[p].target] = Activated(p)]
  /\ row' = [row EXCEPT ![p] = Activated(p)]
  /\ To(p, "committed")
  /\ UNCHANGED <<now, service, requests, promotions, output, proof, readback>>

Done(p) ==
  /\ To(p, "idle")
  /\ proof' = [proof EXCEPT ![p] = Nothing]
  /\ readback' = [readback EXCEPT ![p] = Nothing]
  /\ row' = [row EXCEPT ![p] = Nothing]

(* The receipt is linked under its name only if the name is free; a rerun  *)
(* accepts a file that says what the ledger says.                          *)
WriteReceipt(p, f) ==
  /\ at[p] = "committed" /\ output[f] \in {Nothing, row[p]}
  /\ output' = [output EXCEPT ![f] = row[p]]
  /\ Done(p)
  /\ UNCHANGED <<now, service, requests, promotions, ledger>>

Abort(p) ==
  /\ at[p] # "idle"
  /\ Done(p)
  /\ UNCHANGED <<now, service, requests, promotions, ledger, output>>

EnforcementNext ==
  \/ Pass
  \/ \E v \in Version : Arrive(v) \/ PromoteVersion(v) \/ \E s \in Sample : Register(v, s)
  \/ \E q \in requests : Respond(q)
  \/ \E s \in (SUBSET Version) \ {{}} : Shift(s)
  \/ \E p \in Activator :
       \/ \E r \in promotions : Validate(p, r)
       \/ ReadLive(p) \/ Activate(p) \/ \E f \in Path : WriteReceipt(p, f)
       \/ Abort(p)

EnforcementSpec == EnforcementInit /\ [][EnforcementNext]_evars

----------------------------------------------------------------------------
(* Properties.                                                             *)

(* Once a revision's activation is in the ledger, no request is in flight  *)
(* that a revision named in its promotion receipt had accepted by the time *)
(* traffic was read back, so none can be logged as a late violation.       *)
OldRequestsDrained ==
  \A v \in Version : ledger[v].start # Nothing =>
    ~\E q \in requests : q.by \in ledger[v].proof.old /\ q.since <= ledger[v].proof.at

(* An activation receipt says what the ledger says, whoever wrote it and   *)
(* wherever a run stopped: the row of an activation never changes again.   *)
ReceiptsMatchLedger ==
  \A f \in Path : output[f] # Nothing => ledger[output[f].proof.target] = output[f]

EnforcementIsTrue == OldRequestsDrained /\ ReceiptsMatchLedger
=============================================================================
