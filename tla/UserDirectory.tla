--------------------------- MODULE UserDirectory ---------------------------
(***************************************************************************)
(* The roster and label directory of app/repositories/user_directory.py    *)
(* as UserManagementService drives it.  A request reads documents first    *)
(* and decides, then commits in one Firestore transaction that re-reads    *)
(* what it touches.  Between the two, other requests and the projector's   *)
(* identity binding commit.  Unique values are owned by claim documents;   *)
(* documents older than the claims, the legacy ones, have none, also those *)
(* of users whose chat identity is bound already.                          *)
(*                                                                         *)
(* The roster id of a new user is the hash of the email it is created      *)
(* with, here that email; a legacy user can have any id.  A revision       *)
(* (updated_at) is the number of the write.                                *)
(* The chat document and the subject of an identity are bound and claimed  *)
(* together: here they are one root.  A request that commits found its     *)
(* document unchanged since it read it, so its reads are one step.         *)
(***************************************************************************)
EXTENDS Integers, FiniteSets

CONSTANTS
  Email, Label, Name, Admin,
  Id,                     \* roster ids
  Root, RootEmail,        \* verified chat roots, and their email
  LegacyUsers,            \* the users there may be without claims, by id
  LegacyLabel,            \* the labels without claims, with their names
  None,
  MaxWrites               \* bound: committed transactions

ASSUME DirectoryAssumption ==
  /\ RootEmail \in [Root -> Email] /\ MaxWrites \in Nat
  /\ Email \subseteq Id /\ DOMAIN LegacyLabel \subseteq Label
  /\ \A l \in DOMAIN LegacyLabel : LegacyLabel[l] \in Name
  /\ \A old \in LegacyUsers :
       /\ DOMAIN old \subseteq Id
       /\ \A id \in DOMAIN old :
            old[id] \in [email : Email, bound : Root \cup {None}, labels : SUBSET DOMAIN LegacyLabel]
  /\ None \notin Id \cup Label \cup Name \cup Root

VARIABLES
  users, labels,               \* documents, by roster id and label id
  emailClaim, rootClaim, nameClaim,   \* claim documents: the owner of a value
  writes,                      \* committed transactions
  request,                     \* what each admin has decided and not committed
  listed                       \* the projector's list of users, by email

directory == <<users, labels, emailClaim, rootClaim, nameClaim, writes>>
vars == <<directory, request, listed>>

UserDoc  == [email : Email, bound : Root \cup {None}, labels : SUBSET Label, rev : 0..MaxWrites]
LabelDoc == [name : Name, active : BOOLEAN, rev : 0..MaxWrites]
Entry    == [id : Id, bound : Root \cup {None}]
(* No document is mistaken for a missing one.                              *)
ASSUME MissingAssumption == None \notin UserDoc \cup LabelDoc \cup Entry

Existing(docs) == {d \in DOMAIN docs : docs[d] # None}

Idle == [op |-> "none"]

TypeOK ==
  /\ \A id \in Id : users[id] = None \/ users[id] \in UserDoc
  /\ \A l \in Label : labels[l] = None \/ labels[l] \in LabelDoc
  /\ emailClaim \in [Email -> Id \cup {None}]
  /\ rootClaim \in [Root -> Id \cup {None}]
  /\ nameClaim \in [Name -> Label \cup {None}]
  /\ writes \in 0..MaxWrites
  /\ \A a \in Admin : request[a].op \in
       {"none", "create user", "update user", "create label", "update label", "delete label"}
  /\ listed \in [Email -> Entry \cup {None}]

Init ==
  /\ \E old \in LegacyUsers :
       users = [id \in Id |-> IF id \in DOMAIN old
         THEN [email |-> old[id].email, bound |-> old[id].bound,
               labels |-> old[id].labels, rev |-> 0] ELSE None]
  /\ labels = [l \in Label |-> IF l \in DOMAIN LegacyLabel
       THEN [name |-> LegacyLabel[l], active |-> TRUE, rev |-> 0] ELSE None]
  /\ emailClaim = [e \in Email |-> None] /\ rootClaim = [r \in Root |-> None]
  /\ nameClaim = [n \in Name |-> None]
  /\ writes = 0
  /\ request = [a \in Admin |-> Idle]
  /\ listed = [e \in Email |-> None]

----------------------------------------------------------------------------
(* What requests read before they commit.                                  *)

Holders(e) == {id \in Existing(users) : users[id].email = e}

Ask(a, req) ==
  /\ request[a] = Idle
  /\ request' = [request EXCEPT ![a] = req]
  /\ UNCHANGED <<directory, listed>>

AskCreateUser(a, e, ls) ==
  /\ Holders(e) = {}
  /\ \A l \in ls : labels[l] # None /\ labels[l].active
  /\ Ask(a, [op |-> "create user", id |-> e, email |-> e, labels |-> ls])

EmailFreeUnchecked(id, e) == TRUE
EmailFree(id, e) == Holders(e) \subseteq {id}

(* Inactive labels a user has stay, asked for or not.                      *)
AskUpdateUser(a, id, e, ls) ==
  LET doc  == users[id]
      kept == {l \in doc.labels : labels[l] # None /\ ~labels[l].active}
  IN /\ doc # None
     /\ e # doc.email => doc.bound = None
     /\ EmailFree(id, e)
     /\ \A l \in ls : labels[l] # None /\ (labels[l].active \/ l \in doc.labels)
     /\ Ask(a, [op |-> "update user", id |-> id, email |-> e,
                labels |-> ls \cup kept, base |-> doc])

NameFree(l, n) == \A o \in Existing(labels) \ {l} : labels[o].name # n

AskCreateLabel(a, l, n) ==
  /\ labels[l] = None /\ NameFree(l, n)
  /\ Ask(a, [op |-> "create label", id |-> l, name |-> n, active |-> TRUE])

AskUpdateLabel(a, l, n, active) ==
  /\ labels[l] # None /\ NameFree(l, n)
  /\ Ask(a, [op |-> "update label", id |-> l, name |-> n, active |-> active,
             base |-> labels[l]])

Users(l) == {id \in Existing(users) : l \in users[id].labels}

AskDeleteLabel(a, l) ==
  /\ labels[l] # None /\ Users(l) = {}
  /\ Ask(a, [op |-> "delete label", id |-> l, base |-> labels[l]])

GiveUp(a) ==
  /\ request[a] # Idle
  /\ request' = [request EXCEPT ![a] = Idle]
  /\ UNCHANGED <<directory, listed>>

----------------------------------------------------------------------------
(* The transactions.                                                       *)

Done(a) ==
  /\ writes < MaxWrites /\ writes' = writes + 1
  /\ request' = [request EXCEPT ![a] = Idle]

(* The old value's claim goes if this document owns it; the new one's is   *)
(* set.  A claim that another document owns stops the transaction.         *)
Claimable(claims, value, id) == claims[value] \in {None, id}

ClaimMovedKeepingOld(claims, old, new, id) == [claims EXCEPT ![new] = id]
ClaimMoved(claims, old, new, id) ==
  [v \in DOMAIN claims |-> IF v = new THEN id
                           ELSE IF v = old /\ claims[v] = id THEN None
                           ELSE claims[v]]

LabelsAttachable(ls, already) ==
  \A l \in ls : labels[l] # None /\ (labels[l].active \/ l \in already)

CommitCreateUser(a) ==
  LET q == request[a]
  IN /\ q.op = "create user"
     /\ users[q.id] = None
     /\ LabelsAttachable(q.labels, {})
     /\ Claimable(emailClaim, q.email, q.id)
     /\ users' = [users EXCEPT ![q.id] = [email |-> q.email, bound |-> None,
                                          labels |-> q.labels, rev |-> writes + 1]]
     /\ emailClaim' = ClaimMoved(emailClaim, None, q.email, q.id)
     /\ Done(a)
     /\ UNCHANGED <<labels, rootClaim, nameClaim, listed>>

CommitUpdateUser(a) ==
  LET q   == request[a]
      doc == users[q.id]
  IN /\ q.op = "update user"
     /\ doc.rev = q.base.rev
     /\ q.email # doc.email => doc.bound = None
     /\ LabelsAttachable(q.labels, doc.labels)
     /\ Claimable(emailClaim, q.email, q.id)
     /\ doc.bound # None => Claimable(rootClaim, doc.bound, q.id)
     /\ users' = [users EXCEPT ![q.id] = [doc EXCEPT !.email = q.email,
                    !.labels = q.labels, !.rev = writes + 1]]
     /\ emailClaim' = ClaimMoved(emailClaim, doc.email, q.email, q.id)
     /\ rootClaim' = IF doc.bound = None THEN rootClaim
                     ELSE [rootClaim EXCEPT ![doc.bound] = q.id]
     /\ Done(a)
     /\ UNCHANGED <<labels, nameClaim, listed>>

CommitPutLabel(a) ==
  LET q   == request[a]
      doc == labels[q.id]
      old == IF doc = None THEN None ELSE doc.name
  IN /\ q.op \in {"create label", "update label"}
     /\ q.op = "create label" => doc = None
     /\ q.op = "update label" => doc # None /\ doc.rev = q.base.rev
     /\ Claimable(nameClaim, q.name, q.id)
     /\ labels' = [labels EXCEPT ![q.id] =
                     [name |-> q.name, active |-> q.active, rev |-> writes + 1]]
     /\ nameClaim' = ClaimMoved(nameClaim, old, q.name, q.id)
     /\ Done(a)
     /\ UNCHANGED <<users, emailClaim, rootClaim, listed>>

UnusedUnchecked(l) == TRUE
Unused(l) == Users(l) = {}

CommitDeleteLabel(a) ==
  LET q   == request[a]
      doc == labels[q.id]
  IN /\ q.op = "delete label"
     /\ doc # None /\ doc.rev = q.base.rev
     /\ Unused(q.id)
     /\ labels' = [labels EXCEPT ![q.id] = None]
     /\ nameClaim' = [nameClaim EXCEPT ![doc.name] = IF @ = q.id THEN None ELSE @]
     /\ Done(a)
     /\ UNCHANGED <<users, emailClaim, rootClaim, listed>>

----------------------------------------------------------------------------
(* The projector lists the users, leaving out emails that two of them      *)
(* share, and then binds the verified roots to the users it has listed.    *)

Listing(e) ==
  IF Cardinality(Holders(e)) # 1 THEN None
  ELSE LET id == CHOOSE id \in Holders(e) : TRUE
       IN [id |-> id, bound |-> users[id].bound]

ListUsers ==
  /\ listed' = [e \in Email |-> Listing(e)]
  /\ UNCHANGED <<directory, request>>

BoundRevKept(rev) == rev
BoundRevUnset(rev) == None
BoundRev(rev) == writes + 1

(* A legacy user can be bound to the root without a claim.                 *)
RootFreeUnchecked(r, id) == TRUE
RootFree(r, id) == \A o \in Existing(users) \ {id} : users[o].bound # r

Bind(r) ==
  LET id  == listed[RootEmail[r]].id
      doc == users[id]
  IN /\ listed[RootEmail[r]] # None /\ listed[RootEmail[r]].bound # r
     /\ doc.bound \in {None, r}
     /\ Claimable(rootClaim, r, id)
     /\ RootFree(r, id)
     /\ users' = [users EXCEPT ![id] = [doc EXCEPT !.bound = r, !.rev = BoundRev(@)]]
     /\ rootClaim' = [rootClaim EXCEPT ![r] = id]
     /\ writes < MaxWrites /\ writes' = writes + 1
     /\ UNCHANGED <<labels, emailClaim, nameClaim, request, listed>>

Next ==
  \/ \E a \in Admin :
       \/ \E e \in Email, ls \in SUBSET Label : AskCreateUser(a, e, ls)
       \/ \E id \in Id, e \in Email, ls \in SUBSET Label : AskUpdateUser(a, id, e, ls)
       \/ \E l \in Label, n \in Name : AskCreateLabel(a, l, n)
       \/ \E l \in Label, n \in Name, b \in BOOLEAN : AskUpdateLabel(a, l, n, b)
       \/ \E l \in Label : AskDeleteLabel(a, l)
       \/ CommitCreateUser(a) \/ CommitUpdateUser(a)
       \/ CommitPutLabel(a) \/ CommitDeleteLabel(a) \/ GiveUp(a)
  \/ ListUsers
  \/ \E r \in Root : Bind(r)

Spec == Init /\ [][Next]_vars

----------------------------------------------------------------------------
(* Properties.                                                             *)

(* No two users have one email, no two labels one name, no two users one   *)
(* chat identity, also where legacy documents have no claims: the reads    *)
(* before the transaction see their emails and names, and the query of the *)
(* binding transaction their identities; the claims see what is newer.     *)
NoDuplicates ==
  /\ \A i, j \in Existing(users) : users[i].email = users[j].email => i = j
  /\ \A i, j \in Existing(labels) : labels[i].name = labels[j].name => i = j
  /\ \A i, j \in Existing(users) :
       users[i].bound # None /\ users[i].bound = users[j].bound => i = j

(* A claim is owned by a document that has the value, so a freed value can *)
(* be taken again; and the identities and names of what was written since  *)
(* there are claims are claimed, those of legacy documents when they are   *)
(* next written.                                                           *)
ClaimsExact ==
  /\ \A e \in Email : emailClaim[e] # None =>
       users[emailClaim[e]] # None /\ users[emailClaim[e]].email = e
  /\ \A n \in Name : nameClaim[n] # None =>
       labels[nameClaim[n]] # None /\ labels[nameClaim[n]].name = n
  /\ \A r \in Root : rootClaim[r] # None =>
       users[rootClaim[r]] # None /\ users[rootClaim[r]].bound = r
  /\ \A id \in Existing(users) :
       users[id].bound # None /\ users[id].rev > 0 => rootClaim[users[id].bound] = id
  /\ \A l \in Existing(labels) : labels[l].rev > 0 => nameClaim[labels[l].name] = l

(* A label in use is never deleted, though its last user may be written    *)
(* between the usage count and the deletion.                               *)
UsedLabelsExist == \A id \in Existing(users) : \A l \in users[id].labels : labels[l] # None

(* An admin's update replaces exactly the document the admin was shown:    *)
(* nobody's edit, and no identity bound meanwhile, is lost.                *)
NoLostUpdate ==
  [][\A a \in Admin : request[a].op = "update user" /\ writes' # writes
       /\ request'[a] = Idle => users[request[a].id] = request[a].base]_vars
=============================================================================
