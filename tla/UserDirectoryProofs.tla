-------------------------- MODULE UserDirectoryProofs --------------------------
(***************************************************************************)
(* Theorems about the user directory, for any number of administrators,    *)
(* users, labels, chat roots and commits, and any legacy documents, bound  *)
(* or not, whose emails, names and identities differ (LegacyValuesDiffer). *)
(***************************************************************************)
EXTENDS UserDirectory, FiniteSetTheorems, TLAPS

UserOps  == {"create user", "update user"}
LabelOps == {"create label", "update label", "delete label"}

(* What a request has decided names documents and values that can be.      *)
WellFormed(q) ==
  /\ q.op \in {"none"} \cup UserOps \cup LabelOps
  /\ q.op \in UserOps => q.id \in Id /\ q.email \in Email /\ q.labels \subseteq Label
  /\ q.op = "update user" => q.base \in UserDoc /\ users[q.id] # None
  /\ q.op \in LabelOps => q.id \in Label
  /\ q.op \in {"create label", "update label"} => q.name \in Name /\ q.active \in BOOLEAN

TypeInv ==
  /\ TypeOK
  /\ DOMAIN users = Id /\ DOMAIN labels = Label /\ DOMAIN request = Admin
  /\ \A a \in Admin : WellFormed(request[a])
  /\ \A e \in Email : listed[e] # None => users[listed[e].id] # None

LEMMA InitTypeInv == Init => TypeInv
<1> SUFFICES ASSUME Init PROVE TypeInv
  OBVIOUS
<1> USE DEF Init
<1>1. \A id \in Id : users[id] = None \/ users[id] \in UserDoc
  BY DirectoryAssumption DEF UserDoc
<1>2. \A l \in Label : labels[l] = None \/ labels[l] \in LabelDoc
  BY DirectoryAssumption DEF LabelDoc
<1>3. \A a \in Admin : request[a].op = "none"
  BY DEF Idle
<1>4. writes \in 0..MaxWrites
  BY DirectoryAssumption
<1>5. /\ emailClaim \in [Email -> Id \cup {None}] /\ rootClaim \in [Root -> Id \cup {None}]
      /\ nameClaim \in [Name -> Label \cup {None}] /\ listed \in [Email -> Entry \cup {None}]
  OBVIOUS
<1>6. TypeOK
  BY <1>1, <1>2, <1>3, <1>4, <1>5 DEF TypeOK
<1>7. \A a \in Admin : WellFormed(request[a])
  BY <1>3 DEF WellFormed, UserOps, LabelOps
<1> QED BY <1>6, <1>7 DEF TypeInv

(* What a request writes is a document, and a document is never None.      *)
LEMMA UserDocExists == \A d \in UserDoc : d # None
  BY MissingAssumption

LEMMA LabelDocExists == \A d \in LabelDoc : d # None
  BY MissingAssumption

(* Asking, and giving up, change only what one administrator wants.        *)
AskStep(a) ==
  \/ \E e \in Email, ls \in SUBSET Label : AskCreateUser(a, e, ls)
  \/ \E id \in Id, e \in Email, ls \in SUBSET Label : AskUpdateUser(a, id, e, ls)
  \/ \E l \in Label, n \in Name : AskCreateLabel(a, l, n)
  \/ \E l \in Label, n \in Name, b \in BOOLEAN : AskUpdateLabel(a, l, n, b)
  \/ \E l \in Label : AskDeleteLabel(a, l)
  \/ GiveUp(a)

(* What a request has seen when it decides.                                *)
Informed(q) ==
  /\ q.op \in UserOps => Holders(q.email) \subseteq {q.id}
  /\ q.op = "update user" => q.base = users[q.id]
  /\ q.op \in {"create label", "update label"} => NameFree(q.id, q.name)

LEMMA AskIsWellFormed ==
  ASSUME TypeInv, NEW a \in Admin, AskStep(a)
  PROVE  /\ UNCHANGED <<directory, listed>>
         /\ \E q : WellFormed(q) /\ Informed(q) /\ request' = [request EXCEPT ![a] = q]
<1> USE DEF Ask, WellFormed, Informed, UserOps, LabelOps
<1>1. ASSUME NEW e \in Email, NEW ls \in SUBSET Label, AskCreateUser(a, e, ls)
      PROVE  \E q : WellFormed(q) /\ Informed(q) /\ request' = [request EXCEPT ![a] = q]
  BY <1>1, DirectoryAssumption DEF AskCreateUser
<1>2. ASSUME NEW id \in Id, NEW e \in Email, NEW ls \in SUBSET Label,
             AskUpdateUser(a, id, e, ls)
      PROVE  \E q : WellFormed(q) /\ Informed(q) /\ request' = [request EXCEPT ![a] = q]
  <2> DEFINE doc == users[id]
             kept == {l \in doc.labels : labels[l] # None /\ ~labels[l].active}
             q == [op |-> "update user", id |-> id, email |-> e, labels |-> ls \cup kept,
                   base |-> doc]
  <2>1. doc # None /\ request' = [request EXCEPT ![a] = q]
    BY <1>2 DEF AskUpdateUser
  <2>2. doc \in UserDoc /\ kept \subseteq Label
    BY <2>1 DEF TypeInv, TypeOK, UserDoc
  <2>3. WellFormed(q) /\ Informed(q)
    BY <1>2, <2>1, <2>2 DEF AskUpdateUser, EmailFree
  <2> QED BY <2>1, <2>3
<1>3. ASSUME NEW l \in Label, NEW n \in Name, AskCreateLabel(a, l, n)
      PROVE  \E q : WellFormed(q) /\ Informed(q) /\ request' = [request EXCEPT ![a] = q]
  BY <1>3 DEF AskCreateLabel
<1>4. ASSUME NEW l \in Label, NEW n \in Name, NEW b \in BOOLEAN, AskUpdateLabel(a, l, n, b)
      PROVE  \E q : WellFormed(q) /\ Informed(q) /\ request' = [request EXCEPT ![a] = q]
  BY <1>4 DEF AskUpdateLabel
<1>5. ASSUME NEW l \in Label, AskDeleteLabel(a, l)
      PROVE  \E q : WellFormed(q) /\ Informed(q) /\ request' = [request EXCEPT ![a] = q]
  BY <1>5 DEF AskDeleteLabel
<1>6. CASE GiveUp(a)
  BY <1>6 DEF GiveUp, Idle
<1>7. UNCHANGED <<directory, listed>>
  BY DEF AskStep, AskCreateUser, AskUpdateUser, AskCreateLabel, AskUpdateLabel, AskDeleteLabel,
         GiveUp
<1> QED BY <1>1, <1>2, <1>3, <1>4, <1>5, <1>6, <1>7 DEF AskStep

LEMMA AskTypeInv ==
  ASSUME TypeInv, NEW a \in Admin, AskStep(a)
  PROVE  TypeInv'
<1>1. PICK q : WellFormed(q) /\ Informed(q) /\ request' = [request EXCEPT ![a] = q]
  BY AskIsWellFormed
<1>2. UNCHANGED <<directory, listed>>
  BY AskIsWellFormed
<1>3. \A b \in Admin : WellFormed(request'[b])
  BY <1>1 DEF TypeInv
<1>4. \A b \in Admin : WellFormed(request[b])'
  BY <1>2, <1>3 DEF WellFormed, directory
<1>5. \A b \in Admin : request'[b].op \in {"none", "create user", "update user",
                                        "create label", "update label", "delete label"}
  BY <1>3 DEF WellFormed, UserOps, LabelOps
<1> QED BY <1>1, <1>2, <1>4, <1>5 DEF TypeInv, TypeOK, directory

(* A commit clears its request and counts a write.                         *)
LEMMA DoneType ==
  ASSUME TypeInv, NEW a \in Admin, Done(a)
  PROVE  /\ writes' = writes + 1 /\ writes \in Nat /\ writes' \in 0..MaxWrites
         /\ DOMAIN request' = Admin /\ request'[a] = Idle
         /\ \A b \in Admin \ {a} : request'[b] = request[b]
<1>1. request' = [request EXCEPT ![a] = Idle] /\ DOMAIN request = Admin
  BY DEF Done, TypeInv
<1>2. writes \in 0..MaxWrites /\ writes < MaxWrites /\ writes' = writes + 1
  BY DEF Done, TypeInv, TypeOK
<1>3. writes \in Nat /\ writes' \in 0..MaxWrites
  BY <1>2, DirectoryAssumption
<1> QED BY <1>1, <1>2, <1>3

LEMMA DoneKeepsOthers ==
  ASSUME TypeInv, NEW a \in Admin, Done(a), NEW b \in Admin, request'[b].op # "none"
  PROVE  request'[b] = request[b] /\ b # a
<1>1. request'[a].op = "none"
  BY DoneType DEF Idle
<1> QED BY <1>1, DoneType

(* The two shapes of a commit: one user, or one label, is written.         *)
UserWritten(id, doc) ==
  /\ id \in Id /\ doc \in UserDoc
  /\ users' = [users EXCEPT ![id] = doc]
  /\ doc.rev = writes + 1 /\ writes' = writes + 1 /\ writes' \in 0..MaxWrites

LEMMA UserWrittenTypeInv ==
  ASSUME TypeInv, NEW id, NEW doc, UserWritten(id, doc), UNCHANGED <<labels, nameClaim, listed>>,
         emailClaim' \in [Email -> Id \cup {None}],
         rootClaim' \in [Root -> Id \cup {None}],
         DOMAIN request' = Admin,
         \A b \in Admin : request'[b] \in {request[b], Idle}
  PROVE  TypeInv'
<1>1. /\ DOMAIN users' = Id
      /\ \A u \in Id : users'[u] = None \/ users'[u] \in UserDoc
      /\ \A u \in Id : users[u] # None => users'[u] # None
  BY UserDocExists DEF UserWritten, TypeInv, TypeOK
<1>2. ASSUME NEW b \in Admin PROVE WellFormed(request[b])'
  <2>1. CASE request'[b] = Idle
    BY <2>1 DEF WellFormed, Idle, UserOps, LabelOps
  <2>2. CASE request'[b] = request[b]
    <3>1. WellFormed(request[b]) BY DEF TypeInv
    <3> QED BY <1>1, <2>2, <3>1 DEF WellFormed, UserOps
  <2> QED BY <2>1, <2>2
<1>3. \A b \in Admin : request'[b].op \in {"none", "create user", "update user",
                                        "create label", "update label", "delete label"}
  BY <1>2 DEF WellFormed, UserOps, LabelOps
<1>4. \A e \in Email : listed'[e] # None => users'[listed'[e].id] # None
  BY <1>1 DEF TypeInv, TypeOK, Entry
<1> QED BY <1>1, <1>2, <1>3, <1>4 DEF TypeInv, TypeOK, UserWritten

LEMMA LabelWrittenTypeInv ==
  ASSUME TypeInv, NEW l \in Label, NEW doc \in LabelDoc \cup {None},
         labels' = [labels EXCEPT ![l] = doc], writes' \in 0..MaxWrites,
         UNCHANGED <<users, emailClaim, rootClaim, listed>>,
         nameClaim' \in [Name -> Label \cup {None}], DOMAIN request' = Admin,
         \A b \in Admin : request'[b] \in {request[b], Idle}
  PROVE  TypeInv'
<1>1. DOMAIN labels' = Label /\ \A k \in Label : labels'[k] = None \/ labels'[k] \in LabelDoc
  BY DEF TypeInv, TypeOK
<1>2. ASSUME NEW b \in Admin PROVE WellFormed(request[b])'
  <2>1. CASE request'[b] = Idle
    BY <2>1 DEF WellFormed, Idle, UserOps, LabelOps
  <2>2. CASE request'[b] = request[b]
    <3>1. WellFormed(request[b]) BY DEF TypeInv
    <3> QED BY <2>2, <3>1 DEF WellFormed
  <2> QED BY <2>1, <2>2
<1>3. \A b \in Admin : request'[b].op \in {"none", "create user", "update user",
                                        "create label", "update label", "delete label"}
  BY <1>2 DEF WellFormed, UserOps, LabelOps
<1> QED BY <1>1, <1>2, <1>3 DEF TypeInv, TypeOK
----------------------------------------------------------------------------
(* What the two commits of a user have in common.                          *)

Old(id) == IF users[id] = None THEN None ELSE users[id].email

UserCommit(a, id, doc) ==
  /\ request[a].op \in UserOps /\ request[a].id = id /\ request[a].email = doc.email
  /\ request[a].op = "update user" => users[id] # None /\ users[id].rev = request[a].base.rev
  /\ UserWritten(id, doc) /\ Done(a)
  /\ doc.bound = IF users[id] = None THEN None ELSE users[id].bound
  /\ \A l \in doc.labels : labels[l] # None
  /\ emailClaim[doc.email] \in {None, id}
  /\ emailClaim' = ClaimMoved(emailClaim, Old(id), doc.email, id)
  /\ rootClaim' = IF doc.bound = None THEN rootClaim ELSE [rootClaim EXCEPT ![doc.bound] = id]
  /\ doc.bound # None => rootClaim[doc.bound] \in {None, id}
  /\ UNCHANGED <<labels, nameClaim, listed>>

LEMMA UserCommits ==
  ASSUME TypeInv, NEW a \in Admin, CommitCreateUser(a) \/ CommitUpdateUser(a)
  PROVE  \E id \in Id, doc \in UserDoc : UserCommit(a, id, doc)
<1> DEFINE q == request[a]
<1>0. WellFormed(q)
  BY DEF TypeInv
<1>1. CASE CommitCreateUser(a)
  <2> DEFINE doc == [email |-> q.email, bound |-> None, labels |-> q.labels, rev |-> writes + 1]
  <2>1. q.op = "create user" /\ q.id \in Id /\ q.email \in Email /\ q.labels \subseteq Label
    BY <1>0, <1>1 DEF CommitCreateUser, WellFormed, UserOps
  <2>2. Done(a) /\ writes' = writes + 1 /\ writes' \in 0..MaxWrites
    BY <1>1, DoneType DEF CommitCreateUser
  <2>3. doc \in UserDoc
    BY <2>1, <2>2 DEF UserDoc
  <2>4. UserWritten(q.id, doc)
    BY <1>1, <2>1, <2>2, <2>3 DEF CommitCreateUser, UserWritten
  <2>5. UserCommit(a, q.id, doc)
    BY <1>1, <2>1, <2>2, <2>4
    DEF CommitCreateUser, UserCommit, Old, LabelsAttachable, Claimable, UserOps
  <2> QED BY <2>1, <2>3, <2>5
<1>2. CASE CommitUpdateUser(a)
  <2> DEFINE now == users[q.id]
             doc == [now EXCEPT !.email = q.email, !.labels = q.labels, !.rev = writes + 1]
  <2>1. /\ q.op = "update user" /\ q.id \in Id /\ q.email \in Email
        /\ q.labels \subseteq Label /\ now # None /\ now \in UserDoc
    BY <1>0, <1>2 DEF CommitUpdateUser, WellFormed, UserOps, TypeInv, TypeOK
  <2>2. Done(a) /\ writes' = writes + 1 /\ writes' \in 0..MaxWrites
    BY <1>2, DoneType DEF CommitUpdateUser
  <2>3. /\ doc \in UserDoc /\ doc.email = q.email /\ doc.labels = q.labels
        /\ doc.rev = writes + 1 /\ doc.bound = now.bound
    BY <2>1, <2>2 DEF UserDoc
  <2>4. UserWritten(q.id, doc)
    BY <1>2, <2>1, <2>2, <2>3 DEF CommitUpdateUser, UserWritten
  <2>5. UserCommit(a, q.id, doc)
    <3>1. /\ now.rev = q.base.rev
          /\ \A l \in doc.labels : labels[l] # None
          /\ emailClaim[doc.email] \in {None, q.id}
          /\ emailClaim' = ClaimMoved(emailClaim, now.email, doc.email, q.id)
          /\ doc.bound # None => rootClaim[doc.bound] \in {None, q.id}
          /\ rootClaim' = IF doc.bound = None THEN rootClaim
                          ELSE [rootClaim EXCEPT ![doc.bound] = q.id]
          /\ UNCHANGED <<labels, nameClaim, listed>>
      BY <1>2, <2>3 DEF CommitUpdateUser, LabelsAttachable, Claimable
    <3>2. now.email = Old(q.id)
      BY <2>1 DEF Old
    <3> HIDE DEF doc
    <3> QED BY <2>1, <2>2, <2>3, <2>4, <3>1, <3>2 DEF UserCommit, UserOps
  <2> QED BY <2>1, <2>3, <2>5
<1> QED BY <1>1, <1>2

(* The claim of one value moves from the old value to the new one.         *)
LEMMA ClaimMovesType ==
  ASSUME NEW V, NEW D, NEW claims \in [V -> D \cup {None}], NEW id \in D, NEW old, NEW new \in V
  PROVE  ClaimMoved(claims, old, new, id) \in [V -> D \cup {None}]
  BY DEF ClaimMoved

LEMMA UserCommitTypeInv ==
  ASSUME TypeInv, NEW a \in Admin, NEW id \in Id, NEW doc \in UserDoc, UserCommit(a, id, doc)
  PROVE  TypeInv'
<1>1. /\ UserWritten(id, doc) /\ UNCHANGED <<labels, nameClaim, listed>>
      /\ doc.email \in Email /\ doc.bound \in Root \cup {None}
  BY DEF UserCommit, UserDoc
<1>2. emailClaim' \in [Email -> Id \cup {None}]
  BY <1>1, ClaimMovesType DEF UserCommit, TypeInv, TypeOK
<1>3. rootClaim' \in [Root -> Id \cup {None}]
  BY <1>1 DEF UserCommit, TypeInv, TypeOK
<1>4. DOMAIN request' = Admin /\ \A b \in Admin : request'[b] \in {request[b], Idle}
  BY DoneType DEF UserCommit
<1> QED BY <1>1, <1>2, <1>3, <1>4, UserWrittenTypeInv

(* The same for labels: one is written, or one is deleted.                 *)
LabelCommit(a, l, doc) ==
  /\ request[a].op \in {"create label", "update label"}
  /\ request[a].id = l /\ request[a].name = doc.name
  /\ labels' = [labels EXCEPT ![l] = doc] /\ doc.rev = writes + 1 /\ Done(a)
  /\ nameClaim[doc.name] \in {None, l}
  /\ nameClaim' = ClaimMoved(nameClaim, IF labels[l] = None THEN None ELSE labels[l].name,
                             doc.name, l)
  /\ UNCHANGED <<users, emailClaim, rootClaim, listed>>

LEMMA LabelCommits ==
  ASSUME TypeInv, NEW a \in Admin, CommitPutLabel(a)
  PROVE  \E l \in Label, doc \in LabelDoc : LabelCommit(a, l, doc)
<1> DEFINE q == request[a]
           doc == [name |-> q.name, active |-> q.active, rev |-> writes + 1]
<1>1. /\ q.op \in {"create label", "update label"} /\ q.id \in Label
      /\ q.name \in Name /\ q.active \in BOOLEAN
  BY DEF TypeInv, CommitPutLabel, WellFormed, LabelOps
<1>2. Done(a) /\ writes' = writes + 1 /\ writes' \in 0..MaxWrites
  BY DoneType DEF CommitPutLabel
<1>3. doc \in LabelDoc
  BY <1>1, <1>2 DEF LabelDoc
<1>4. LabelCommit(a, q.id, doc)
  BY <1>1, <1>2 DEF CommitPutLabel, LabelCommit, Claimable
<1> QED BY <1>1, <1>3, <1>4

LabelDeleted(a, l) ==
  /\ request[a].op = "delete label"
  /\ labels[l] # None /\ Users(l) = {}
  /\ labels' = [labels EXCEPT ![l] = None] /\ Done(a)
  /\ nameClaim' = [nameClaim EXCEPT ![labels[l].name] = IF @ = l THEN None ELSE @]
  /\ UNCHANGED <<users, emailClaim, rootClaim, listed>>

LEMMA LabelDeletions ==
  ASSUME TypeInv, NEW a \in Admin, CommitDeleteLabel(a)
  PROVE  \E l \in Label : LabelDeleted(a, l)
<1>1. request[a].id \in Label
  BY DEF TypeInv, CommitDeleteLabel, WellFormed, LabelOps
<1>2. LabelDeleted(a, request[a].id)
  BY DEF CommitDeleteLabel, LabelDeleted, Unused
<1> QED BY <1>1, <1>2

LEMMA LabelStepTypeInv ==
  ASSUME TypeInv, NEW a \in Admin, NEW l \in Label,
         LabelDeleted(a, l) \/ \E doc \in LabelDoc : LabelCommit(a, l, doc)
  PROVE  TypeInv'
<1>1. Done(a) /\ UNCHANGED <<users, emailClaim, rootClaim, listed>>
  BY DEF LabelDeleted, LabelCommit
<1>2. /\ writes' \in 0..MaxWrites /\ DOMAIN request' = Admin
      /\ \A b \in Admin : request'[b] \in {request[b], Idle}
  BY <1>1, DoneType
<1>3. PICK doc \in LabelDoc \cup {None} : labels' = [labels EXCEPT ![l] = doc]
  BY DEF LabelDeleted, LabelCommit
<1>4. nameClaim' \in [Name -> Label \cup {None}]
  <2>1. ASSUME NEW d \in LabelDoc, LabelCommit(a, l, d)
        PROVE  nameClaim' \in [Name -> Label \cup {None}]
    <3>1. d.name \in Name BY DEF LabelDoc
    <3> QED BY <2>1, <3>1, ClaimMovesType DEF LabelCommit, TypeInv, TypeOK
  <2>2. CASE LabelDeleted(a, l)
    BY <2>2 DEF LabelDeleted, TypeInv, TypeOK
  <2> QED BY <2>1, <2>2
<1> QED BY <1>1, <1>2, <1>3, <1>4, LabelWrittenTypeInv

(* The projector binds a root to a user it has listed.                     *)
Bound(r, id, doc) ==
  /\ users[id] # None /\ users[id].bound \in {None, r}
  /\ UserWritten(id, doc)
  /\ doc.email = users[id].email /\ doc.labels = users[id].labels /\ doc.bound = r
  /\ rootClaim[r] \in {None, id} /\ rootClaim' = [rootClaim EXCEPT ![r] = id]
  /\ RootFree(r, id)
  /\ UNCHANGED <<labels, emailClaim, nameClaim, request, listed>>

LEMMA Bindings ==
  ASSUME TypeInv, NEW r \in Root, Bind(r)
  PROVE  \E id \in Id, doc \in UserDoc : Bound(r, id, doc)
<1> DEFINE entry == listed[RootEmail[r]]
           id == entry.id
           doc == [users[id] EXCEPT !.bound = r, !.rev = writes + 1]
<1>1. RootEmail[r] \in Email
  BY DirectoryAssumption
<1>2. entry # None /\ entry \in Entry
  BY <1>1 DEF Bind, TypeInv, TypeOK
<1>3. id \in Id /\ users[id] # None /\ users[id] \in UserDoc
  BY <1>1, <1>2 DEF TypeInv, TypeOK, Entry
<1>4. writes' = writes + 1 /\ writes' \in 0..MaxWrites
  <2>1. writes \in 0..MaxWrites /\ writes < MaxWrites /\ writes' = writes + 1
    BY DEF Bind, TypeInv, TypeOK
  <2> QED BY <2>1, DirectoryAssumption
<1>5. /\ doc \in UserDoc /\ doc.bound = r /\ doc.rev = writes + 1
      /\ doc.email = users[id].email /\ doc.labels = users[id].labels
  BY <1>3, <1>4 DEF UserDoc
<1>6. /\ users[id].bound \in {None, r} /\ rootClaim[r] \in {None, id}
      /\ users' = [users EXCEPT ![id] = doc] /\ rootClaim' = [rootClaim EXCEPT ![r] = id]
      /\ RootFree(r, id)
      /\ UNCHANGED <<labels, emailClaim, nameClaim, request, listed>>
  BY DEF Bind, Claimable, BoundRev
<1> HIDE DEF doc, id
<1>7. Bound(r, id, doc)
  BY <1>3, <1>4, <1>5, <1>6 DEF Bound, UserWritten
<1> QED BY <1>3, <1>5, <1>7

LEMMA BoundTypeInv ==
  ASSUME TypeInv, NEW r \in Root, NEW id \in Id, NEW doc \in UserDoc, Bound(r, id, doc)
  PROVE  TypeInv'
<1>1. /\ UserWritten(id, doc) /\ UNCHANGED <<labels, nameClaim, listed>>
      /\ emailClaim' \in [Email -> Id \cup {None}]
      /\ rootClaim' \in [Root -> Id \cup {None}]
      /\ DOMAIN request' = Admin /\ \A b \in Admin : request'[b] \in {request[b], Idle}
  BY DEF Bound, TypeInv, TypeOK
<1> QED BY <1>1, UserWrittenTypeInv

LEMMA ListTypeInv == TypeInv /\ ListUsers => TypeInv'
<1> SUFFICES ASSUME TypeInv, ListUsers PROVE TypeInv'
  OBVIOUS
<1>1. ASSUME NEW e \in Email, Listing(e) # None
      PROVE  Listing(e) \in Entry /\ users[Listing(e).id] # None
  <2>1. Holders(e) # {}
    BY <1>1, FS_EmptySet DEF Listing
  <2> DEFINE id == CHOOSE id \in Holders(e) : TRUE
  <2>2. id \in Holders(e)
    BY <2>1
  <2>3. id \in Id /\ users[id] # None /\ users[id] \in UserDoc
    BY <2>2 DEF Holders, Existing, TypeInv, TypeOK
  <2>4. Listing(e) = [id |-> id, bound |-> users[id].bound]
    BY <1>1 DEF Listing
  <2> HIDE DEF id
  <2> QED BY <2>3, <2>4 DEF Entry, UserDoc
<1>2. listed' \in [Email -> Entry \cup {None}]
  BY <1>1 DEF ListUsers
<1>3. \A e \in Email : listed'[e] # None => users'[listed'[e].id] # None
  BY <1>1 DEF ListUsers, directory
<1>4. UNCHANGED <<directory, request>>
  BY DEF ListUsers
<1> QED BY <1>2, <1>3, <1>4 DEF TypeInv, TypeOK, WellFormed, directory

(* Every step is one of these.                                             *)
LEMMA Steps ==
  ASSUME TypeInv, [Next]_vars
  PROVE  \/ \E a \in Admin : AskStep(a)
         \/ \E a \in Admin, id \in Id, doc \in UserDoc : UserCommit(a, id, doc)
         \/ \E a \in Admin, l \in Label, doc \in LabelDoc : LabelCommit(a, l, doc)
         \/ \E a \in Admin, l \in Label : LabelDeleted(a, l)
         \/ \E r \in Root, id \in Id, doc \in UserDoc : Bound(r, id, doc)
         \/ ListUsers \/ UNCHANGED vars
<1>1. ASSUME NEW a \in Admin, CommitCreateUser(a) \/ CommitUpdateUser(a)
      PROVE  \E id \in Id, doc \in UserDoc : UserCommit(a, id, doc)
  BY <1>1, UserCommits
<1>2. ASSUME NEW a \in Admin, CommitPutLabel(a)
      PROVE  \E l \in Label, doc \in LabelDoc : LabelCommit(a, l, doc)
  BY <1>2, LabelCommits
<1>3. ASSUME NEW a \in Admin, CommitDeleteLabel(a)
      PROVE  \E l \in Label : LabelDeleted(a, l)
  BY <1>3, LabelDeletions
<1>4. ASSUME NEW r \in Root, Bind(r)
      PROVE  \E id \in Id, doc \in UserDoc : Bound(r, id, doc)
  BY <1>4, Bindings
<1> QED BY <1>1, <1>2, <1>3, <1>4 DEF Next, AskStep

LEMMA NextTypeInv == TypeInv /\ [Next]_vars => TypeInv'
<1>1. TypeInv /\ UNCHANGED vars => TypeInv'
  BY DEF TypeInv, TypeOK, WellFormed, vars, directory
<1> QED
  BY <1>1, Steps, AskTypeInv, UserCommitTypeInv, LabelStepTypeInv, BoundTypeInv, ListTypeInv

(* Every document, claim, request and list entry keeps its type.           *)
THEOREM DirectoryTypeCorrect == Spec => []TypeOK
<1>1. TypeInv => TypeOK BY DEF TypeInv
<1> QED BY <1>1, InitTypeInv, NextTypeInv, PTL DEF Spec
----------------------------------------------------------------------------
(* The documents there are before the claims have different values.        *)
LegacyValuesDiffer ==
  /\ \A i, j \in DOMAIN LegacyLabel : LegacyLabel[i] = LegacyLabel[j] => i = j
  /\ \A old \in LegacyUsers : \A i, j \in DOMAIN old :
       \/ old[i].email = old[j].email
       \/ old[i].bound # None /\ old[i].bound = old[j].bound
       => i = j

(* Emails.  A claim is held by a user who has the email; and whoever has   *)
(* the email that a pending request asks for, besides the user it is for,  *)
(* holds the claim that will refuse it.  (Legacy users have none, but the  *)
(* request saw those.)                                                     *)

EmailInv ==
  /\ \A e \in Email : emailClaim[e] # None =>
       users[emailClaim[e]] # None /\ users[emailClaim[e]].email = e
  /\ \A i, j \in Existing(users) : users[i].email = users[j].email => i = j
  /\ \A a \in Admin : request[a].op \in UserOps =>
       \A u \in Holders(request[a].email) \ {request[a].id} : emailClaim[request[a].email] = u

(* The users of the initial state are legacy documents.                    *)
LEMMA InitUsers ==
  ASSUME Init
  PROVE  \E old \in LegacyUsers : \A id \in Id : users[id] # None =>
           /\ id \in DOMAIN old /\ users[id].rev = 0
           /\ users[id].email = old[id].email /\ users[id].bound = old[id].bound
           /\ users[id].labels = old[id].labels
BY DEF Init

LEMMA InitEmailInv == LegacyValuesDiffer /\ Init => EmailInv
<1> SUFFICES ASSUME LegacyValuesDiffer, Init PROVE EmailInv
  OBVIOUS
<1>1. \A i, j \in Existing(users) : users[i].email = users[j].email => i = j
  <2>1. Existing(users) = {id \in Id : users[id] # None}
    BY DEF Init, Existing
  <2> QED BY <2>1, InitUsers DEF LegacyValuesDiffer
<1>2. /\ \A e \in Email : emailClaim[e] = None
      /\ \A a \in Admin : request[a].op = "none"
  BY DEF Init, Idle
<1> QED BY <1>1, <1>2 DEF EmailInv, UserOps

(* A request that asks for an email has seen every user who has it.        *)
LEMMA AskEmailInv ==
  ASSUME TypeInv, EmailInv, NEW a \in Admin, AskStep(a)
  PROVE  EmailInv'
<1>1. PICK q : Informed(q) /\ request' = [request EXCEPT ![a] = q]
  BY AskIsWellFormed
<1>2. UNCHANGED <<users, emailClaim>>
  BY AskIsWellFormed DEF directory
<1>3. ASSUME NEW b \in Admin, request'[b].op \in UserOps,
             NEW u \in Holders(request'[b].email) \ {request'[b].id}
      PROVE  emailClaim[request'[b].email] = u
  <2>1. CASE b = a BY <1>1, <1>3, <2>1 DEF Informed, TypeInv
  <2>2. CASE b # a
    <3>1. request'[b] = request[b] BY <1>1, <2>2 DEF TypeInv
    <3> QED BY <1>3, <3>1 DEF EmailInv
  <2> QED BY <2>1, <2>2
<1> QED BY <1>2, <1>3 DEF EmailInv, Existing, Holders

(* The claim refuses the email of another user.                            *)
LEMMA UserCommitEmailInv ==
  ASSUME TypeInv, EmailInv, NEW a \in Admin, NEW id \in Id, NEW doc \in UserDoc,
         UserCommit(a, id, doc)
  PROVE  EmailInv'
<1> DEFINE e == doc.email
<1>1. /\ e \in Email /\ id # None /\ users' = [users EXCEPT ![id] = doc] /\ doc # None
      /\ request[a].op \in UserOps /\ request[a].id = id /\ request[a].email = e
      /\ emailClaim[e] \in {None, id}
      /\ emailClaim' = ClaimMoved(emailClaim, Old(id), e, id)
  BY UserDocExists, DirectoryAssumption DEF UserCommit, UserWritten, UserDoc
<1> HIDE DEF e
<1>2. /\ emailClaim'[e] = id
      /\ \A v \in Email \ {e} :
           emailClaim'[v] = IF v = Old(id) /\ emailClaim[v] = id THEN None ELSE emailClaim[v]
  BY <1>1 DEF ClaimMoved, TypeInv, TypeOK
<1>3. /\ users'[id] = doc /\ \A u \in Id \ {id} : users'[u] = users[u]
  BY <1>1 DEF TypeInv
<1>4. \A u \in Id \ {id} : users[u] # None => users[u].email # e
  <2> SUFFICES ASSUME NEW u \in Id \ {id}, users[u] # None, users[u].email = e
               PROVE  FALSE
    OBVIOUS
  <2>1. u \in Holders(e) \ {id} /\ u # None
    BY DirectoryAssumption DEF Holders, Existing, TypeInv
  <2>2. emailClaim[e] = u
    BY <1>1, <2>1 DEF EmailInv
  <2> QED BY <1>1, <2>1, <2>2
<1>5. ASSUME NEW v \in Email, emailClaim'[v] # None
      PROVE  users'[emailClaim'[v]] # None /\ users'[emailClaim'[v]].email = v
  <2>1. CASE v = e BY <1>1, <1>2, <1>3, <2>1 DEF e
  <2>2. CASE v # e
    <3>1. /\ emailClaim'[v] = emailClaim[v] /\ ~(v = Old(id) /\ emailClaim[v] = id)
          /\ emailClaim[v] \in Id
      BY <1>2, <1>5, <2>2 DEF TypeInv, TypeOK
    <3>2. users[emailClaim[v]] # None /\ users[emailClaim[v]].email = v
      BY <1>5, <3>1 DEF EmailInv
    <3>3. emailClaim[v] # id
      BY <3>1, <3>2 DEF Old
    <3> QED BY <1>3, <3>1, <3>2, <3>3
  <2> QED BY <2>1, <2>2
<1>6. ASSUME NEW i \in Id, NEW j \in Id, users'[i] # None, users'[j] # None,
             users'[i].email = users'[j].email
      PROVE  i = j
  BY <1>3, <1>4, <1>6 DEF EmailInv, Existing, TypeInv, e
<1>7. ASSUME NEW b \in Admin, request'[b].op \in UserOps, NEW u \in Id \ {request'[b].id},
             users'[u] # None, users'[u].email = request'[b].email
      PROVE  emailClaim'[request'[b].email] = u
  <2> DEFINE w == request'[b].email
  <2>1. request'[b] = request[b]
    BY <1>7, DoneKeepsOthers DEF UserCommit, UserOps
  <2>2. w \in Email
    BY <1>7, <2>1 DEF TypeInv, WellFormed
  <2>3. CASE u = id
    BY <1>2, <1>3, <1>7, <2>3 DEF e
  <2>4. CASE u # id
    <3>1. u \in Holders(w) \ {request[b].id}
      BY <1>3, <1>7, <2>1, <2>4 DEF Holders, Existing, TypeInv
    <3>2. emailClaim[w] = u
      BY <1>7, <2>1, <3>1 DEF EmailInv
    <3>3. w # e
      BY <1>3, <1>4, <1>7, <2>4
    <3> QED BY <1>2, <2>2, <2>4, <3>2, <3>3
  <2> QED BY <2>3, <2>4
<1>8. Existing(users)' = {u \in Id : users'[u] # None}
  BY <1>1 DEF Existing, TypeInv
<1>9. \A v : Holders(v)' = {u \in Id : users'[u] # None /\ users'[u].email = v}
  BY <1>8 DEF Holders
<1> QED BY <1>5, <1>6, <1>7, <1>8, <1>9 DEF EmailInv

LEMMA NextEmailInv == TypeInv /\ EmailInv /\ [Next]_vars => EmailInv'
<1> SUFFICES ASSUME TypeInv, EmailInv, [Next]_vars PROVE EmailInv'
  OBVIOUS
<1>1. ASSUME NEW a \in Admin, NEW l \in Label,
             LabelDeleted(a, l) \/ \E doc \in LabelDoc : LabelCommit(a, l, doc)
      PROVE  EmailInv'
  <2>1. UNCHANGED <<users, emailClaim>> /\ Done(a)
    BY <1>1 DEF LabelDeleted, LabelCommit
  <2>2. \A b \in Admin : request'[b].op \in UserOps => request'[b] = request[b]
    BY <2>1, DoneKeepsOthers DEF UserOps
  <2> QED BY <2>1, <2>2 DEF EmailInv, Existing, Holders
<1>2. ASSUME NEW r \in Root, NEW id \in Id, NEW doc \in UserDoc, Bound(r, id, doc)
      PROVE  EmailInv'
  <2>1. /\ UNCHANGED <<emailClaim, request>> /\ DOMAIN users' = Id
        /\ \A u \in Id : /\ users'[u] # None <=> users[u] # None
                         /\ users[u] # None => users'[u].email = users[u].email
    BY <1>2, UserDocExists DEF Bound, UserWritten, TypeInv
  <2>2. Existing(users)' = Existing(users) /\ Existing(users) \subseteq Id
    BY <2>1 DEF Existing, TypeInv
  <2>3. \A v : Holders(v)' = Holders(v)
    BY <2>1, <2>2 DEF Holders
  <2>4. \A v \in Email : emailClaim[v] # None => emailClaim[v] \in Id
    BY DEF TypeInv, TypeOK
  <2> QED BY <2>1, <2>2, <2>3, <2>4 DEF EmailInv, Existing
<1>3. CASE ListUsers \/ UNCHANGED vars
  BY <1>3 DEF ListUsers, vars, directory, EmailInv, Existing, Holders
<1> QED BY <1>1, <1>2, <1>3, Steps, AskEmailInv, UserCommitEmailInv
----------------------------------------------------------------------------
(* Label names, by the same argument; a label can also be deleted, with    *)
(* the claim it holds.                                                     *)

ClaimsAreNames == \A n \in Name : nameClaim[n] # None =>
  labels[nameClaim[n]] # None /\ labels[nameClaim[n]].name = n

NamesDiffer == \A i, j \in Label :
  labels[i] # None /\ labels[j] # None /\ labels[i].name = labels[j].name => i = j

NamesAreClaimed == \A l \in Label :
  labels[l] # None /\ labels[l].rev > 0 => nameClaim[labels[l].name] = l

AskedNamesAreClaimed ==
  \A a \in Admin : \A l \in Label \ {request[a].id} :
    /\ request[a].op \in {"create label", "update label"}
    /\ labels[l] # None /\ labels[l].name = request[a].name
    => nameClaim[request[a].name] = l

NameInv == ClaimsAreNames /\ NamesDiffer /\ NamesAreClaimed /\ AskedNamesAreClaimed

LEMMA InitNameInv == LegacyValuesDiffer /\ Init => NameInv
<1> SUFFICES ASSUME LegacyValuesDiffer, Init PROVE NameInv
  OBVIOUS
<1>1. \A l \in Label : labels[l] # None =>
        l \in DOMAIN LegacyLabel /\ labels[l].name = LegacyLabel[l] /\ labels[l].rev = 0
  BY DEF Init
<1>2. \A n \in Name : nameClaim[n] = None
  BY DEF Init
<1>3. \A a \in Admin : request[a].op = "none"
  BY DEF Init, Idle
<1>4. \A i, j \in Label :
        labels[i] # None /\ labels[j] # None /\ labels[i].name = labels[j].name => i = j
  BY <1>1 DEF LegacyValuesDiffer
<1>5. \A l \in Label : labels[l] # None => ~(labels[l].rev > 0)
  BY <1>1
<1> QED BY <1>2, <1>3, <1>4, <1>5
  DEF NameInv, ClaimsAreNames, NamesDiffer, NamesAreClaimed, AskedNamesAreClaimed

LEMMA AskNameInv ==
  ASSUME TypeInv, NameInv, NEW a \in Admin, AskStep(a)
  PROVE  NameInv'
<1>1. PICK q : Informed(q) /\ request' = [request EXCEPT ![a] = q]
  BY AskIsWellFormed
<1>2. UNCHANGED <<labels, nameClaim>>
  BY AskIsWellFormed DEF directory
<1>3. ASSUME NEW b \in Admin, request'[b].op \in {"create label", "update label"},
             NEW l \in Label \ {request'[b].id}, labels[l] # None,
             labels[l].name = request'[b].name
      PROVE  nameClaim[request'[b].name] = l
  <2>1. CASE b = a
    BY <1>1, <1>3, <2>1 DEF Informed, NameFree, Existing, TypeInv
  <2>2. CASE b # a
    <3>1. request'[b] = request[b] BY <1>1, <2>2 DEF TypeInv
    <3> QED BY <1>3, <3>1 DEF NameInv, AskedNamesAreClaimed
  <2> QED BY <2>1, <2>2
<1> QED BY <1>2, <1>3
  DEF NameInv, ClaimsAreNames, NamesDiffer, NamesAreClaimed, AskedNamesAreClaimed

LEMMA LabelCommitNameInv ==
  ASSUME TypeInv, NameInv, NEW a \in Admin, NEW l \in Label, NEW doc \in LabelDoc,
         LabelCommit(a, l, doc)
  PROVE  NameInv'
<1> DEFINE n == doc.name
           old == IF labels[l] = None THEN None ELSE labels[l].name
<1>1. /\ n \in Name /\ l # None /\ labels' = [labels EXCEPT ![l] = doc] /\ doc # None
      /\ request[a].op \in {"create label", "update label"}
      /\ request[a].id = l /\ request[a].name = n
      /\ nameClaim[n] \in {None, l} /\ nameClaim' = ClaimMoved(nameClaim, old, n, l)
  BY LabelDocExists, DirectoryAssumption DEF LabelCommit, LabelDoc
<1> HIDE DEF n
<1>2. /\ nameClaim'[n] = l
      /\ \A m \in Name \ {n} :
           nameClaim'[m] = IF m = old /\ nameClaim[m] = l THEN None ELSE nameClaim[m]
  BY <1>1 DEF ClaimMoved, TypeInv, TypeOK
<1>3. labels'[l] = doc /\ \A k \in Label \ {l} : labels'[k] = labels[k]
  BY <1>1 DEF TypeInv
<1>4. \A k \in Label \ {l} : labels[k] # None => labels[k].name # n
  <2> SUFFICES ASSUME NEW k \in Label \ {l}, labels[k] # None, labels[k].name = n
               PROVE  FALSE
    OBVIOUS
  <2>1. nameClaim[n] = k
    BY <1>1 DEF NameInv, AskedNamesAreClaimed
  <2> QED BY <1>1, <2>1, DirectoryAssumption
<1>5. ASSUME NEW m \in Name, nameClaim'[m] # None
      PROVE  labels'[nameClaim'[m]] # None /\ labels'[nameClaim'[m]].name = m
  <2>1. CASE m = n BY <1>1, <1>2, <1>3, <2>1 DEF n
  <2>2. CASE m # n
    <3>1. /\ nameClaim'[m] = nameClaim[m] /\ ~(m = old /\ nameClaim[m] = l)
          /\ nameClaim[m] \in Label
      BY <1>2, <1>5, <2>2 DEF TypeInv, TypeOK
    <3>2. labels[nameClaim[m]] # None /\ labels[nameClaim[m]].name = m
      BY <1>5, <3>1 DEF NameInv, ClaimsAreNames
    <3>3. nameClaim[m] # l
      BY <3>1, <3>2
    <3> QED BY <1>3, <3>1, <3>2, <3>3
  <2> QED BY <2>1, <2>2
<1>6. ASSUME NEW i \in Label, NEW j \in Label, labels'[i] # None, labels'[j] # None,
             labels'[i].name = labels'[j].name
      PROVE  i = j
  BY <1>3, <1>4, <1>6 DEF NameInv, NamesDiffer, n
<1>7. ASSUME NEW k \in Label, labels'[k] # None, labels'[k].rev > 0
      PROVE  nameClaim'[labels'[k].name] = k
  <2>1. CASE k = l BY <1>2, <1>3, <2>1 DEF n
  <2>2. CASE k # l
    <3>1. labels'[k] = labels[k] /\ labels[k].name \in Name
      BY <1>3, <1>7, <2>2 DEF TypeInv, TypeOK, LabelDoc
    <3>2. nameClaim[labels[k].name] = k /\ labels[k].name # n
      BY <1>4, <1>7, <2>2, <3>1 DEF NameInv, NamesAreClaimed
    <3> QED BY <1>2, <2>2, <3>1, <3>2
  <2> QED BY <2>1, <2>2
<1>8. ASSUME NEW b \in Admin, request'[b].op \in {"create label", "update label"},
             NEW k \in Label \ {request'[b].id}, labels'[k] # None,
             labels'[k].name = request'[b].name
      PROVE  nameClaim'[request'[b].name] = k
  <2>1. request'[b] = request[b]
    BY <1>8, DoneKeepsOthers DEF LabelCommit
  <2>2. request[b].name \in Name
    BY <1>8, <2>1 DEF TypeInv, WellFormed
  <2>3. CASE k = l
    BY <1>2, <1>3, <1>8, <2>3 DEF n
  <2>4. CASE k # l
    <3>1. labels[k] # None /\ labels[k].name = request[b].name
      BY <1>3, <1>8, <2>1, <2>4
    <3>2. nameClaim[request[b].name] = k
      BY <1>8, <2>1, <3>1 DEF NameInv, AskedNamesAreClaimed
    <3>3. request[b].name # n
      BY <1>4, <2>4, <3>1
    <3> QED BY <1>2, <2>1, <2>2, <2>4, <3>2, <3>3
  <2> QED BY <2>3, <2>4
<1> QED BY <1>5, <1>6, <1>7, <1>8
  DEF NameInv, ClaimsAreNames, NamesDiffer, NamesAreClaimed, AskedNamesAreClaimed

LEMMA LabelDeletedNameInv ==
  ASSUME TypeInv, NameInv, NEW a \in Admin, NEW l \in Label, LabelDeleted(a, l)
  PROVE  NameInv'
<1> DEFINE n == labels[l].name
<1>1. /\ labels[l] # None /\ labels' = [labels EXCEPT ![l] = None] /\ n \in Name
      /\ nameClaim' = [nameClaim EXCEPT ![n] = IF nameClaim[n] = l THEN None ELSE nameClaim[n]]
  BY DEF LabelDeleted, TypeInv, TypeOK, LabelDoc
<1>2. /\ \A m \in Name : nameClaim'[m] = IF m = n /\ nameClaim[m] = l THEN None ELSE nameClaim[m]
      /\ labels'[l] = None /\ \A k \in Label \ {l} : labels'[k] = labels[k]
  BY <1>1 DEF TypeInv, TypeOK
<1>3. ASSUME NEW m \in Name, nameClaim'[m] # None
      PROVE  labels'[nameClaim'[m]] # None /\ labels'[nameClaim'[m]].name = m
  <2>1. /\ nameClaim'[m] = nameClaim[m] /\ ~(m = n /\ nameClaim[m] = l)
        /\ nameClaim[m] \in Label
    BY <1>2, <1>3 DEF TypeInv, TypeOK
  <2>2. labels[nameClaim[m]] # None /\ labels[nameClaim[m]].name = m
    BY <1>3, <2>1 DEF NameInv, ClaimsAreNames
  <2>3. nameClaim[m] # l
    BY <2>1, <2>2
  <2> QED BY <1>2, <2>1, <2>2, <2>3
<1>4. ASSUME NEW i \in Label, NEW j \in Label, labels'[i] # None, labels'[j] # None,
             labels'[i].name = labels'[j].name
      PROVE  i = j
  BY <1>2, <1>4 DEF NameInv, NamesDiffer
<1>5. ASSUME NEW k \in Label, labels'[k] # None, labels'[k].rev > 0
      PROVE  nameClaim'[labels'[k].name] = k
  <2>1. k # l /\ labels'[k] = labels[k]
    BY <1>2, <1>5
  <2>2. nameClaim[labels[k].name] = k /\ labels[k].name \in Name
    BY <1>5, <2>1 DEF NameInv, NamesAreClaimed, TypeInv, TypeOK, LabelDoc
  <2> QED BY <1>2, <2>1, <2>2
<1>6. ASSUME NEW b \in Admin, request'[b].op \in {"create label", "update label"},
             NEW k \in Label \ {request'[b].id}, labels'[k] # None,
             labels'[k].name = request'[b].name
      PROVE  nameClaim'[request'[b].name] = k
  <2>1. request'[b] = request[b]
    BY <1>6, DoneKeepsOthers DEF LabelDeleted
  <2>2. request[b].name \in Name
    BY <1>6, <2>1 DEF TypeInv, WellFormed
  <2>3. k # l /\ labels'[k] = labels[k]
    BY <1>2, <1>6
  <2>4. nameClaim[request[b].name] = k
    BY <1>6, <2>1, <2>3 DEF NameInv, AskedNamesAreClaimed
  <2> QED BY <1>2, <2>1, <2>2, <2>3, <2>4
<1> QED BY <1>3, <1>4, <1>5, <1>6
  DEF NameInv, ClaimsAreNames, NamesDiffer, NamesAreClaimed, AskedNamesAreClaimed

LEMMA NextNameInv == TypeInv /\ NameInv /\ [Next]_vars => NameInv'
<1> SUFFICES ASSUME TypeInv, NameInv, [Next]_vars PROVE NameInv'
  OBVIOUS
<1>1. ASSUME NEW a \in Admin, NEW id \in Id, NEW doc \in UserDoc, UserCommit(a, id, doc)
      PROVE  NameInv'
  <2>1. UNCHANGED <<labels, nameClaim>> /\ Done(a)
    BY <1>1 DEF UserCommit
  <2>2. \A b \in Admin :
          request'[b].op \in {"create label", "update label"} => request'[b] = request[b]
    BY <2>1, DoneKeepsOthers
  <2>3. ClaimsAreNames' /\ NamesDiffer' /\ NamesAreClaimed'
    BY <2>1 DEF NameInv, ClaimsAreNames, NamesDiffer, NamesAreClaimed
  <2>4. AskedNamesAreClaimed'
    BY <2>1, <2>2 DEF NameInv, AskedNamesAreClaimed
  <2> QED BY <2>3, <2>4 DEF NameInv
<1>2. CASE UNCHANGED <<labels, nameClaim, request>>
  BY <1>2 DEF NameInv, ClaimsAreNames, NamesDiffer, NamesAreClaimed, AskedNamesAreClaimed
<1> QED
  BY <1>1, <1>2, Steps, AskNameInv, LabelCommitNameInv, LabelDeletedNameInv
  DEF Bound, ListUsers, vars, directory

----------------------------------------------------------------------------
(* Chat identities and labels in use.                                      *)

UseInv ==
  \A id \in Id : users[id] # None =>
    /\ users[id].bound # None /\ users[id].rev > 0 => rootClaim[users[id].bound] = id
    /\ \A l \in users[id].labels : labels[l] # None

LEMMA InitUseInv == Init => UseInv
<1> SUFFICES ASSUME Init PROVE UseInv
  OBVIOUS
<1>1. \A l \in DOMAIN LegacyLabel : labels[l] # None
  <2>1. \A l \in DOMAIN LegacyLabel : labels[l] \in LabelDoc
    BY DirectoryAssumption DEF Init, LabelDoc
  <2> QED BY <2>1, LabelDocExists
<1>2. PICK old \in LegacyUsers : \A id \in Id : users[id] # None =>
        id \in DOMAIN old /\ users[id].rev = 0 /\ users[id].labels = old[id].labels
  BY InitUsers
<1>3. \A id \in DOMAIN old : old[id].labels \subseteq DOMAIN LegacyLabel
  BY DirectoryAssumption
<1> QED BY <1>1, <1>2, <1>3 DEF UseInv

(* A written user keeps or takes an identity whose claim is free or its    *)
(* own, and has only labels that exist.                                    *)
LEMMA UserWrittenUseInv ==
  ASSUME TypeInv, UseInv, NEW id \in Id, NEW doc \in UserDoc,
         UserWritten(id, doc), UNCHANGED labels, \A l \in doc.labels : labels[l] # None,
         doc.bound # None => rootClaim[doc.bound] \in {None, id},
         rootClaim' = IF doc.bound = None THEN rootClaim ELSE [rootClaim EXCEPT ![doc.bound] = id]
  PROVE  UseInv'
<1>1. users'[id] = doc /\ \A u \in Id \ {id} : users'[u] = users[u]
  BY DEF UserWritten, TypeInv
<1>2. doc.bound \in Root \cup {None} /\ rootClaim \in [Root -> Id \cup {None}]
  BY DEF UserDoc, TypeInv, TypeOK
<1>3. ASSUME NEW u \in Id, users'[u] # None, users'[u].bound # None, users'[u].rev > 0
      PROVE  rootClaim'[users'[u].bound] = u
  <2>1. CASE u = id
    BY <1>1, <1>2, <1>3, <2>1
  <2>2. CASE u # id
    <3>1. users'[u] = users[u] /\ users[u] \in UserDoc
      BY <1>1, <1>3, <2>2 DEF TypeInv, TypeOK
    <3>2. users[u].bound \in Root /\ rootClaim[users[u].bound] = u
      BY <1>3, <3>1 DEF UseInv, UserDoc
    <3>3. u # None
      BY DirectoryAssumption
    <3> QED BY <1>2, <2>2, <3>1, <3>2, <3>3
  <2> QED BY <2>1, <2>2
<1>4. ASSUME NEW u \in Id, users'[u] # None, NEW l \in users'[u].labels
      PROVE  labels'[l] # None
  <2>1. CASE u = id BY <1>1, <1>4, <2>1
  <2>2. CASE u # id BY <1>1, <1>4, <2>2 DEF UseInv
  <2> QED BY <2>1, <2>2
<1> QED BY <1>3, <1>4 DEF UseInv

LEMMA NextUseInv == TypeInv /\ UseInv /\ [Next]_vars => UseInv'
<1> SUFFICES ASSUME TypeInv, UseInv, [Next]_vars PROVE UseInv'
  OBVIOUS
<1>1. ASSUME NEW a \in Admin, NEW id \in Id, NEW doc \in UserDoc, UserCommit(a, id, doc)
      PROVE  UseInv'
  BY <1>1, UserWrittenUseInv DEF UserCommit
<1>2. ASSUME NEW r \in Root, NEW id \in Id, NEW doc \in UserDoc, Bound(r, id, doc)
      PROVE  UseInv'
  <2>1. \A l \in doc.labels : labels[l] # None
    BY <1>2 DEF Bound, UseInv
  <2>2. doc.bound = r /\ r # None
    BY <1>2, DirectoryAssumption DEF Bound
  <2> QED BY <1>2, <2>1, <2>2, UserWrittenUseInv DEF Bound
<1>3. \A id \in Id : users[id] # None => users[id].labels \subseteq Label
  BY DEF TypeInv, TypeOK, UserDoc
<1>4. ASSUME NEW a \in Admin, NEW l \in Label, NEW doc \in LabelDoc, LabelCommit(a, l, doc)
      PROVE  UseInv'
  <2>1. UNCHANGED <<users, rootClaim>> /\ labels' = [labels EXCEPT ![l] = doc] /\ doc # None
    BY <1>4, LabelDocExists DEF LabelCommit
  <2>2. \A k \in Label : labels[k] # None => labels'[k] # None
    BY <2>1 DEF TypeInv
  <2> QED BY <1>3, <2>1, <2>2 DEF UseInv
<1>5. ASSUME NEW a \in Admin, NEW l \in Label, LabelDeleted(a, l)
      PROVE  UseInv'
  <2>1. UNCHANGED <<users, rootClaim>> /\ \A k \in Label \ {l} : labels'[k] = labels[k]
    BY <1>5 DEF LabelDeleted, TypeInv
  <2>2. \A id \in Id : users[id] # None => l \notin users[id].labels
    BY <1>5 DEF LabelDeleted, Users, Existing, TypeInv
  <2> QED BY <1>3, <2>1, <2>2 DEF UseInv
<1>6. CASE UNCHANGED directory
  BY <1>6 DEF UseInv, directory
<1> QED
  BY <1>1, <1>2, <1>4, <1>5, <1>6, Steps, AskIsWellFormed DEF ListUsers, vars

(* An identity has one owner, with or without a claim, and a claim is of   *)
(* its owner: only a binding gives a user an identity, and it has found    *)
(* nobody else who has it.                                                 *)
IdentityInv ==
  /\ \A i, j \in Id :
       users[i] # None /\ users[j] # None /\ users[i].bound # None
         /\ users[i].bound = users[j].bound => i = j
  /\ \A r \in Root : rootClaim[r] # None =>
       users[rootClaim[r]] # None /\ users[rootClaim[r]].bound = r

LEMMA InitIdentityInv == LegacyValuesDiffer /\ Init => IdentityInv
<1> SUFFICES ASSUME LegacyValuesDiffer, Init PROVE IdentityInv
  OBVIOUS
<1>1. \A r \in Root : rootClaim[r] = None
  BY DEF Init
<1> QED BY <1>1, InitUsers DEF LegacyValuesDiffer, IdentityInv

(* A user is written with the identity it has, or with one that is free.   *)
LEMMA UserWrittenIdentityInv ==
  ASSUME TypeInv, IdentityInv, NEW id \in Id, NEW doc \in UserDoc, UserWritten(id, doc),
         doc.bound # None =>
           \A o \in Id \ {id} : users[o] # None => users[o].bound # doc.bound,
         users[id] # None /\ users[id].bound # None => doc.bound = users[id].bound,
         rootClaim' = IF doc.bound = None THEN rootClaim ELSE [rootClaim EXCEPT ![doc.bound] = id]
  PROVE  IdentityInv'
<1>1. users'[id] = doc /\ doc # None /\ \A u \in Id \ {id} : users'[u] = users[u]
  BY UserDocExists DEF UserWritten, TypeInv
<1>2. doc.bound \in Root \cup {None} /\ rootClaim \in [Root -> Id \cup {None}]
  BY DEF UserDoc, TypeInv, TypeOK
<1>3. ASSUME NEW i \in Id, NEW j \in Id, users'[i] # None, users'[j] # None,
             users'[i].bound # None, users'[i].bound = users'[j].bound
      PROVE  i = j
  BY <1>1, <1>3 DEF IdentityInv
<1>4. ASSUME NEW r \in Root, rootClaim'[r] # None
      PROVE  users'[rootClaim'[r]] # None /\ users'[rootClaim'[r]].bound = r
  <2>1. CASE r = doc.bound
    <3>1. r # None
      BY DirectoryAssumption
    <3>2. rootClaim'[r] = id
      BY <1>2, <2>1, <3>1
    <3> QED BY <1>1, <2>1, <3>2
  <2>2. CASE r # doc.bound
    <3>1. rootClaim'[r] = rootClaim[r] /\ rootClaim[r] \in Id
      BY <1>2, <1>4, <2>2
    <3>2. users[rootClaim[r]] # None /\ users[rootClaim[r]].bound = r
      BY <1>4, <3>1 DEF IdentityInv
    <3>3. rootClaim[r] # id
      BY <2>2, <3>2, DirectoryAssumption
    <3> QED BY <1>1, <3>1, <3>2, <3>3
  <2> QED BY <2>1, <2>2
<1> QED BY <1>3, <1>4 DEF IdentityInv

LEMMA NextIdentityInv == TypeInv /\ IdentityInv /\ [Next]_vars => IdentityInv'
<1> SUFFICES ASSUME TypeInv, IdentityInv, [Next]_vars PROVE IdentityInv'
  OBVIOUS
<1>1. ASSUME NEW a \in Admin, NEW id \in Id, NEW doc \in UserDoc, UserCommit(a, id, doc)
      PROVE  IdentityInv'
  <2>1. /\ UserWritten(id, doc)
        /\ doc.bound = IF users[id] = None THEN None ELSE users[id].bound
        /\ rootClaim' = IF doc.bound = None THEN rootClaim
                         ELSE [rootClaim EXCEPT ![doc.bound] = id]
    BY <1>1 DEF UserCommit
  <2>2. doc.bound # None =>
          \A o \in Id \ {id} : users[o] # None => users[o].bound # doc.bound
    BY <2>1 DEF IdentityInv
  <2>3. users[id] # None /\ users[id].bound # None => doc.bound = users[id].bound
    BY <2>1
  <2> QED BY <2>1, <2>2, <2>3, UserWrittenIdentityInv
<1>2. ASSUME NEW r \in Root, NEW id \in Id, NEW doc \in UserDoc, Bound(r, id, doc)
      PROVE  IdentityInv'
  <2>1. doc.bound = r /\ r # None
    BY <1>2, DirectoryAssumption DEF Bound
  <2>2. \A o \in Id \ {id} : users[o] # None => users[o].bound # r
    BY <1>2 DEF Bound, RootFree, Existing, TypeInv
  <2>3. /\ UserWritten(id, doc) /\ users[id].bound \in {None, r}
        /\ rootClaim' = [rootClaim EXCEPT ![r] = id]
    BY <1>2 DEF Bound
  <2> QED BY <2>1, <2>2, <2>3, UserWrittenIdentityInv
<1>3. CASE UNCHANGED <<users, rootClaim>>
  BY <1>3 DEF IdentityInv
<1> QED
  BY <1>1, <1>2, <1>3, Steps, AskIsWellFormed
  DEF LabelCommit, LabelDeleted, ListUsers, vars, directory

----------------------------------------------------------------------------
(* Revisions.  A document has the number of the write it is from, so one   *)
(* with the revision a request saw is the one it saw.                      *)

RevisionInv ==
  /\ \A id \in Id : users[id] # None => users[id].rev <= writes
  /\ \A a \in Admin : request[a].op = "update user" =>
       /\ request[a].base.rev <= writes
       /\ users[request[a].id].rev = request[a].base.rev =>
            users[request[a].id] = request[a].base

LEMMA InitRevisionInv == Init => RevisionInv
<1> SUFFICES ASSUME Init PROVE RevisionInv
  OBVIOUS
<1>1. \A id \in Id : users[id] # None => users[id].rev = 0
  BY InitUsers
<1>2. writes = 0
  BY DEF Init
<1>3. \A a \in Admin : request[a].op = "none"
  BY DEF Init, Idle
<1>4. \A id \in Id : users[id] # None => users[id].rev <= writes
  BY <1>1, <1>2
<1> QED BY <1>3, <1>4 DEF RevisionInv

(* The revisions that the steps compare are numbers.                       *)
LEMMA RevisionTypes ==
  ASSUME TypeInv
  PROVE  /\ writes \in Nat
         /\ \A id \in Id : users[id] # None => users[id].rev \in Nat
         /\ \A a \in Admin : request[a].op = "update user" =>
              /\ request[a].id \in Id /\ users[request[a].id] # None
              /\ request[a].base.rev \in Nat
<1>1. MaxWrites \in Nat
  BY DirectoryAssumption
<1>2. \A d \in UserDoc : d.rev \in Nat
  BY <1>1 DEF UserDoc
<1>3. writes \in Nat
  <2>1. writes \in 0..MaxWrites BY DEF TypeInv, TypeOK
  <2> QED BY <1>1, <2>1
<1>4. \A id \in Id : users[id] # None => users[id].rev \in Nat
  BY <1>2 DEF TypeInv, TypeOK
<1>5. ASSUME NEW a \in Admin, request[a].op = "update user"
      PROVE  /\ request[a].id \in Id /\ users[request[a].id] # None
             /\ request[a].base.rev \in Nat
  BY <1>2, <1>5 DEF TypeInv, WellFormed, UserOps
<1> QED BY <1>3, <1>4, <1>5

LEMMA Later == \A n \in Nat : n + 1 <= n + 1 /\ \A m \in Nat : m <= n => m <= n + 1 /\ m # n + 1
  OBVIOUS

LEMMA UserWrittenRevisionInv ==
  ASSUME TypeInv, RevisionInv, NEW id \in Id, NEW doc \in UserDoc, UserWritten(id, doc),
         \A b \in Admin : request'[b].op = "update user" => request'[b] = request[b]
  PROVE  RevisionInv'
<1>1. /\ users'[id] = doc /\ \A u \in Id \ {id} : users'[u] = users[u]
      /\ doc.rev = writes + 1 /\ writes' = writes + 1 /\ writes \in Nat
  BY RevisionTypes DEF UserWritten, TypeInv
<1>2. ASSUME NEW u \in Id, users'[u] # None PROVE users'[u].rev <= writes'
  <2>1. CASE u = id
    <3>1. users'[u].rev = writes + 1 BY <1>1, <2>1
    <3> QED BY <1>1, <3>1, Later, Zenon
  <2>2. CASE u # id
    <3>1. users'[u] = users[u] /\ users[u].rev \in Nat /\ users[u].rev <= writes
      BY <1>1, <1>2, <2>2, RevisionTypes DEF RevisionInv
    <3>2. writes \in Nat /\ writes' = writes + 1
      BY <1>1
    <3> QED BY <3>1, <3>2, Later, Zenon
  <2> QED BY <2>1, <2>2
<1>3. ASSUME NEW b \in Admin, request'[b].op = "update user"
      PROVE  /\ request'[b].base.rev <= writes'
             /\ users'[request'[b].id].rev = request'[b].base.rev =>
                  users'[request'[b].id] = request'[b].base
  <2> DEFINE q == request[b]
  <2>1. request'[b] = q /\ q.op = "update user"
    BY <1>3
  <2>2. q.id \in Id /\ q.base.rev \in Nat /\ q.base.rev <= writes
    BY <2>1, RevisionTypes DEF RevisionInv
  <2>3. users[q.id].rev = q.base.rev => users[q.id] = q.base
    BY <2>1 DEF RevisionInv
  <2> HIDE DEF q
  <2>4. q.base.rev <= writes' /\ q.base.rev # doc.rev
    <3>1. doc.rev = writes + 1 /\ writes' = writes + 1 /\ writes \in Nat
      BY <1>1
    <3> QED BY <2>2, <3>1, Later, Zenon
  <2>5. users'[q.id].rev = q.base.rev => users'[q.id] = q.base
    <3>1. CASE q.id = id BY <1>1, <2>4, <3>1
    <3>2. CASE q.id # id BY <1>1, <2>2, <2>3, <3>2
    <3> QED BY <3>1, <3>2
  <2> QED BY <2>1, <2>4, <2>5
<1> QED BY <1>2, <1>3 DEF RevisionInv

LEMMA NextRevisionInv == TypeInv /\ RevisionInv /\ [Next]_vars => RevisionInv'
<1> SUFFICES ASSUME TypeInv, RevisionInv, [Next]_vars PROVE RevisionInv'
  OBVIOUS
<1>1. ASSUME NEW a \in Admin, AskStep(a) PROVE RevisionInv'
  <2>1. UNCHANGED <<users, writes>>
    BY <1>1, AskIsWellFormed DEF directory
  <2>2. PICK q : Informed(q) /\ WellFormed(q) /\ request' = [request EXCEPT ![a] = q]
    BY <1>1, AskIsWellFormed
  <2>3. q.op = "update user" => q.base = users[q.id] /\ q.id \in Id /\ users[q.id] # None
    BY <2>2 DEF Informed, WellFormed, UserOps
  <2>4. q.op = "update user" => q.base.rev <= writes
    BY <2>3 DEF RevisionInv
  <2>5. ASSUME NEW b \in Admin, request'[b].op = "update user"
        PROVE  /\ request'[b].base.rev <= writes
               /\ users[request'[b].id].rev = request'[b].base.rev =>
                    users[request'[b].id] = request'[b].base
    <3>1. CASE b = a BY <2>2, <2>3, <2>4, <2>5, <3>1 DEF TypeInv
    <3>2. CASE b # a
      <4>1. request'[b] = request[b] BY <2>2, <3>2 DEF TypeInv
      <4> QED BY <2>5, <4>1 DEF RevisionInv
    <3> QED BY <3>1, <3>2
  <2> QED BY <2>1, <2>5 DEF RevisionInv
<1>2. ASSUME NEW a \in Admin, NEW id \in Id, NEW doc \in UserDoc, UserCommit(a, id, doc)
      PROVE  RevisionInv'
  <2>1. Done(a) /\ UserWritten(id, doc)
    BY <1>2 DEF UserCommit
  <2>2. \A b \in Admin : request'[b].op = "update user" => request'[b] = request[b]
    BY <2>1, DoneKeepsOthers
  <2> QED BY <2>1, <2>2, UserWrittenRevisionInv
<1>3. ASSUME NEW r \in Root, NEW id \in Id, NEW doc \in UserDoc, Bound(r, id, doc)
      PROVE  RevisionInv'
  BY <1>3, UserWrittenRevisionInv DEF Bound
<1>4. ASSUME NEW a \in Admin, NEW l \in Label,
             LabelDeleted(a, l) \/ \E doc \in LabelDoc : LabelCommit(a, l, doc)
      PROVE  RevisionInv'
  <2>1. UNCHANGED users /\ Done(a)
    BY <1>4 DEF LabelDeleted, LabelCommit
  <2>2. writes' = writes + 1 /\ writes \in Nat
    BY <2>1, RevisionTypes DEF Done
  <2>3. \A b \in Admin : request'[b].op = "update user" => request'[b] = request[b]
    BY <2>1, DoneKeepsOthers
  <2>4. \A n \in Nat : n <= writes => n <= writes'
    BY <2>2
  <2>5. \A id \in Id : users[id] # None => users[id].rev <= writes'
    BY <2>4, RevisionTypes DEF RevisionInv
  <2>6. \A b \in Admin : request[b].op = "update user" => request[b].base.rev <= writes'
    BY <2>4, RevisionTypes DEF RevisionInv
  <2> QED BY <2>1, <2>3, <2>5, <2>6 DEF RevisionInv
<1>5. CASE UNCHANGED <<users, writes, request>>
  BY <1>5 DEF RevisionInv
<1> QED BY <1>1, <1>2, <1>3, <1>4, <1>5, Steps DEF ListUsers, vars, directory

----------------------------------------------------------------------------
(* The theorems.                                                           *)

DirectoryInv == TypeInv /\ EmailInv /\ NameInv /\ UseInv /\ IdentityInv /\ RevisionInv

THEOREM DirectoryInvariant == LegacyValuesDiffer /\ Spec => []DirectoryInv
<1>1. LegacyValuesDiffer /\ Init => DirectoryInv
  BY InitTypeInv, InitEmailInv, InitNameInv, InitUseInv, InitIdentityInv, InitRevisionInv
  DEF DirectoryInv
<1>2. DirectoryInv /\ [Next]_vars => DirectoryInv'
  BY NextTypeInv, NextEmailInv, NextNameInv, NextUseInv, NextIdentityInv, NextRevisionInv
  DEF DirectoryInv
<1> QED BY <1>1, <1>2, PTL DEF Spec

LEMMA ExistingDocuments ==
  ASSUME TypeInv
  PROVE  /\ Existing(users) = {u \in Id : users[u] # None}
         /\ Existing(labels) = {l \in Label : labels[l] # None}
  BY DEF TypeInv, Existing

(* No email, label name or chat identity ever has two owners, whatever     *)
(* requests and bindings commit between one request's reads and its        *)
(* transaction, and though legacy documents, also of users bound already,  *)
(* hold no claims.                                                         *)
THEOREM DirectoryHasNoDuplicates == LegacyValuesDiffer /\ Spec => []NoDuplicates
<1>1. DirectoryInv => NoDuplicates
  <2> SUFFICES ASSUME DirectoryInv PROVE NoDuplicates
    OBVIOUS
  <2> USE DEF DirectoryInv
  <2>1. \A i, j \in Existing(users) : users[i].email = users[j].email => i = j
    BY DEF EmailInv
  <2>2. \A i, j \in Existing(labels) : labels[i].name = labels[j].name => i = j
    BY ExistingDocuments DEF NameInv, NamesDiffer
  <2>3. \A i, j \in Existing(users) :
          users[i].bound # None /\ users[i].bound = users[j].bound => i = j
    BY ExistingDocuments DEF IdentityInv
  <2> QED BY <2>1, <2>2, <2>3 DEF NoDuplicates
<1> QED BY <1>1, DirectoryInvariant, PTL

(* Claims are held by documents that have the values; an identity or a     *)
(* label name that was written since there are claims is claimed.          *)
THEOREM DirectoryClaimsAreExact == LegacyValuesDiffer /\ Spec => []ClaimsExact
<1>1. DirectoryInv => ClaimsExact
  <2> SUFFICES ASSUME DirectoryInv PROVE ClaimsExact
    OBVIOUS
  <2>1. TypeInv /\ EmailInv /\ NameInv /\ UseInv /\ IdentityInv
    BY DEF DirectoryInv
  <2> QED
    BY <2>1, ExistingDocuments
    DEF ClaimsExact, EmailInv, NameInv, UseInv, IdentityInv, ClaimsAreNames, NamesAreClaimed
<1> QED BY <1>1, DirectoryInvariant, PTL

(* A label some user has is never deleted, though its last user may be     *)
(* written between the count of its users and the deletion.                *)
THEOREM DirectoryKeepsUsedLabels == Spec => []UsedLabelsExist
<1>1. TypeInv /\ UseInv => UsedLabelsExist
  BY ExistingDocuments DEF UsedLabelsExist, UseInv
<1>2. Init => TypeInv /\ UseInv
  BY InitTypeInv, InitUseInv
<1>3. TypeInv /\ UseInv /\ [Next]_vars => TypeInv' /\ UseInv'
  BY NextTypeInv, NextUseInv
<1> QED BY <1>1, <1>2, <1>3, PTL DEF Spec

(* An update that commits replaces the very document its request saw.      *)
THEOREM DirectoryLosesNoUpdate == Spec => NoLostUpdate
<1> DEFINE Replaces(a) ==
      request[a].op = "update user" /\ writes' # writes /\ request'[a] = Idle =>
        users[request[a].id] = request[a].base
<1>1. ASSUME TypeInv, RevisionInv, [Next]_vars, NEW a \in Admin PROVE Replaces(a)
  <2> SUFFICES ASSUME request[a].op = "update user", writes' # writes, request'[a] = Idle
               PROVE  users[request[a].id] = request[a].base
    OBVIOUS
  <2>1. request'[a] # request[a]
    <3>1. Idle.op = "none" BY DEF Idle
    <3> QED BY <3>1
  <2>2. ASSUME NEW b \in Admin, Done(b) PROVE a = b
    BY <1>1, <2>1, <2>2, DoneType
  <2>3. \A l \in Label : ~LabelDeleted(a, l)
    BY DEF LabelDeleted
  <2>4. \A l \in Label, doc \in LabelDoc : ~LabelCommit(a, l, doc)
    BY DEF LabelCommit
  <2>5. ~UNCHANGED request /\ ~UNCHANGED writes
    BY <2>1
  <2>6. PICK id \in Id, doc \in UserDoc : UserCommit(a, id, doc)
    BY <1>1, <2>2, <2>3, <2>4, <2>5, Steps, AskIsWellFormed
    DEF UserCommit, LabelDeleted, LabelCommit, Bound, ListUsers, vars, directory
  <2>7. users[request[a].id].rev = request[a].base.rev
    BY <2>6 DEF UserCommit
  <2> QED BY <1>1, <2>7 DEF RevisionInv
<1>2. TypeInv /\ RevisionInv /\ [Next]_vars => [\A a \in Admin : Replaces(a)]_vars
  BY <1>1
<1>3. Init => TypeInv /\ RevisionInv
  BY InitTypeInv, InitRevisionInv
<1>4. TypeInv /\ RevisionInv /\ [Next]_vars => TypeInv' /\ RevisionInv'
  BY NextTypeInv, NextRevisionInv
<1> QED BY <1>2, <1>3, <1>4, PTL DEF Spec, NoLostUpdate
=============================================================================
