----------------------- MODULE CredentialStoreProofs -----------------------
(***************************************************************************)
(* Proofs about CredentialStore, for any requests, labels, providers and   *)
(* purposes.                                                               *)
(***************************************************************************)
EXTENDS CredentialStore, TLAPS

(***************************************************************************)
(* The invariant, first for the steps that leave the tables alone.         *)
(***************************************************************************)

\* It holds initially.
LEMMA InitHolds == Init => StoreInv
  BY CredentialAssumption
  DEF Init, StoreInv, TypeOK, IdsAreNew, SecretsAreThere, ProfilesHaveCreds, RevokesAlone,
      BeforeIsRevoked, TargetsAreRight, RevokedIsNotUsed, NoCred, NoProf, NewReq, CredType, ProfType, ReqType

\* What the new locals of a request have to satisfy.
RightLocals(r, new) ==
    /\ new \in ReqType /\ new.pc # "idle"
    /\ new.pc # "done" =>
         prof[r].state = "absent" /\ new.secret = Nothing /\ new.cred \in Requests
    /\ new.pc \in {"sweep", "disable"} =>
         /\ cred[new.cred].status = "active"
         /\ \A s \in Requests \ {r} :
              ~(req[s].pc \in {"sweep", "disable"} /\ req[s].cred = new.cred)
    /\ \A c \in new.before : cred[c].status = "revoked"
    /\ \A p \in new.targets :
         /\ new.pc \in {"disable", "replace", "insert", "commit"} => prof[p].state # "absent"
         /\ new.pc = "disable" =>
              \/ prof[p].cred = new.cred
              \/ prof[p].cred \in Requests /\ cred[prof[p].cred].status = "revoked"
         /\ new.pc \in {"replace", "insert", "commit"} => prof[p].purpose = new.purpose
    /\ new.secret # Nothing => new.secret # Erased /\ new.cred \notin new.before

\* A step that only moves a request on keeps the invariant if its new locals are right.
LEMMA MoveKeeps ==
    ASSUME StoreInv, NEW r \in Requests, NEW new, RightLocals(r, new),
           req' = [req EXCEPT ![r] = new], UNCHANGED <<cred, prof>>
    PROVE  StoreInv'
  <1> USE DEF StoreInv, RightLocals
  <1>0. req \in [Requests -> ReqType] /\ new \in ReqType
    BY DEF TypeOK
  <1>1. req'[r] = new /\ \A q \in Requests \ {r} : req'[q] = req[q]
    BY <1>0
  <1>2. TypeOK'
    BY <1>0 DEF TypeOK
  <1>3. IdsAreNew' /\ SecretsAreThere' /\ ProfilesHaveCreds'
    BY <1>1 DEF IdsAreNew, SecretsAreThere, ProfilesHaveCreds
  <1>4. RevokesAlone'
    <2> SUFFICES ASSUME NEW q \in Requests
                 PROVE  /\ req'[q].pc \notin {"idle", "done"} => req'[q].cred \in Requests
                        /\ req'[q].pc \in {"sweep", "disable"} =>
                             /\ cred[req'[q].cred].status = "active"
                             /\ \A s \in Requests \ {q} :
                                  ~(/\ req'[s].pc \in {"sweep", "disable"}
                                    /\ req'[s].cred = req'[q].cred)
      BY DEF RevokesAlone
    <2>1. CASE q = r
      BY <1>1, <2>1 DEF RevokesAlone
    <2>2. CASE q # r
      BY <1>1, <2>2 DEF RevokesAlone
    <2>3. QED
      BY <2>1, <2>2
  <1>5. BeforeIsRevoked'
    BY <1>1 DEF BeforeIsRevoked
  <1>6. TargetsAreRight'
    <2> SUFFICES ASSUME NEW q \in Requests, NEW p \in req'[q].targets
                 PROVE  /\ req'[q].pc \in {"disable", "replace", "insert", "commit"} =>
                             prof[p].state # "absent"
                        /\ req'[q].pc = "disable" =>
                             \/ prof[p].cred = req'[q].cred
                             \/ /\ prof[p].cred \in Requests
                                /\ cred[prof[p].cred].status = "revoked"
                        /\ req'[q].pc \in {"replace", "insert", "commit"} =>
                             prof[p].purpose = req'[q].purpose
      BY DEF TargetsAreRight
    <2>1. CASE q = r
      BY <1>1, <2>1
    <2>2. CASE q # r
      BY <1>1, <2>2 DEF TargetsAreRight
    <2>3. QED
      BY <2>1, <2>2
  <1>7. RevokedIsNotUsed'
    BY <1>1 DEF RevokedIsNotUsed
  <1>8. QED
    BY <1>2, <1>3, <1>4, <1>5, <1>6, <1>7

\* A request that ends without a secret keeps the invariant.
LEMMA DoneKeeps ==
    ASSUME StoreInv, NEW r \in Requests, req[r].pc # "done", Done(r), UNCHANGED <<cred, prof>>
    PROVE  StoreInv'
  <1> DEFINE new == [req[r] EXCEPT !.pc = "done"]
  <1>1. req[r] \in ReqType /\ req[r].secret = Nothing
        /\ \A c \in req[r].before : cred[c].status = "revoked"
    BY DEF StoreInv, TypeOK, IdsAreNew, BeforeIsRevoked
  <1>2. new \in ReqType /\ new.pc = "done" /\ new.secret = req[r].secret
        /\ new.before = req[r].before
    BY <1>1 DEF ReqType
  <1>3. RightLocals(r, new)
    BY <1>1, <1>2 DEF RightLocals
  <1>4. req' = [req EXCEPT ![r] = new]
    BY DEF Done
  <1>5. QED
    BY <1>3, <1>4, MoveKeeps

(***************************************************************************)
(* One lemma for each request: /llm model set, test, revoke, resolve.      *)
(***************************************************************************)

\* RevokeCredential up to its commit.
LEMMA RevokeKeeps ==
    ASSUME StoreInv, NEW r \in Requests, Revoke(r) \/ Sweep(r)
    PROVE  StoreInv'
  <1> USE DEF RightLocals
  <1>0. req[r] \in ReqType /\ (\A c \in req[r].before : cred[c].status = "revoked")
    BY DEF StoreInv, TypeOK, BeforeIsRevoked
  <1>1. CASE Revoke(r)
    <2>1. PICK label \in Labels : \E c \in Labelled(label) :
            /\ ~CredLocked(c)
            /\ req' = [req EXCEPT ![r] = [req[r] EXCEPT !.pc = "sweep", !.cred = c]]
      BY <1>1 DEF Revoke
    <2>2. PICK c \in Labelled(label) :
            /\ ~CredLocked(c)
            /\ req' = [req EXCEPT ![r] = [req[r] EXCEPT !.pc = "sweep", !.cred = c]]
      BY <2>1
    <2> DEFINE new == [req[r] EXCEPT !.pc = "sweep", !.cred = c]
    <2>3. c \in Requests /\ cred[c].status = "active"
      BY DEF Labelled, Active
    <2>4. new \in ReqType /\ new.pc = "sweep" /\ new.cred = c /\ new.secret = req[r].secret
          /\ new.before = req[r].before
      BY <1>0, <2>3 DEF ReqType
    <2>5. prof[r].state = "absent" /\ req[r].secret = Nothing
      BY <1>1 DEF Revoke, At, StoreInv, IdsAreNew
    <2>6. RightLocals(r, new)
      BY <1>0, <2>2, <2>3, <2>4, <2>5 DEF CredLocked
    <2>7. UNCHANGED <<cred, prof>>
      BY <1>1 DEF Revoke
    <2>8. QED
      BY <2>2, <2>6, <2>7, MoveKeeps
  <1>2. CASE Sweep(r)
    <2> DEFINE targets == {p \in Requests : prof[p].state = "enabled"
                                            /\ prof[p].cred \in Swept(r)}
               new == [req[r] EXCEPT !.pc = "disable", !.targets = targets]
    <2>1. req' = [req EXCEPT ![r] = new] /\ UNCHANGED <<cred, prof>> /\ req[r].pc = "sweep"
      BY <1>2 DEF Sweep, At
    <2>2. new \in ReqType /\ new.pc = "disable" /\ new.cred = req[r].cred
          /\ new.secret = req[r].secret /\ new.before = req[r].before /\ new.targets = targets
      BY <1>0 DEF ReqType
    <2>3. /\ prof[r].state = "absent" /\ req[r].secret = Nothing /\ req[r].cred \in Requests
          /\ cred[req[r].cred].status = "active"
          /\ \A s \in Requests \ {r} :
               ~(req[s].pc \in {"sweep", "disable"} /\ req[s].cred = req[r].cred)
      BY <2>1 DEF StoreInv, IdsAreNew, RevokesAlone
    <2>4. \A p \in targets :
            /\ prof[p].state # "absent"
            /\ \/ prof[p].cred = req[r].cred
               \/ prof[p].cred \in Requests /\ cred[prof[p].cred].status = "revoked"
      BY DEF Swept
    <2>5. RightLocals(r, new)
      BY <1>0, <2>2, <2>3, <2>4
    <2>6. QED
      BY <2>1, <2>5, MoveKeeps
  <1>3. QED
    BY <1>1, <1>2

\* SelectModelProfile up to its commit.
LEMMA SelectKeeps ==
    ASSUME StoreInv, NEW r \in Requests,
           LookUp(r) \/ Select(r) \/ Replace(r) \/ Insert(r) \/ InsertFails(r)
    PROVE  StoreInv'
  <1> USE DEF RightLocals
  <1>0. req[r] \in ReqType /\ (\A c \in req[r].before : cred[c].status = "revoked")
    BY DEF StoreInv, TypeOK, BeforeIsRevoked
  <1>1. CASE LookUp(r)
    <2>1. PICK label \in Labels, purpose \in Purposes : \E c \in Labelled(label) :
            req' = [req EXCEPT ![r] = [req[r] EXCEPT !.pc = "select", !.cred = c,
                                                     !.purpose = purpose]]
      BY <1>1 DEF LookUp
    <2>2. PICK c \in Labelled(label) :
            req' = [req EXCEPT ![r] = [req[r] EXCEPT !.pc = "select", !.cred = c,
                                                     !.purpose = purpose]]
      BY <2>1
    <2> DEFINE new == [req[r] EXCEPT !.pc = "select", !.cred = c, !.purpose = purpose]
    <2>3. c \in Requests
      BY DEF Labelled
    <2>4. new \in ReqType /\ new.pc = "select" /\ new.cred = c /\ new.secret = req[r].secret
          /\ new.before = req[r].before
      BY <1>0, <2>3 DEF ReqType
    <2>5. prof[r].state = "absent" /\ req[r].secret = Nothing
      BY <1>1 DEF LookUp, At, StoreInv, IdsAreNew
    <2>6. RightLocals(r, new)
      BY <1>0, <2>3, <2>4, <2>5
    <2>7. UNCHANGED <<cred, prof>>
      BY <1>1 DEF LookUp
    <2>8. QED
      BY <2>2, <2>6, <2>7, MoveKeeps
  <1>2. CASE Select(r)
    <2> DEFINE new == [req[r] EXCEPT !.pc = "replace", !.targets = Enabled(req[r].purpose)]
    <2>1. req' = [req EXCEPT ![r] = new] /\ UNCHANGED <<cred, prof>> /\ req[r].pc = "select"
      BY <1>2 DEF Select, At
    <2>2. new \in ReqType /\ new.pc = "replace" /\ new.cred = req[r].cred
          /\ new.secret = req[r].secret /\ new.before = req[r].before
          /\ new.purpose = req[r].purpose /\ new.targets = Enabled(req[r].purpose)
      BY <1>0 DEF ReqType, Enabled
    <2>3. prof[r].state = "absent" /\ req[r].secret = Nothing /\ req[r].cred \in Requests
      BY <2>1 DEF StoreInv, IdsAreNew, RevokesAlone
    <2>4. \A p \in new.targets : prof[p].state # "absent" /\ prof[p].purpose = new.purpose
      BY <2>2 DEF Enabled
    <2>5. RightLocals(r, new)
      BY <1>0, <2>2, <2>3, <2>4
    <2>6. QED
      BY <2>1, <2>5, MoveKeeps
  <1>3. CASE Replace(r) \/ Insert(r)
    <2>1. PICK pc \in {"insert", "commit"} : req' = [req EXCEPT ![r] = [req[r] EXCEPT !.pc = pc]]
      BY <1>3 DEF Replace, Insert
    <2> DEFINE new == [req[r] EXCEPT !.pc = pc]
    <2>2. UNCHANGED <<cred, prof>> /\ req[r].pc \in {"replace", "insert"}
      BY <1>3 DEF Replace, Insert, At
    <2>3. new \in ReqType /\ new.pc = pc /\ new.cred = req[r].cred
          /\ new.secret = req[r].secret /\ new.before = req[r].before
          /\ new.purpose = req[r].purpose /\ new.targets = req[r].targets
      BY <1>0 DEF ReqType
    <2>4. prof[r].state = "absent" /\ req[r].secret = Nothing /\ req[r].cred \in Requests
      BY <2>2 DEF StoreInv, IdsAreNew, RevokesAlone
    <2>5. \A p \in new.targets : prof[p].state # "absent" /\ prof[p].purpose = new.purpose
      BY <2>2, <2>3 DEF StoreInv, TargetsAreRight
    <2>6. RightLocals(r, new)
      BY <1>0, <2>3, <2>4, <2>5
    <2>7. QED
      BY <2>1, <2>2, <2>6, MoveKeeps
  <1>4. CASE InsertFails(r)
    BY <1>4, DoneKeeps DEF InsertFails, At
  <1>5. QED
    BY <1>1, <1>2, <1>3, <1>4

\* TestCredential and ResolveActiveModel, without the write of the result.
LEMMA ReadKeeps ==
    ASSUME StoreInv, NEW r \in Requests, ReadForTest(r) \/ ReadProfile(r) \/ ReadCredential(r)
    PROVE  StoreInv'
  <1> USE DEF RightLocals
  <1>0. req[r] \in ReqType /\ (\A c \in req[r].before : cred[c].status = "revoked")
    BY DEF StoreInv, TypeOK, BeforeIsRevoked
  <1>1. CASE ReadForTest(r)
    <2>1. PICK label \in Labels : \E c \in Labelled(label) :
            req' = [req EXCEPT ![r] = [req[r] EXCEPT !.pc = "test", !.cred = c]]
      BY <1>1 DEF ReadForTest
    <2>2. PICK c \in Labelled(label) :
            req' = [req EXCEPT ![r] = [req[r] EXCEPT !.pc = "test", !.cred = c]]
      BY <2>1
    <2> DEFINE new == [req[r] EXCEPT !.pc = "test", !.cred = c]
    <2>3. c \in Requests
      BY DEF Labelled
    <2>4. new \in ReqType /\ new.pc = "test" /\ new.cred = c /\ new.secret = req[r].secret
          /\ new.before = req[r].before
      BY <1>0, <2>3 DEF ReqType
    <2>5. prof[r].state = "absent" /\ req[r].secret = Nothing
      BY <1>1 DEF ReadForTest, At, StoreInv, IdsAreNew
    <2>6. RightLocals(r, new)
      BY <1>0, <2>3, <2>4, <2>5
    <2>7. UNCHANGED <<cred, prof>>
      BY <1>1 DEF ReadForTest
    <2>8. QED
      BY <2>2, <2>6, <2>7, MoveKeeps
  <1>2. CASE ReadProfile(r)
    <2> DEFINE revoked == {c \in Requests : cred[c].status = "revoked"}
    <2>1. PICK purpose \in Purposes : \E p \in Enabled(purpose) :
            req' = [req EXCEPT ![r] = [req[r] EXCEPT !.pc = "resolve", !.prof = p,
                                         !.cred = prof[p].cred, !.before = revoked]]
      BY <1>2 DEF ReadProfile
    <2>2. PICK p \in Enabled(purpose) :
            req' = [req EXCEPT ![r] = [req[r] EXCEPT !.pc = "resolve", !.prof = p,
                                         !.cred = prof[p].cred, !.before = revoked]]
      BY <2>1
    <2> DEFINE new == [req[r] EXCEPT !.pc = "resolve", !.prof = p,
                                     !.cred = prof[p].cred, !.before = revoked]
    <2>3. p \in Requests /\ prof[p].cred \in Requests
      BY DEF Enabled, StoreInv, ProfilesHaveCreds
    <2>4. new \in ReqType /\ new.pc = "resolve" /\ new.cred = prof[p].cred
          /\ new.secret = req[r].secret /\ new.before = revoked
      BY <1>0, <2>3 DEF ReqType
    <2>5. prof[r].state = "absent" /\ req[r].secret = Nothing
      BY <1>2 DEF ReadProfile, At, StoreInv, IdsAreNew
    <2>6. RightLocals(r, new)
      BY <2>3, <2>4, <2>5
    <2>7. UNCHANGED <<cred, prof>>
      BY <1>2 DEF ReadProfile
    <2>8. QED
      BY <2>2, <2>6, <2>7, MoveKeeps
  <1>3. CASE ReadCredential(r)
    <2> DEFINE secret == cred[req[r].cred].secret
               new == [req[r] EXCEPT !.pc = "done", !.secret = secret]
    <2>1. req' = [req EXCEPT ![r] = new] /\ UNCHANGED <<cred, prof>> /\ req[r].pc = "resolve"
          /\ cred[req[r].cred].status = "active"
      BY <1>3 DEF ReadCredential, At, Usable, Active
    <2>2. req[r].cred \in Requests
      BY <2>1 DEF StoreInv, RevokesAlone
    <2>3. secret \in Requests /\ secret # Erased
      BY <2>1, <2>2, CredentialAssumption DEF StoreInv, SecretsAreThere
    <2>4. req[r].cred \notin req[r].before
      BY <1>0, <2>1
    <2>5. new \in ReqType /\ new.pc = "done" /\ new.cred = req[r].cred
          /\ new.secret = secret /\ new.before = req[r].before
      BY <1>0, <2>3 DEF ReqType
    <2>6. RightLocals(r, new)
      BY <1>0, <2>3, <2>4, <2>5
    <2>7. QED
      BY <2>1, <2>6, MoveKeeps
  <1>4. QED
    BY <1>1, <1>2, <1>3

\* What the end of a request leaves of it.
LEMMA DoneFacts ==
    ASSUME TypeOK, NEW r \in Requests, Done(r)
    PROVE  /\ req' \in [Requests -> ReqType]
           /\ req'[r].pc = "done"
           /\ \A q \in Requests \ {r} : req'[q] = req[q]
           /\ \A q \in Requests : /\ req'[q].cred = req[q].cred
                                  /\ req'[q].purpose = req[q].purpose
                                  /\ req'[q].targets = req[q].targets
                                  /\ req'[q].secret = req[q].secret
                                  /\ req'[q].before = req[q].before
  <1> DEFINE new == [req[r] EXCEPT !.pc = "done"]
  <1>1. req[r] \in ReqType
    BY DEF TypeOK
  <1>2. new \in ReqType /\ new.pc = "done" /\ new.cred = req[r].cred
        /\ new.purpose = req[r].purpose /\ new.targets = req[r].targets
        /\ new.secret = req[r].secret /\ new.before = req[r].before
    BY <1>1 DEF ReqType
  <1>3. req' = [req EXCEPT ![r] = new]
    BY DEF Done
  <1>4. req' \in [Requests -> ReqType] /\ req'[r] = new
        /\ \A q \in Requests \ {r} : req'[q] = req[q]
    BY <1>2, <1>3 DEF TypeOK
  <1>5. QED
    BY <1>2, <1>4

\* What a write of a credential must leave alone for the invariant to be kept.
GoodWrite(r) ==
    /\ cred' \in [Requests -> CredType]
    /\ \A c \in Requests :
         /\ cred[c].status = "revoked" => cred'[c] = cred[c]
         /\ cred[c].status = "active" => cred'[c].status = "active" \/ c = req[r].cred
         /\ cred[c].status = "absent" => cred'[c].status = "absent" \/ c = r
         /\ cred'[c].status = "active" => cred'[c].secret \in Requests
         /\ cred'[c].status = "revoked" => cred'[c].secret = Erased
    /\ \A q \in Requests \ {r} : req[q].pc \in {"sweep", "disable"} =>
         cred'[req[q].cred].status = "active"

\* A good write of credentials by a request that ends keeps the invariant.
LEMMA WriteKeeps ==
    ASSUME StoreInv, NEW r \in Requests, req[r].pc # "done", Done(r), UNCHANGED prof,
           GoodWrite(r)
    PROVE  StoreInv'
  <1> USE DEF StoreInv
  <1>1. /\ req' \in [Requests -> ReqType]
        /\ req'[r].pc = "done"
        /\ \A q \in Requests \ {r} : req'[q] = req[q]
        /\ \A q \in Requests : /\ req'[q].cred = req[q].cred
                               /\ req'[q].purpose = req[q].purpose
                               /\ req'[q].targets = req[q].targets
                               /\ req'[q].secret = req[q].secret
                               /\ req'[q].before = req[q].before
    BY DoneFacts
  <1>2. TypeOK'
    BY <1>1 DEF TypeOK, GoodWrite
  <1>3. IdsAreNew' /\ SecretsAreThere' /\ ProfilesHaveCreds'
    BY <1>1 DEF IdsAreNew, SecretsAreThere, ProfilesHaveCreds, GoodWrite
  <1>4. RevokesAlone'
    BY <1>1 DEF RevokesAlone, GoodWrite
  <1>5. BeforeIsRevoked'
    <2>1. \A q \in Requests : req[q].before \subseteq Requests
      BY DEF TypeOK, ReqType
    <2>2. QED
      BY <1>1, <2>1 DEF BeforeIsRevoked, GoodWrite
  <1>6. TargetsAreRight'
    BY <1>1 DEF TargetsAreRight, GoodWrite
  <1>7. RevokedIsNotUsed'
    BY <1>1 DEF RevokedIsNotUsed, GoodWrite
  <1>8. QED
    BY <1>2, <1>3, <1>4, <1>5, <1>6, <1>7

\* The writes of UpsertCredential and UpdateCredentialTestResult are good.
LEMMA CredWritesAreGood ==
    ASSUME StoreInv, NEW r \in Requests, Add(r) \/ StoreTest(r)
    PROVE  GoodWrite(r) /\ req[r].pc # "done" /\ Done(r) /\ UNCHANGED prof
  <1> USE DEF GoodWrite
  <1>0. /\ cred \in [Requests -> CredType]
        /\ \A c \in Requests :
             /\ cred[c].status = "active" => cred[c].secret \in Requests
             /\ cred[c].status = "revoked" => cred[c].secret = Erased
        /\ \A q \in Requests : req[q].pc \in {"sweep", "disable"} =>
             req[q].cred \in Requests /\ cred[req[q].cred].status = "active"
    BY DEF StoreInv, TypeOK, SecretsAreThere, RevokedIsNotUsed, RevokesAlone
  <1>1. req[r].pc # "done" /\ Done(r) /\ UNCHANGED prof
    BY DEF Add, StoreTest, At
  <1>2. CASE Add(r)
    <2>1. req[r].pc = "idle" /\ cred[r].status = "absent"
      BY <1>2 DEF Add, At, StoreInv, IdsAreNew
    <2>2. PICK label \in Labels, provider \in Providers :
            \/ cred' = [cred EXCEPT ![r] = [status |-> "active", label |-> label,
                                            provider |-> provider, secret |-> r,
                                            test |-> "untested"]]
            \/ \E c \in Labelled(label) :
                 cred' = [cred EXCEPT ![c].secret = r, ![c].test = "untested"]
      BY <1>2 DEF Add
    <2>3. CASE cred' = [cred EXCEPT ![r] = [status |-> "active", label |-> label,
                                            provider |-> provider, secret |-> r,
                                            test |-> "untested"]]
      <3> DEFINE new == [status |-> "active", label |-> label, provider |-> provider,
                         secret |-> r, test |-> "untested"]
      <3>1. new \in CredType /\ new.status = "active" /\ new.secret = r
        BY DEF CredType
      <3>2. cred' = [cred EXCEPT ![r] = new]
        BY <2>3
      <3> HIDE DEF new
      <3>3. cred'[r] = new /\ (\A c \in Requests \ {r} : cred'[c] = cred[c])
            /\ cred' \in [Requests -> CredType]
        BY <1>0, <3>1, <3>2
      <3>4. QED
        BY <1>0, <1>1, <2>1, <3>1, <3>3
    <2>4. CASE \E c \in Labelled(label) :
                 cred' = [cred EXCEPT ![c].secret = r, ![c].test = "untested"]
      <3>1. PICK c \in Labelled(label) :
              cred' = [cred EXCEPT ![c].secret = r, ![c].test = "untested"]
        BY <2>4
      <3> DEFINE new == [cred[c] EXCEPT !.secret = r, !.test = "untested"]
      <3>2. c \in Requests /\ cred[c].status = "active" /\ cred[c] \in CredType
        BY <1>0 DEF Labelled, Active
      <3>3. new \in CredType /\ new.status = "active" /\ new.secret = r
        BY <3>2 DEF CredType
      <3>4. cred' = [cred EXCEPT ![c] = new]
        BY <1>0, <3>1, <3>2 DEF CredType
      <3> HIDE DEF new
      <3>5. cred'[c] = new /\ (\A d \in Requests \ {c} : cred'[d] = cred[d])
            /\ cred' \in [Requests -> CredType]
        BY <1>0, <3>2, <3>3, <3>4
      <3>6. QED
        BY <1>0, <1>1, <3>2, <3>3, <3>5
    <2>5. QED
      BY <2>2, <2>3, <2>4
  <1>3. CASE StoreTest(r)
    <2> DEFINE c == req[r].cred
    <2>1. c \in Requests
      BY <1>3 DEF StoreTest, At, StoreInv, RevokesAlone
    <2>2. CASE UNCHANGED cred
      BY <1>0, <1>1, <2>2
    <2>3. CASE Testable(c) /\ \E result \in {"succeeded", "failed"} :
                                cred' = [cred EXCEPT ![c].test = result]
      <3>1. PICK result \in {"succeeded", "failed"} : cred' = [cred EXCEPT ![c].test = result]
        BY <2>3
      <3> DEFINE new == [cred[c] EXCEPT !.test = result]
      <3>2. cred[c].status = "active" /\ cred[c] \in CredType
        BY <1>0, <2>1, <2>3 DEF Testable, Active
      <3>3. new \in CredType /\ new.status = "active" /\ new.secret = cred[c].secret
        BY <3>2 DEF CredType
      <3>4. cred' = [cred EXCEPT ![c] = new]
        BY <3>1
      <3> HIDE DEF new
      <3>5. cred'[c] = new /\ (\A d \in Requests \ {c} : cred'[d] = cred[d])
            /\ cred' \in [Requests -> CredType]
        BY <1>0, <2>1, <3>3, <3>4
      <3>6. QED
        BY <1>0, <1>1, <2>1, <3>2, <3>3, <3>5
    <2>4. QED
      BY <1>3, <2>2, <2>3 DEF StoreTest
  <1>4. QED
    BY <1>2, <1>3

\* What the commit of a revocation does to the tables.
LEMMA CommitRevokeFacts ==
    ASSUME StoreInv, NEW r \in Requests, CommitRevoke(r)
    PROVE  /\ GoodWrite(r) /\ req[r].pc = "disable" /\ req[r].cred \in Requests
           /\ cred'[req[r].cred].status = "revoked"
           /\ prof' = Disabled(req[r].targets)
  <1> DEFINE c == req[r].cred
             new == [cred[c] EXCEPT !.status = "revoked", !.secret = Erased]
  <1>0. /\ cred \in [Requests -> CredType]
        /\ \A d \in Requests :
             /\ cred[d].status = "active" => cred[d].secret \in Requests
             /\ cred[d].status = "revoked" => cred[d].secret = Erased
        /\ \A q \in Requests : req[q].pc \in {"sweep", "disable"} =>
             req[q].cred \in Requests /\ cred[req[q].cred].status = "active"
    BY DEF StoreInv, TypeOK, SecretsAreThere, RevokedIsNotUsed, RevokesAlone
  <1>1. req[r].pc = "disable" /\ cred' = Revoked(c) /\ prof' = Disabled(req[r].targets)
    BY DEF CommitRevoke, At
  <1>2. c \in Requests /\ cred[c].status = "active" /\ cred[c] \in CredType
    BY <1>0, <1>1
  <1>3. new \in CredType /\ new.status = "revoked" /\ new.secret = Erased
    BY <1>2 DEF CredType
  <1>4. cred' = [cred EXCEPT ![c] = new]
    BY <1>0, <1>1, <1>2 DEF Revoked, CredType
  <1>5. \A q \in Requests \ {r} : req[q].pc \in {"sweep", "disable"} => req[q].cred # c
    BY <1>1 DEF StoreInv, RevokesAlone
  <1> HIDE DEF new
  <1>6. cred'[c] = new /\ (\A d \in Requests \ {c} : cred'[d] = cred[d])
        /\ cred' \in [Requests -> CredType]
    BY <1>0, <1>2, <1>3, <1>4
  <1>7. GoodWrite(r)
    BY <1>0, <1>2, <1>3, <1>5, <1>6 DEF GoodWrite
  <1>8. QED
    BY <1>1, <1>2, <1>3, <1>6, <1>7

\* Disabling profiles changes nothing else of them.
LEMMA DisabledFacts ==
    ASSUME TypeOK, NEW targets, NEW p \in Requests
    PROVE  LET new == Disabled(targets)[p]
           IN  /\ new \in ProfType /\ new.cred = prof[p].cred /\ new.purpose = prof[p].purpose
               /\ new.state = "absent" <=> prof[p].state = "absent"
               /\ new.state = "enabled" <=> prof[p].state = "enabled" /\ p \notin targets
  <1> DEFINE off == [prof[p] EXCEPT !.state = "disabled"]
  <1>1. prof[p] \in ProfType
    BY DEF TypeOK
  <1>2. off \in ProfType /\ off.cred = prof[p].cred /\ off.purpose = prof[p].purpose
        /\ off.state = "disabled"
    BY <1>1 DEF ProfType
  <1>3. Disabled(targets)[p] = IF p \in targets /\ prof[p].state = "enabled" THEN off ELSE prof[p]
    BY DEF Disabled
  <1> HIDE DEF off
  <1>4. QED
    BY <1>1, <1>2, <1>3

\* What the commit of a selection does to the profiles.
LEMMA CommitSelectFacts ==
    ASSUME StoreInv, NEW r \in Requests, CommitSelect(r)
    PROVE  /\ req[r].pc = "commit" /\ Done(r) /\ UNCHANGED cred
           /\ prof' \in [Requests -> ProfType]
           /\ prof'[r].state = "enabled" /\ prof'[r].purpose = req[r].purpose
           /\ prof'[r].cred = req[r].cred /\ req[r].cred \in Requests
           /\ \A p \in Requests \ {r} : prof'[p] = Disabled(req[r].targets)[p]
  <1> DEFINE new == [state |-> "enabled", purpose |-> req[r].purpose, cred |-> req[r].cred]
  <1>1. req[r].pc = "commit" /\ Done(r) /\ UNCHANGED cred
        /\ prof' = [Disabled(req[r].targets) EXCEPT ![r] = new]
    BY DEF CommitSelect, At
  <1>2. req[r].cred \in Requests /\ req[r] \in ReqType
    BY <1>1 DEF StoreInv, RevokesAlone, TypeOK
  <1>3. new \in ProfType /\ new.state = "enabled" /\ new.purpose = req[r].purpose
        /\ new.cred = req[r].cred
    BY <1>2 DEF ProfType, ReqType
  <1>4. Disabled(req[r].targets) \in [Requests -> ProfType]
    <2>1. \A p \in Requests : Disabled(req[r].targets)[p] \in ProfType
      <3> TAKE p \in Requests
      <3>1. QED
        BY DisabledFacts DEF StoreInv
    <2>2. QED
      BY <2>1 DEF Disabled
  <1> HIDE DEF new
  <1>5. QED
    BY <1>1, <1>2, <1>3, <1>4

\* The two commits that write profiles keep the invariant.
LEMMA CommitsKeep ==
    ASSUME StoreInv, NEW r \in Requests, CommitRevoke(r) \/ CommitSelect(r)
    PROVE  StoreInv'
  <1> USE DEF StoreInv
  <1>0. req[r].pc \in {"disable", "commit"} /\ Done(r) /\ GoodWrite(r)
    <2>1. CASE CommitRevoke(r)
      BY <2>1, CommitRevokeFacts DEF CommitRevoke
    <2>2. CASE CommitSelect(r)
      BY <2>2, CommitSelectFacts
      DEF GoodWrite, TypeOK, SecretsAreThere, RevokedIsNotUsed, RevokesAlone
    <2>3. QED
      BY <2>1, <2>2
  <1>1. /\ req' \in [Requests -> ReqType]
        /\ req'[r].pc = "done"
        /\ \A q \in Requests \ {r} : req'[q] = req[q]
        /\ \A q \in Requests : /\ req'[q].cred = req[q].cred
                               /\ req'[q].purpose = req[q].purpose
                               /\ req'[q].targets = req[q].targets
                               /\ req'[q].secret = req[q].secret
                               /\ req'[q].before = req[q].before
    BY <1>0, DoneFacts
  <1>2. prof' \in [Requests -> ProfType]
        /\ (\A p \in Requests : prof[p].state # "absent" =>
              /\ prof'[p].state # "absent" /\ prof'[p].cred = prof[p].cred
              /\ prof'[p].purpose = prof[p].purpose)
        /\ (\A p \in Requests \ {r} : prof[p].state = "absent" => prof'[p].state = "absent")
        /\ (\A p \in Requests : prof'[p].state # "absent" => prof'[p].cred \in Requests)
    <2>0. \A p \in Requests :
            LET new == Disabled(req[r].targets)[p]
            IN  /\ new \in ProfType /\ new.cred = prof[p].cred /\ new.purpose = prof[p].purpose
                /\ new.state = "absent" <=> prof[p].state = "absent"
      <3> TAKE p \in Requests
      <3>1. QED
        BY DisabledFacts
    <2>1. CASE CommitRevoke(r)
      <3>1. prof' = Disabled(req[r].targets)
        BY <2>1, CommitRevokeFacts
      <3>2. prof' \in [Requests -> ProfType]
        BY <2>0, <3>1 DEF Disabled
      <3>3. QED
        BY <2>0, <3>1, <3>2 DEF ProfilesHaveCreds
    <2>2. CASE CommitSelect(r)
      <3>1. prof[r].state = "absent"
        BY <2>2 DEF CommitSelect, At, IdsAreNew
      <3>2. QED
        BY <2>0, <2>2, <3>1, CommitSelectFacts DEF ProfilesHaveCreds
    <2>3. QED
      BY <2>1, <2>2
  <1>3. TypeOK'
    BY <1>0, <1>1, <1>2 DEF TypeOK, GoodWrite
  <1>4. IdsAreNew' /\ SecretsAreThere' /\ ProfilesHaveCreds'
    BY <1>0, <1>1, <1>2 DEF IdsAreNew, SecretsAreThere, ProfilesHaveCreds, GoodWrite
  <1>5. RevokesAlone'
    BY <1>0, <1>1 DEF RevokesAlone, GoodWrite
  <1>6. BeforeIsRevoked'
    <2>1. \A q \in Requests : req[q].before \subseteq Requests
      BY DEF TypeOK, ReqType
    <2>2. QED
      BY <1>0, <1>1, <2>1 DEF BeforeIsRevoked, GoodWrite
  <1>7. TargetsAreRight'
    <2>1. \A q \in Requests : req[q].targets \subseteq Requests
      BY DEF TypeOK, ReqType
    <2>2. QED
      BY <1>0, <1>1, <1>2, <2>1 DEF TargetsAreRight, GoodWrite
  <1>8. RevokedIsNotUsed'
    BY <1>0, <1>1 DEF RevokedIsNotUsed, GoodWrite
  <1>9. QED
    BY <1>3, <1>4, <1>5, <1>6, <1>7, <1>8

(***************************************************************************)
(* The invariant, and the properties it gives.                             *)
(***************************************************************************)

\* Every step keeps the invariant.
LEMMA StepKeeps == StoreInv /\ [Next]_vars => StoreInv'
  <1> SUFFICES ASSUME StoreInv, [Next]_vars PROVE StoreInv'
    OBVIOUS
  <1>1. CASE UNCHANGED vars
    BY <1>1
    DEF vars, StoreInv, TypeOK, IdsAreNew, SecretsAreThere, ProfilesHaveCreds, RevokesAlone,
        BeforeIsRevoked, TargetsAreRight, RevokedIsNotUsed
  <1>2. CASE Next
    <2> PICK r \in Requests : Step(r)
      BY <1>2 DEF Next
    <2>1. CASE Add(r) \/ StoreTest(r)
      BY <2>1, CredWritesAreGood, WriteKeeps
    <2>2. CASE CommitRevoke(r) \/ CommitSelect(r)
      BY <2>2, CommitsKeep
    <2>3. CASE Revoke(r) \/ Sweep(r)
      BY <2>3, RevokeKeeps
    <2>4. CASE LookUp(r) \/ Select(r) \/ Replace(r) \/ Insert(r) \/ InsertFails(r)
      BY <2>4, SelectKeeps
    <2>5. CASE ReadForTest(r) \/ ReadProfile(r) \/ ReadCredential(r)
      BY <2>5, ReadKeeps
    <2>6. CASE Fail(r)
      BY <2>6, DoneKeeps DEF Fail
    <2>7. QED
      BY <2>1, <2>2, <2>3, <2>4, <2>5, <2>6 DEF Step
  <1>3. QED
    BY <1>1, <1>2

\* The invariant: locks are exclusive, ids are new, and what a transaction is about
\* to update is what it may update.
THEOREM StoreCorrect == Spec => []StoreInv
  BY InitHolds, StepKeeps, PTL DEF Spec

\* The variables keep their types.
THEOREM TypeCorrect == Spec => []TypeOK
  <1>1. StoreInv => TypeOK
    BY DEF StoreInv
  <1>2. QED
    BY <1>1, StoreCorrect, PTL

\* No resolution that begins after a revocation comes back with the secret.
THEOREM RevokedNeverUsed == Spec => []RevokedIsNotUsed
  <1>1. StoreInv => RevokedIsNotUsed
    BY DEF StoreInv
  <1>2. QED
    BY <1>1, StoreCorrect, PTL

\* No rotation and no result of a test gets to the row of a revoked credential.
THEOREM RevokedStaysFinal == Spec => RevokedIsFinal
  <1> DEFINE Kept == \A c \in Requests : cred[c].status = "revoked" => cred'[c] = cred[c]
  <1>1. ASSUME StoreInv, [Next]_vars PROVE [Kept]_vars
    <2>1. CASE UNCHANGED vars
      BY <2>1
    <2>2. CASE Next
      <3> PICK r \in Requests : Step(r)
        BY <2>2 DEF Next
      <3>1. CASE Add(r) \/ StoreTest(r) \/ CommitRevoke(r)
        BY <1>1, <3>1, CredWritesAreGood, CommitRevokeFacts DEF GoodWrite
      <3>2. CASE UNCHANGED cred
        BY <3>2
      <3>3. QED
        BY <3>1, <3>2
        DEF Step, Revoke, Sweep, LookUp, Select, Replace, Insert, InsertFails, CommitSelect,
            ReadForTest, ReadProfile, ReadCredential, Fail
    <2>3. QED
      BY <1>1, <2>1, <2>2
  <1>2. QED
    BY <1>1, StoreCorrect, PTL DEF Spec, RevokedIsFinal

\* A purpose loses its model only to the revocation of its credential.
THEOREM ModelStays == Spec => ModelIsKept
  <1> DEFINE Kept == \A u \in Purposes : Enabled(u) # {} /\ Enabled(u)' = {} =>
                       \E p \in Enabled(u) : cred'[prof[p].cred].status = "revoked"
  <1>1. ASSUME StoreInv, [Next]_vars PROVE [Kept]_vars
    <2> SUFFICES ASSUME Next, NEW u \in Purposes, Enabled(u) # {}, Enabled(u)' = {}
                 PROVE  \E p \in Enabled(u) : cred'[prof[p].cred].status = "revoked"
      BY <1>1
    <2>1. PICK p \in Requests : prof[p].state = "enabled" /\ prof[p].purpose = u
      BY DEF Enabled
    <2>2. ~(prof'[p].state = "enabled" /\ prof'[p].purpose = u)
      BY DEF Enabled
    <2> PICK r \in Requests : Step(r)
      BY DEF Next
    <2>3. CASE CommitRevoke(r)
      <3>1. /\ GoodWrite(r) /\ req[r].pc = "disable" /\ req[r].cred \in Requests
            /\ cred'[req[r].cred].status = "revoked"
            /\ prof' = Disabled(req[r].targets)
        BY <1>1, <2>3, CommitRevokeFacts
      <3>2. p \in req[r].targets
        BY <1>1, <2>1, <2>2, <3>1, DisabledFacts DEF StoreInv
      <3>3. \/ prof[p].cred = req[r].cred
            \/ prof[p].cred \in Requests /\ cred[prof[p].cred].status = "revoked"
        BY <1>1, <3>1, <3>2 DEF StoreInv, TargetsAreRight
      <3>4. cred'[prof[p].cred].status = "revoked"
        BY <3>1, <3>3 DEF GoodWrite
      <3>5. QED
        BY <2>1, <3>4 DEF Enabled
    <2>4. CASE CommitSelect(r)
      <3>1. /\ req[r].pc = "commit" /\ prof'[r].state = "enabled"
            /\ prof'[r].purpose = req[r].purpose
            /\ \A q \in Requests \ {r} : prof'[q] = Disabled(req[r].targets)[q]
        BY <1>1, <2>4, CommitSelectFacts
      <3>2. req[r].purpose # u
        BY <3>1 DEF Enabled
      <3>3. p \notin req[r].targets
        BY <1>1, <2>1, <3>1, <3>2 DEF StoreInv, TargetsAreRight
      <3>4. p # r
        BY <1>1, <2>1, <3>1 DEF StoreInv, IdsAreNew
      <3>5. prof'[p].state = "enabled" /\ prof'[p].purpose = u
        BY <1>1, <2>1, <3>1, <3>3, <3>4, DisabledFacts DEF StoreInv
      <3>6. QED
        BY <2>2, <3>5
    <2>5. CASE UNCHANGED prof
      BY <2>1, <2>2, <2>5
    <2>6. QED
      BY <2>3, <2>4, <2>5
      DEF Step, Add, Revoke, Sweep, LookUp, Select, Replace, Insert, InsertFails,
          ReadForTest, StoreTest, ReadProfile, ReadCredential, Fail
  <1>2. QED
    BY <1>1, StoreCorrect, PTL DEF Spec, ModelIsKept

=============================================================================
