-------------------------- MODULE CredentialStore --------------------------
(***************************************************************************)
(* LLM credentials and model profiles of one owner: the transactions of    *)
(* SQLStore at read committed, and the requests of Service around them.    *)
(*                                                                         *)
(* One action is one statement.  A transaction of one statement is one     *)
(* action; of the two that have more, the writes of the statements before  *)
(* the last are kept with the request, with the rows they lock, until the  *)
(* commit.  A statement waits for the rows it updates, not for those it    *)
(* reads.  Any call may fail, and a failed commit may have gone through.   *)
(* A request is used once; the ids and the secret it brings along are named *)
(* after it.                                                               *)
(***************************************************************************)
EXTENDS Integers, FiniteSets

CONSTANTS
    Requests,       \* the requests: /llm commands, and calls of the runtime
    Labels,         \* the labels of credentials, up to their case
    Providers,      \* the providers
    Purposes        \* the purposes of model profiles

Erased == "erased"
Nothing == "nothing"

ASSUME CredentialAssumption == Erased \notin Requests /\ Nothing \notin Requests

VARIABLES
    cred,       \* llm_credentials, by id
    prof,       \* llm_model_profiles, by id
    req         \* where each request is, and its locals

vars == <<cred, prof, req>>

-----------------------------------------------------------------------------
(* The tables.                                                             *)

NoCred == [status |-> "absent", label |-> Nothing, provider |-> Nothing,
           secret |-> Erased, test |-> "untested"]

NoProf == [state |-> "absent", purpose |-> Nothing, cred |-> Nothing]

\* Locals: the credential and the profile found, the rows a transaction is about
\* to update, the secret a call came back with, and, as history, the credentials
\* that were revoked when the request began.
NewReq == [pc |-> "idle", cred |-> Nothing, prof |-> Nothing, purpose |-> Nothing,
           targets |-> {}, secret |-> Nothing, before |-> {}]

Active(c) == cred[c].status = "active"

\* The active credential with a label; the unique index allows but one.
Labelled(label) == {c \in Requests : Active(c) /\ cred[c].label = label}

\* The enabled profiles of a purpose.
Enabled(purpose) == {p \in Requests : prof[p].state = "enabled"
                                      /\ prof[p].purpose = purpose}

\* The rows other transactions have updated and not yet committed.
CredLocked(c) == \E r \in Requests : req[r].pc \in {"sweep", "disable"} /\ req[r].cred = c

ProfLocked(p) == \E r \in Requests : req[r].pc \in {"insert", "commit"} /\ p \in req[r].targets

-----------------------------------------------------------------------------
(* Requests.                                                               *)

At(r, pc) == req[r].pc = pc

Done(r) == req' = [req EXCEPT ![r].pc = "done"]

\* Any call may return an error.  What the transaction wrote is rolled back.
Fail(r) ==
    /\ req[r].pc \notin {"idle", "done"}
    /\ Done(r)
    /\ UNCHANGED <<cred, prof>>

\* AddCredential and RotateCredential: UpsertCredential.  The row of the label is
\* overwritten if it has the same provider; with another one the statement
\* returns no row, which is an error.
Add(r) ==
    /\ At(r, "idle")
    /\ \E label \in Labels, provider \in Providers :
         \/ /\ Labelled(label) = {}
            /\ cred' = [cred EXCEPT ![r] = [status |-> "active", label |-> label,
                                            provider |-> provider, secret |-> r,
                                            test |-> "untested"]]
         \/ \E c \in Labelled(label) :
              /\ ~CredLocked(c) /\ cred[c].provider = provider
              /\ cred' = [cred EXCEPT ![c].secret = r, ![c].test = "untested"]
    /\ Done(r)
    /\ UNCHANGED prof

\* RevokeCredential: the update of the credential, which is kept from the others
\* until the commit.  Without an active credential there is nothing to revoke.
Revoke(r) ==
    /\ At(r, "idle")
    /\ \E label \in Labels : \E c \in Labelled(label) :
         /\ ~CredLocked(c)
         /\ req' = [req EXCEPT ![r] = [@ EXCEPT !.pc = "sweep", !.cred = c]]
    /\ UNCHANGED <<cred, prof>>

\* The credentials whose profiles it disables: the one it has just revoked, and
\* those with the same label that were revoked before.
Swept(r) == {c \in Requests :
               \/ c = req[r].cred
               \/ cred[c].status = "revoked" /\ cred[c].label = cred[req[r].cred].label}

\* The update of the profiles begins: it sees what is committed now.
Sweep(r) ==
    /\ At(r, "sweep")
    /\ req' = [req EXCEPT ![r] = [@ EXCEPT !.pc = "disable",
                 !.targets = {p \in Requests : prof[p].state = "enabled"
                                               /\ prof[p].cred \in Swept(r)}]]
    /\ UNCHANGED <<cred, prof>>

\* The rows a statement began with, disabled where they are still enabled.
Disabled(targets) ==
    [p \in Requests |-> IF p \in targets /\ prof[p].state = "enabled"
                        THEN [prof[p] EXCEPT !.state = "disabled"] ELSE prof[p]]

\* The secret stays in the row.
Revoked_Bug(c) == [cred EXCEPT ![c].status = "revoked"]

Revoked(c) == [cred EXCEPT ![c].status = "revoked", ![c].secret = Erased]

\* It has got hold of its rows, and the transaction commits.
CommitRevoke(r) ==
    /\ At(r, "disable")
    /\ \A p \in req[r].targets : ~ProfLocked(p)
    /\ cred' = Revoked(req[r].cred)
    /\ prof' = Disabled(req[r].targets)
    /\ Done(r)

\* /llm model set: credentialByLabel lists the credentials that are not revoked.
LookUp(r) ==
    /\ At(r, "idle")
    /\ \E label \in Labels, purpose \in Purposes : \E c \in Labelled(label) :
         req' = [req EXCEPT ![r] = [@ EXCEPT !.pc = "select", !.cred = c,
                                             !.purpose = purpose]]
    /\ UNCHANGED <<cred, prof>>

\* SelectModelProfile: the update that disables the old profile begins.
Select(r) ==
    /\ At(r, "select")
    /\ req' = [req EXCEPT ![r] = [@ EXCEPT !.pc = "replace",
                                           !.targets = Enabled(req[r].purpose)]]
    /\ UNCHANGED <<cred, prof>>

\* It has got hold of its row.
Replace(r) ==
    /\ At(r, "replace")
    /\ \A p \in req[r].targets : ~ProfLocked(p)
    /\ req' = [req EXCEPT ![r].pc = "insert"]
    /\ UNCHANGED <<cred, prof>>

\* The status is not in the where clause.
Selectable_Bug(c) == cred[c].status # "absent"

\* The row the insert of the new profile selects from.
Selectable(c) == Active(c)

\* The insert finds the credential, and the unique index no other enabled profile
\* of the purpose; it waits for another insert of the same one.
Insert(r) ==
    /\ At(r, "insert")
    /\ Selectable(req[r].cred)
    /\ Enabled(req[r].purpose) \subseteq req[r].targets
    /\ ~\E o \in Requests : At(o, "commit") /\ req[o].purpose = req[r].purpose
    /\ req' = [req EXCEPT ![r].pc = "commit"]
    /\ UNCHANGED <<cred, prof>>

\* The insert finds no credential: what was disabled is not enabled again.
InsertFails_Bug(r) ==
    /\ At(r, "insert")
    /\ ~Selectable(req[r].cred)
    /\ prof' = Disabled(req[r].targets)
    /\ Done(r)
    /\ UNCHANGED cred

\* The insert finds no credential, or the index refuses it: rolled back.
InsertFails(r) ==
    /\ At(r, "insert")
    /\ \/ ~Selectable(req[r].cred)
       \/ ~(Enabled(req[r].purpose) \subseteq req[r].targets)
    /\ Done(r)
    /\ UNCHANGED <<cred, prof>>

CommitSelect(r) ==
    /\ At(r, "commit")
    /\ prof' = [Disabled(req[r].targets) EXCEPT
                  ![r] = [state |-> "enabled", purpose |-> req[r].purpose,
                          cred |-> req[r].cred]]
    /\ Done(r)
    /\ UNCHANGED cred

\* TestCredential: CredentialForTest.  The secret is opened and sent to the
\* provider after that.
ReadForTest(r) ==
    /\ At(r, "idle")
    /\ \E label \in Labels : \E c \in Labelled(label) :
         req' = [req EXCEPT ![r] = [@ EXCEPT !.pc = "test", !.cred = c]]
    /\ UNCHANGED <<cred, prof>>

\* The result goes to the row, revoked or not.
Testable_Bug(c) == cred[c].status # "absent"

\* The rows UpdateCredentialTestResult matches.
Testable(c) == Active(c)

\* UpdateCredentialTestResult, whatever came back.
StoreTest(r) ==
    LET c == req[r].cred
    IN  /\ At(r, "test")
        /\ ~CredLocked(c)
        /\ \/ /\ Testable(c)
              /\ \E result \in {"succeeded", "failed"} :
                   cred' = [cred EXCEPT ![c].test = result]
           \/ ~Testable(c) /\ UNCHANGED cred
        /\ Done(r)
        /\ UNCHANGED prof

\* ResolveActiveModel: ActiveModelProfile.
ReadProfile(r) ==
    /\ At(r, "idle")
    /\ \E purpose \in Purposes : \E p \in Enabled(purpose) :
         req' = [req EXCEPT ![r] = [@ EXCEPT !.pc = "resolve", !.prof = p,
                    !.cred = prof[p].cred,
                    !.before = {c \in Requests : cred[c].status = "revoked"}]]
    /\ UNCHANGED <<cred, prof>>

\* The status is not in the where clause.
Usable_Bug(c) == cred[c].status # "absent"

\* The row CredentialForResolution finds.
Usable(c) == Active(c)

\* CredentialForResolution: the secret of the credential, if it is active.
ReadCredential(r) ==
    /\ At(r, "resolve")
    /\ Usable(req[r].cred)
    /\ req' = [req EXCEPT ![r] = [@ EXCEPT !.pc = "done",
                                           !.secret = cred[req[r].cred].secret]]
    /\ UNCHANGED <<cred, prof>>

Step(r) ==
    \/ Add(r) \/ Revoke(r) \/ Sweep(r) \/ CommitRevoke(r)
    \/ LookUp(r) \/ Select(r) \/ Replace(r) \/ Insert(r) \/ InsertFails(r)
    \/ CommitSelect(r) \/ ReadForTest(r) \/ StoreTest(r)
    \/ ReadProfile(r) \/ ReadCredential(r) \/ Fail(r)

Init ==
    /\ cred = [c \in Requests |-> NoCred]
    /\ prof = [p \in Requests |-> NoProf]
    /\ req = [r \in Requests |-> NewReq]

Next == \E r \in Requests : Step(r)

Spec == Init /\ [][Next]_vars

-----------------------------------------------------------------------------
CredType == [status : {"absent", "active", "revoked"}, label : Labels \cup {Nothing},
             provider : Providers \cup {Nothing}, secret : Requests \cup {Erased},
             test : {"untested", "succeeded", "failed"}]

ProfType == [state : {"absent", "enabled", "disabled"},
             purpose : Purposes \cup {Nothing}, cred : Requests \cup {Nothing}]

ReqType == [pc : {"idle", "sweep", "disable", "select", "replace", "insert", "commit",
                  "test", "resolve", "done"},
            cred : Requests \cup {Nothing}, prof : Requests \cup {Nothing},
            purpose : Purposes \cup {Nothing}, targets : SUBSET Requests,
            secret : Requests \cup {Nothing, Erased}, before : SUBSET Requests]

\* The values of the variables.
TypeOK ==
    /\ cred \in [Requests -> CredType]
    /\ prof \in [Requests -> ProfType]
    /\ req \in [Requests -> ReqType]

-----------------------------------------------------------------------------
(* Properties.                                                             *)

\* A revoked credential is never written again: neither the result of a test that
\* was under way nor a new secret for its label gets to its row.
RevokedIsFinal ==
    [][\A c \in Requests : cred[c].status = "revoked" => cred'[c] = cred[c]]_vars

\* A revoked row holds no secret, and a resolution that begins after a credential
\* was revoked does not come back with it, even where a profile still names it.
RevokedIsNotUsed ==
    /\ \A c \in Requests : cred[c].status = "revoked" => cred[c].secret = Erased
    /\ \A r \in Requests : req[r].secret # Nothing =>
         req[r].secret # Erased /\ req[r].cred \notin req[r].before

\* A purpose that has a model keeps one, through every selection that fails and
\* every race of two: only the revocation of its credential takes it away.
ModelIsKept ==
    [][\A u \in Purposes : Enabled(u) # {} /\ Enabled(u)' = {} =>
         \E p \in Enabled(u) : cred'[prof[p].cred].status = "revoked"]_vars

\* What makes the three hold.  The ids of a request are new: there is no row of
\* them before it writes one, and no secret before it is done.
IdsAreNew ==
    \A r \in Requests :
        /\ req[r].pc = "idle" => cred[r].status = "absent"
        /\ req[r].pc # "done" => prof[r].state = "absent" /\ req[r].secret = Nothing

\* The secret of an active credential is there.
SecretsAreThere ==
    \A c \in Requests : cred[c].status = "active" => cred[c].secret \in Requests

\* A profile is on a credential.
ProfilesHaveCreds ==
    \A p \in Requests : prof[p].state # "absent" => prof[p].cred \in Requests

\* A request is about a credential; one that is revoking it has it for itself, and
\* it is active still.
RevokesAlone ==
    \A r \in Requests :
        /\ req[r].pc \notin {"idle", "done"} => req[r].cred \in Requests
        /\ req[r].pc \in {"sweep", "disable"} =>
             /\ cred[req[r].cred].status = "active"
             /\ \A s \in Requests \ {r} :
                  ~(req[s].pc \in {"sweep", "disable"} /\ req[s].cred = req[r].cred)

\* A revoked credential is revoked for good.
BeforeIsRevoked ==
    \A r \in Requests : \A c \in req[r].before : cred[c].status = "revoked"

\* A revocation disables profiles of its credential and of revoked ones, and a
\* selection those of its purpose.
TargetsAreRight ==
    \A r \in Requests : \A p \in req[r].targets :
        /\ req[r].pc \in {"disable", "replace", "insert", "commit"} =>
             prof[p].state # "absent"
        /\ req[r].pc = "disable" =>
             \/ prof[p].cred = req[r].cred
             \/ prof[p].cred \in Requests /\ cred[prof[p].cred].status = "revoked"
        /\ req[r].pc \in {"replace", "insert", "commit"} =>
             prof[p].purpose = req[r].purpose

StoreInv ==
    /\ TypeOK /\ IdsAreNew /\ SecretsAreThere /\ ProfilesHaveCreds /\ RevokesAlone
    /\ BeforeIsRevoked /\ TargetsAreRight /\ RevokedIsNotUsed

\* No enabled profile is on a revoked credential.
RevokedHasNoModel ==
    \A p \in Requests : prof[p].state = "enabled" => cred[prof[p].cred].status # "revoked"
=============================================================================
