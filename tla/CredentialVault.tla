--------------------------- MODULE CredentialVault ---------------------------
(***************************************************************************)
(* The credentials that administrators store, server/src/credentials.ts,   *)
(* and the Google Drive connector set up with one, connectors.ts.  A       *)
(* request is statements one after the other with no transaction: it       *)
(* stores, revokes, records, and finds and writes the connector's row.     *)
(* Another request may run between any two, and any may be the last.       *)
(* The model's key is looked up by its name, not by its id: the newest     *)
(* that is not revoked.                                                    *)
(*                                                                         *)
(* External: Postgres and the audit table.  Left out: encryption, the      *)
(* check of the input, and the credentials of agents and plugins, which    *)
(* are stored by AgentStore and PluginTools and named by their id.         *)
(***************************************************************************)
EXTENDS Naturals, SequencesExt

CONSTANTS
    KeyIds,     \* what keys are stored under: kind, provider and key id
    DriveKey,   \* the name that a setup of Google Drive stores its key under
    Clerks,     \* requests that may be served at a time
    MaxSecrets  \* bound: credentials that are stored

ASSUME VaultAssumption == DriveKey \notin KeyIds /\ MaxSecrets \in Nat

VARIABLES
    secrets,    \* the rows, in the order they were made
    driveRows,  \* connector_instances of Google Drive: the credential each names
    clerk,      \* the requests
    givenUp,    \* history: names a key of which was revoked, or replaced under another name
    met         \* history: two setups of Google Drive met

vaultVars == <<secrets, driveRows, clerk, givenUp, met>>

Operations == {"create", "rotate", "revoke", "configureGoogleDrive"}
Away == [op |-> "none", step |-> 0, keyId |-> DriveKey, previous |-> 0, stored |-> 0, row |-> 0]
SecretIds == 1 .. MaxSecrets

VaultInit ==
    /\ secrets = <<>> /\ driveRows = <<>>
    /\ clerk = [c \in Clerks |-> Away]
    /\ givenUp = {} /\ met = FALSE

\* Mutants: the old key is revoked before the new one is stored, and the
\* connector's row is written before there is a key that it may name.
RevokesFirst(op) ==
    CASE op = "create" -> <<"store", "record">>
      [] op = "rotate" -> <<"revoke", "store", "record">>
      [] op = "revoke" -> <<"revoke", "record">>
      [] OTHER         -> <<"store", "record", "find", "write">>
NamesItFirst(op) ==
    CASE op = "create" -> <<"store", "record">>
      [] op = "rotate" -> <<"store", "revoke", "record">>
      [] op = "revoke" -> <<"revoke", "record">>
      [] OTHER         -> <<"find", "write", "store", "record">>
\* The statements of a request, in their order.
Statements(op) ==
    CASE op = "create" -> <<"store", "record">>
      [] op = "rotate" -> <<"store", "revoke", "record">>
      [] op = "revoke" -> <<"revoke", "record">>
      [] OTHER         -> <<"store", "record", "find", "write">>

-----------------------------------------------------------------------------

Busy(c) == clerk[c].op # "none"
AtStatement(c, statement) == Busy(c) /\ Statements(clerk[c].op)[clerk[c].step] = statement
\* The statement has gone through; the last one ends the request.
GoesThrough(c, request) ==
    clerk' = [clerk EXCEPT ![c] =
        IF request.step = Len(Statements(request.op)) THEN Away ELSE [request EXCEPT !.step = @ + 1]]

ClerkArrives(c) ==
    /\ ~Busy(c)
    /\ \E op \in Operations, k \in KeyIds \cup {DriveKey}, old \in 0 .. Len(secrets) :
         /\ op \in {"rotate", "revoke"} <=> old # 0
         /\ clerk' = [clerk EXCEPT ![c] = [Away EXCEPT
                !.op = op, !.step = 1, !.previous = old,
                !.keyId = IF op = "configureGoogleDrive" THEN DriveKey ELSE k]]
         /\ givenUp' = IF op = "revoke" \/ (op = "rotate" /\ secrets[old].keyId # k)
                       THEN givenUp \cup {secrets[old].keyId} ELSE givenUp
         /\ met' = (met \/
                (op = "configureGoogleDrive" /\ \E d \in Clerks : clerk[d].op = op))
    /\ UNCHANGED <<secrets, driveRows>>

persistCredential(c) ==
    /\ AtStatement(c, "store") /\ Len(secrets) < MaxSecrets
    /\ secrets' = Append(secrets, [keyId |-> clerk[c].keyId, revoked |-> FALSE])
    /\ GoesThrough(c, [clerk[c] EXCEPT !.stored = Len(secrets')])
    /\ UNCHANGED <<driveRows, givenUp, met>>

Revokes(c) ==
    /\ AtStatement(c, "revoke")
    /\ secrets' = [secrets EXCEPT ![clerk[c].previous].revoked = TRUE]
    /\ GoesThrough(c, clerk[c])
    /\ UNCHANGED <<driveRows, givenUp, met>>

\* The audit row, which changes nothing here.
RecordsCredential(c) ==
    /\ AtStatement(c, "record")
    /\ GoesThrough(c, clerk[c])
    /\ UNCHANGED <<secrets, driveRows, givenUp, met>>

\* Without an order, any of the rows is the one that is found.
FindsDriveRow(c) ==
    /\ AtStatement(c, "find")
    /\ \E i \in 0 .. Len(driveRows) :
         /\ i = 0 <=> driveRows = <<>>
         /\ GoesThrough(c, [clerk[c] EXCEPT !.row = i])
    /\ UNCHANGED <<secrets, driveRows, givenUp, met>>

WritesDriveRow(c) ==
    /\ AtStatement(c, "write")
    /\ driveRows' = IF clerk[c].row = 0 THEN Append(driveRows, clerk[c].stored)
                    ELSE [driveRows EXCEPT ![clerk[c].row] = clerk[c].stored]
    /\ GoesThrough(c, clerk[c])
    /\ UNCHANGED <<secrets, givenUp, met>>

\* A statement fails, or the server goes: nothing is undone.
BreaksOff(c) ==
    /\ Busy(c)
    /\ clerk' = [clerk EXCEPT ![c] = Away]
    /\ UNCHANGED <<secrets, driveRows, givenUp, met>>

VaultNext ==
    \E c \in Clerks :
        \/ ClerkArrives(c) \/ persistCredential(c) \/ Revokes(c) \/ RecordsCredential(c)
        \/ FindsDriveRow(c) \/ WritesDriveRow(c) \/ BreaksOff(c)

VaultSpec == VaultInit /\ [][VaultNext]_vaultVars

(* Types.                                                                  *)
VaultTypeOK ==
    /\ secrets \in Seq([keyId : KeyIds \cup {DriveKey}, revoked : BOOLEAN])
    /\ Len(secrets) <= MaxSecrets /\ driveRows \in Seq(SecretIds)
    /\ givenUp \subseteq KeyIds \cup {DriveKey} /\ met \in BOOLEAN
    /\ clerk \in [Clerks -> [op : Operations \cup {"none"}, step : 0 .. 4, keyId : KeyIds \cup {DriveKey},
                             previous : 0 .. MaxSecrets, stored : 0 .. MaxSecrets, row : Nat]]

Named(k) == {i \in DOMAIN secrets : secrets[i].keyId = k}
\* What readModelSecret chooses from: the newest of them.
Usable(k) == {i \in Named(k) : ~secrets[i].revoked}

(* A key stays readable while it is replaced: under a name that nobody     *)
(* gave up, the newest secret of all is the one that is read, at every     *)
(* moment, whoever else rotates it and wherever that stops.  And Google    *)
(* Drive, while its setups do not meet, has one row, that names a secret   *)
(* of its own (rotateCredential, configureGoogleDrive).                    *)
VaultIsKept ==
    /\ \A k \in (KeyIds \cup {DriveKey}) \ givenUp :
         \A i \in Named(k) : \E j \in Usable(k) : j >= i
    /\ ~met => Len(driveRows) <= 1 /\ ToSet(driveRows) \subseteq Named(DriveKey)
=============================================================================
